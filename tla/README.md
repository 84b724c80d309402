# LiberShare: specifications, model checking and proofs

TLA+ specifications of LiberShare, the peer-to-peer file sharing program of this
repository: the concurrent core of its backend, and the parts of its frontend
whose state outlives a call. TLC configurations check them on small instances,
and TLAPS proofs hold for every instance. The reference is the TypeScript and
Svelte code under `src/backend/src`, `src/shared/src` and `src/frontend/src`;
comments and documents are quoted only where the code does something else.

Contents: [the system](#the-system), [the modules](#the-modules),
[the runs](#the-runs), [fairness](#fairness), [proofs](#proofs),
[divergences](#divergences), [what is not modelled](#what-is-not-modelled),
[plan](#plan).

## The system

The backend is one JavaScript process and so is the frontend. Nothing runs in
parallel inside either; what runs concurrently are asynchronous calls, which
interleave at every `await`, and messages between the two and between nodes. The
hard behaviour is mostly of one kind: something is read, an `await` lets others
in, and what was read is used. In the specifications **a step is the code between
two awaits**.

| Component | State | Operations | Talks to | What is hard |
| --- | --- | --- | --- | --- |
| Lishnet mutation gate (`lishnet/lishnets.ts`, `NetworkMutationGate`) | closed flag, count of writes inside, parked callers | enter, leave, prepareMaintenance, drain, release | every lishnet write, factory reset | a resolved promise and the continuation behind it are two moments |
| Factory reset (`api/factory-reset*.ts`) | a mutex, three closed gates | close, drain, stop, wipe by category, restart | all gates, transfers, node | partial failure |
| Lishnet membership (`lishnet/lishnets.ts`, `db/lishnets.ts`) | rows, memberships, installed addresses, stop flags, a catalog mutex and one per lishnet | every write, `startEnabledNetworks`, `stopAllNetworks`, the reconcile | node, transfer API | four nested locks; joins that dial for seconds; failures half way |
| Network node (`protocol/network.ts`) | phase, node, topics, configured addresses, dial runs, per-peer memory | start, stop, subscribe, dial, status tick, discovery, eviction | libp2p, datastore | every maintenance job may outlive the run of the node it belongs to |
| Peer bookkeeping (`bootstrap-status.ts`, `peer-announce.ts`, `peer-tracker.ts`) | rows per address, chains of announcements, figures per peer | frames, sweeps, emissions, merged snapshots | node, API | overlapping frames, superseded chains |
| Downloader (`protocol/downloader.ts`) | phase, timers, a work mutex | download, work, discovery, enable, disable, destroy | peer manager, engine, node | everything may start work; nothing may stop it for good |
| Peer manager (`protocol/peer-manager.ts`) | connected, dropped, banned, active peers | tryAdd, remove, closeAll, marks | downloader, engine | dials in flight while all else changes |
| Chunk transfer engine (`chunk-downloader.ts`, `pause-controller.ts`, `file-allocator.ts`, `db/lishs-chunks.ts`) | queue, slots in flight, counters, pauses, flags, files | a loop per peer, write retry, recovery | database, disk, peers | one queue, many loops, shared contents |
| Transfer API (`api/transfer.ts`, `api/busy.ts`) and error recovery (`api/error-recovery.ts`) | enabled sets, registry, suspensions, lifecycles, recovery entries | enable, disable, leave, join, attempts, pause and restore | downloader, membership | enable racing disable over awaits |
| LISH store (`api/lishs.ts`, `lish/`, `db/lishs*.ts`) | rows, chunk flags, files, verification queue, busy marks | create, import, delete, move, finalize, verify, stop | database, disk, transfers | a verification that was stopped still runs to its next await |
| Upload server (`protocol/lish-protocol.ts`, `speed-limiter.ts`) | handlers, stream counts, line of the limiter | serve, pace, stop; requests and answers | database, disk, peers | caps looked at before a read and counted after |
| Search (`api/search.ts`, `protocol/lish-handlers.ts`) | sessions, asked peers, heard questions | start, ask, collect, end | node, frontend | two ways to ask, an end at any time |
| Settings (`settings.ts`, `storage.ts`, `api/settings.ts`, `scripts/settings.ts`) | the object in memory, its file, one queue of saves; the client's stores | set, import, reset, save, restart; load | protocol layer, frontend | a call goes on after its save, with what others wrote meanwhile |
| Volume (`system-volume.ts`, `api/system.ts`, `scripts/settings.ts`) | the write under way and the one behind it, what the watcher remembers; the level shown, sent, held back | write, poll, monitor, adopt; adjust, read, hear | the mixer of the OS, frontend | three who set it, and every report of it late |
| Connection (`shared/src/client.ts`, `ws-client.ts`, `api/api.ts`) | sockets, pending calls, timer, token | connect, call, close, check status | server | callbacks of an old socket beside the new one |
| Frontend stores (`downloads.ts`, `networks.ts`, `lishSearch.svelte.ts`) | rows, timers, counts, results | event handlers, loads, subscriptions | backend events | events late, lost or before an answer |
| Frontend navigation (`areas.ts`, `navArea.svelte.ts`, `navigation.ts`, `input/`, `FileBrowser.svelte`, `DownloadDetail.svelte`) | owner of each keyboard area, selection, path, dialogs, held keys | key, click, page, dialog, late answer | stores | pages hand the keyboard on, answers come after they left |

What makes each correct: a drained maintenance pass works alone; what the
membership layer remembers is what the node has; a shutdown overtakes nothing;
every call returns; a limit holds and no stream is forgotten; no chunk falls
between queue and disk, no flag runs ahead of the disk, nobody leaves with work
left; a finished download is whole and a waiting one has a timer; a paused
system is quiet; a failed move costs no file; an answer belongs to its question;
a maintenance job of an old run does no harm to the new one; what the user sees
follows what the backend last said; memory, file and protocol layer agree on the
settings; a page that goes gives back what it took.

## The modules

Modules of a component have its name. Those named MC* hold the instances for
TLC where a configuration alone does not say them, those named *Proofs the theorems.

| Module | Code | In short |
| --- | --- | --- |
| `NetworkMutationGate` | `lishnets.ts` | writes and maintenance passes of any number; `woken` is a caller whose promise is resolved and who has not looked again |
| `FactoryReset` | `factory-reset*.ts` | EXTENDS the gate: the reset is its maintenance pass, with two more gates and every phase that can fail |
| `Lishnets` | `lishnets.ts`, `network.ts`, `db/lishnets.ts` | rows, reconciles, starts and stops; `catalog`, `lock` and `lifeMutex` are FIFO queues whose head is the owner |
| `ChunkDownloader` | the engine and its pauses, allocator and flags | one run; the queue is a bag, disk contents are right or wrong |
| `PeerManager` | `peer-manager.ts` and its users | a client is one stream, numbered as dialled, so that a loop that drops its peer *by name* can hit a newer stream |
| `DownloadContract` | what `transfer.ts` may assume of a download | the abstract specification: over, failed, disabled, promise, destroyed |
| `Downloader` | `downloader.ts`, `file-allocator.ts` | phases, timers, work; implements the contract |
| `ErrorRecovery`, `Transfer` | `error-recovery.ts`, `transfer.ts`, `busy.ts` | one LISH; its downloads take the steps of `DownloadContract` (an INSTANCE over the array of downloads), whatever `Downloader` does inside |
| `LishStore`, `LishFiles`, `ChunkTable` | `lishs.ts`, `lish/`, `db/lishs*.ts` | calls with the verification queue; the walk and the hashing workers; the statements over rows |
| `SpeedLimiter`, `UploadServer`, `Exchange` | `speed-limiter.ts`, `lish-protocol.ts` | the line and its one timer; handlers of streams over it; requests and answers of one client |
| `Search` | `search.ts`, `lish-handlers.ts` | a session asking over topics and over streams |
| `BootstrapStatus`, `PeerAnnounce`, `PeerTracker`, `PeerUpkeep` | the files of these names, `network.ts` | frames and rows; chains of announcements; merged figures; the tick, dials and eviction around one peer |
| `MCNetwork` | - | the eight modules before it side by side: their specifications, their properties by what they are about, and the instance |
| `Settings` | `settings.ts`, `storage.ts`, `api/settings.ts`, `network-limits.ts`, `scripts/settings.ts` | two limits that belong together and a speed stand for all settings; a queue of calls that wait for their saves |
| `Volume` | `system-volume.ts`, `api/system.ts`, `scripts/settings.ts` | the mixer, the serialized writer, the watcher, and a client with its edits and readings |
| `Connection` | `client.ts`, `ws-client.ts`, `api.ts` | sockets as slots, callbacks in order |
| `DownloadsView`, `SearchView`, `Watch` | `downloads.ts`, `lishSearch.svelte.ts`, `networks.ts` | one row; one session after the other; counts, mesh and bootstrap statuses from the backend's check to the colours |
| `Areas`, `NavArea`, `FileBrowser`, `DownloadDetail`, `Navigation`, `Input` | the frontend files of these names | who owns the keyboard, what is selected, where the user is, what a device sends |

How they fit together:

- **`Downloader` implements `DownloadContract`.** The mapping is the record
  `contract` of its state; `KeepsContract` says that every step of a download is
  a step of the contract or a stutter. **`Transfer` is written over the same
  steps**, so what it shows of any number of downloads that keep the contract is
  true of those of `Downloader`. What the contract leaves out (files, peers,
  timers) the transfer API never looks at.
- **`FactoryReset` EXTENDS `NetworkMutationGate`**: its write gate is the real
  one, with writes coming through meanwhile; the gates of transfers and of LISHs
  are a flag and a count, which `Transfer` and `LishStore` show in full.
- `MCReset` puts `Settings` and `Volume`, which share no state, beside the two.
- `PeerManager` and `ChunkDownloader` are two views of a run and share no
  variable: in the first loops come and go but move nothing, in the second each
  peer joins once but the chunks are there. `Downloader` has a run as one step
  that fetches some of what is missing.
- `UploadServer` EXTENDS `SpeedLimiter`; the pages of the frontend use `Areas` as
  operators on a layout.

Some correspondences worth naming. In `Lishnets` a list of addresses is a set and
an address stands for its peer; `dial` holds the runs of `addBootstrapPeers`, and
a run notices at its next step that an edit, a leave or a stop has superseded it.
In `ChunkDownloader`, `Downloaded` asks by checksum and looks at the first row,
as `isChunkDownloaded` does. In `Transfer` the part of a call between two awaits
is one action (`Enter`, `Replaced`, `Resumes`, `DiskChecked`, `Accessed`,
`Starts`). `Remove` and `DeleteData` are the two deletions, of the LISH and of its
data; both end in `Removed`, which takes off whatever is registered by then. In `LishStore` a
piece is a file with its chunks, and the user's own files in a directory are `mine`. A move goes
to any directory, one's own and one with files in it included; a file copied over itself may be
left empty. In `NavArea` an item's position is asked of its component, so rows shift when an
earlier one goes or comes or two are exchanged, and the selection does not. In `PeerUpkeep` an *epoch* is a run of the node,
and every job keeps the one it began in. In `Connection` a slot of `Socket` is
used again once nothing refers to the old one. In `Settings` a call that waits for its
save has in `then` what it does afterwards, and in `of` the object it saves if a reset has
put another in its place. In `Volume` a message is what the client is told: the settings
of a connect, a reading, an event, or the answer to its call. In `FileBrowser` paths are depths
of one branch. The header of each module says what it abstracts.

## The runs

Every run finishes, and between them the passing runs fire every action.

| Run | Instance | What it checks and shows |
| --- | --- | --- |
| `reset` | 3 writes, 2 passes at the gate; 2 resets with 2 writes; settings: 2 sizes, 2 calls in the backend, 3 events; volume: 2 levels, 3 events | `TypeOK`, `Exclusion` (a drained pass works alone), `ResetIsWhole` (what is wiped belongs to nobody, calls come in only over a whole runtime), `HostHolds` (when the calls are through, memory, file, protocol layer and client agree on the settings and a chunk fits into a message; the newest volume is the one written, and at rest the client shows the mixer), `NothingEntersClosedGate`, `EverybodyGetsOn` (drains and resets end) |
| `lishnets_lifecycle` | 2 lishnets, no address, a writer, 2 controllers, every fault | `ObserversAgree` (whatever has settled is what was announced), `StopFindsNobody`, `JoinedIsSubscribed`: starts, stops and rollbacks among writes |
| `lishnets_addresses` | 1 lishnet, 2 addresses, a writer, a controller, every fault | `EntryIffJoined`, `NoResurrectedAddress`, `EverybodyReturns`: addresses across edits, leaves and stops, and the lock a join holds while it dials |
| `chunks_queue` | 2 files that share a content, 3 slots, 2 peers, a destroy | `ChunksHold` (no slot falls out of the queue, no flag runs ahead of the disk), `LeavingIsRight` (a loop goes home for a reason, a HAVE is heard) |
| `chunks_recovery` | 1 file of 2 slots deleted once, 2 peers, full disk, refused allocation, a disable and an enable, a destroy | `RecoveryHolds` (the same, but that a destroy may cut a recovery off between the zero-fill and the verification) |
| `peers` | 2 peers, a limit of 1, 2 dials at once, 2 streams | `CapRespected`, `EntriesAreLive`, `NoStreamLeaks`, `DestroyLeavesNobody`, `DestroyReturns` |
| `download` | 1 file, 1 peer, a limit of 1, 1 discovery, 1 announcement, one deletion, one pause | `EndsAreWhole` (finished means whole but for flags that a refill cut short leaves unread, destroyed means quiet), `StaysAwake` (whoever waits has a timer or somebody at work), `KeepsContract` (the refinement) |
| `transfer` | 2 lishnets, a user, a recovery attempt, 2 downloads | `PausedIsQuiet` (behind the closed gate nothing of transfers goes on), `NobodyIsDropped` (a running download is taken off the registry by a deletion only, of the LISH or of its data, and only where "deleting" did not keep an enable out), `PauseReturns` |
| `store` | 2 LISHs of 2 pieces that are verified, deleted, uploaded and reset, one call at a time (`queue`); 1 LISH with all kinds of calls, a download and an upload (`lish`); 1 LISH and two calls at once (`pair`); every tree of up to 3 entries and 2 hashing threads; 4 layouts of rows | `VerificationHolds` (one verifier, no queue unwatched, the quiet is free of marks), `ManifestHolds` (a manifest lists everything once in order, queries agree), `StoreGoesOn` (whatever fails between two files of a move or a finalization, no file is lost, unless the call met other files, another call or a download that writes; stops return) |
| `store_foreign` | 1 LISH, imports, downloads, moves, deletions | violation of `MineIsKept` |
| `network` | 3 streams of 2 peers, a cap of 1, 3 requests; 3 exchanges; 2 topics, 2 responders; 2 addresses, 2 dial runs; 4 moves around a peer | `ServingHolds` (the line has its timer, the count is the streams served, figures go on), `AnswersBelong`, `StatusHolds`, `UpkeepHolds` (one chain, one tick, nothing of a connected peer is deleted), `EndingHolds` (a stop of the node finds every handler, an ended search is silent) |
| `client` | nine parts of the frontend, bounds below | `RowFollows`, `PlaceHolds` (keyboard areas, breadcrumbs, the selected item and the way back to one), `RowsBelong`, `WatchHolds`, `ConnectionGoesOn`, `UpNeedsDown` |

**One run, several parts.** `reset`, `store`, `network` and `client` have a
variable `mode`, chosen at the start: the part of that name moves and the others
stay where they are, so that the state space is the sum of those of the
parts and not their product. Nothing is claimed about how the parts would move
together. The properties of such a run are conjunctions of properties the modules
state by name; the MC module says in a comment what each is about. A property of
a part that does not move holds in its initial state, so the conjunction is as
strong as its members. The three modes of the store are the same `StoreNext`, narrowed by
`Within`.

**History variables** say what a property has to know of the past and no action reads:
`removing.guarded` (Transfer: since the deletion began, "deleting" has kept every enable
out), `crossed` (LishStore: a call of the LISH met files, another call or a download that
writes), `restored` (DownloadsView: the upload that is shown was told by a load and not
heard of since), `strayed` (NavArea: rows moved under the selection, or it was set to a
position nobody looked at, and it has not been on an item since).

A part without a step left rests, in `reset` by a disjunct of `mcNext` for the settings and
the volume, so that deadlock is still looked for in the gate and the reset. The fairness of
`reset` is that of the part that moves. Its liveness is stated of one pass and one write:
the others are exchanged with them by a permutation that leaves the specification as it is.

**Bounds.** `MaxDials` bounds the dial runs of one lishnet outstanding at once:
one is enough for a run that finds itself superseded. Rows, calls and failures of
`Lishnets` are unbounded: clients call again and again. Two lishnets are the least
with two locks, two controllers the least for a start overtaken by a stop. In the
engine `MaxSkips`, `MaxCorrupt`, `MaxRealloc` and `MaxRetries` are the limits of
the code brought down to one, so that the limit and the step before it both
occur; `MaxDeletions`, `MaxGains` and `MaxEnables` bound what the user and the
peers do. Two peers suffice for one that waits while the other works, two files
for a shared content. `MaxClients` is the streams dialled: two for a peer whose
old loop meets its new stream; `Cap` one, the least limit two can race for. In
`Transfer` `MaxEvents` is 3: an enable, what overtakes it, and what overtakes
that; `MaxDownloads` 2 is an old and a new download of the LISH. In `LishStore`
`MaxRuns` 4 leaves room for a stopped verification of each LISH beside the current
one and its successor (a run is left behind only by a call that begins another, so more
than `MaxEvents` are never needed: `StoreAssumption`); `MaxEvents` 3 as before, 2 where two
calls are at work at once. Two pieces let a copy fail between two files. In the upload server three
streams of two peers are the least in which a peer has two and another one
competes; `IoThreshold` is 2, so that an error counts without ending the
sharing; the other bounds count calls and events. `MaxUpkeep` 4 allows a stop and
start of the node under a job that began before. In `Settings` a `MaxSize` of 2
gives message sizes of 1 to 3, so that a limit may be below, at and above its floor, and
`MaxPending` 2 a call behind another one. In `Volume` `MaxSaving` and `MaxTold` 1 still
leave a value in the writer and one behind it, and an answer with its event. In the frontend
`MaxWire` is the
events under way (2: one that overtakes nothing and one behind it), three sockets
let an old one close while another opens, the grid is 2 by 3, menus are two
deep, and `Max...Events` of 2 to 4 bound what the backend and the user do.

**Symmetry** is declared in safety runs only, over lishnets or peers; no CHOOSE of
the modules used in them depends on these. **Deadlock** is checked in `reset`,
`lishnets_*` and `chunks_*`. It is off in the others: a download may be over,
bounded events may be used up and a user need not do anything.

**Mutants.** Beside several actions stands an operator marked *Mutant*, the same
action with a plausible mistake: a lock given up late, a list not looked at
again, a generation not compared. Every property of every passing run is broken by
one of them. The specifications do not use them.

## Fairness

Users, remote peers, files that disappear and connections that break are never
fair. What was called goes on: the event loop runs every continuation whose
promise is resolved, and timeouts end dials, hang-ups and requests. All of it is
weak fairness; async-mutex is a FIFO queue, so no lock needs the strong kind.

- *Lishnets*: `Write` and each `Reconcile` of a writer, `Starting` and `Stopping`
  of a controller, each dial.
- *NetworkMutationGate*, *FactoryReset* (stated in `MCReset`): the continuations of woken
  callers, the end of a write and of a call inside a gate, each step of a reset.
- *PeerManager*: one weak fairness over everything under way together, which is
  less than the code gives.
- *Transfer*: one weak fairness each for what goes on at once (leaves, joins, the end of a
  deletion, attempts), for the continuations of the calls together, for downloads that fall
  quiet or are taken off, and for the pause: some of those ready goes on, which is less than
  the code gives. Downloads never have to end.
- *LishStore*: the steps of the verification runs and of the calls, of a drain,
  of a stop that returns and of the end of a reset.
- *UploadServer*: each handler, the slots of the limiter, the end of aborted
  streams, the stop and start of serving. *Search* has safety only.
- *Connection*: the server answers or the socket closes, callbacks and timers
  fire, a backend that is down comes back.
- *ChunkDownloader*, *Downloader* and the other modules are checked for safety;
  that a waiting download wakes up is stated as an invariant (`StaysAwake`: there
  is a timer), because whether it finds a peer is up to others.

## Proofs

All theorems hold for any sets of clients, lishnets, files, peers and addresses and all
values of the bounds that satisfy the named assumptions of the modules (`CallersAssumption`,
`ClientsAssumption`, `BoundsAssumption`, `CallsAssumption`, `LimiterAssumption`,
`StatusAssumption` and their like): sets that are counted are finite, limits are natural
numbers, marks like `NoSlot` are no members. The proof modules cite them by name.

**HostProofs** proves, of the gate, `TypeCorrect`, `ExclusionHolds` and
`ClosedGateHolds`. The properties are not inductive: the code counts writes in
and out and knows nothing of who they are. The invariant adds that the count is the
number of writes inside, that the gate is closed exactly while there is a
leaseholder, that there is at most one of those, and that somebody who has
drained has seen the count at zero. Finite cardinalities are the arithmetic
of it, by the library's facts on adding and removing an element.

Of the reset it proves `WholeReset` and `ResetExcludes`: a reset is a maintenance
pass, so every step of it is a step of the gate or leaves the gate alone (`ResetMovesGate`)
and the gate's invariant comes along. The rest says what each phase has behind it: who is
past waiting is the head of the mutex (`Queue`), a pass that holds its lease is drained or
draining (`Lease`), the other two gates are closed from their phase on (`Shut`), what the
phases have stopped stays stopped while they last (`Settled`), and a reset that gave up
before it stopped the transfers left them over a node that is up (`Whole`).

Then `HostHolds`, from its two halves. `SettingsCorrect` is about the
settings. None of it holds while calls wait. The last save in the queue writes the object in
memory (`Queued`); a pair that is unusable has somebody in the queue who will repair it
(`Repaired`), which each call passes on to the one it queues (`Onward`). What the client shows
is, setting by setting, the last value it sent, or what is stored if it sent none
(`Follows`). That a repair never disturbs it takes `Fits`: any chunk size that can be the
last before a message size arrives fits into the message size that is shown, so that a
repair happens only with another message size of the client on its way.

`VolumeCorrect` is about the volume. While anything is on its way the client may show
anything; the invariant says what the last of it does. The last thing the client will be
told of the mixer is what the watcher remembers (`LastIsTold`); a client that does not know
the mixer has a reading on its way, and one that knows it has none that counts any more
(`ReadingComes`, `OneReading`); and once the line is empty it shows the level it was told,
or has one of its own still to send (`LastIsShown`, `HeldIsKnown`). The reading of the
start adopts a level only while nobody has written one (`Untouched`, `StartIsFirst`), and
the writer that is out, or the one behind it, carries the newest level (`Writing`).

**LishnetsProofs** proves six properties:

- `TypeCorrect`: `TypeOK`.
- `EntryHolds`: `EntryIffJoined`, inductive with the type invariant alone, one
  step per action: membership and baseline are installed and dropped together.
- `MembershipAgrees`: `JoinedIsSubscribed`. Inductive as `NodeAgrees` with
  `BuiltByOne`: a node that is stopped or starting has no topic and none is
  claimed, and a node is being built by the one call that holds the lifecycle
  mutex. Who holds which mutex (`CatalogHeld`, `LifeHeld`: a controller past its wait is at
  the head of the queue) is proved together with the types and used by the rest.
- `StopIsAlone`: `StopFindsNobody`. The argument is about the queues of the
  lishnet locks. A controller waits for a lock only inside its catalog section
  and in one place only (`LocksInside`, `OnePlace`); a writer appends to a
  lock only while it owns the catalog; so a stop, which owns the catalog, finds
  after its drain no writer in any queue, and nobody can join one
  (`Drained`).
- `ObserversHold`: `ObserversAgree`. What was announced is what is so, but for a lishnet
  whose transition is under way (`Told`). A transition has an owner: a reconcile that has
  begun owns its lock (`PhaseOwned`), and a rollback that leaves a lishnet owns it too
  (`LeavingOwns`), so that nobody announces for somebody else.
- `NothingResurrected`: `NoResurrectedAddress`. An address outlives its lishnets only where
  the node remembers it for a reason (`Recorded`); a stopped node remembers none
  (`Stopped`, `StoppedByOne`), unless a start that failed took it down without draining
  (`late`, see the divergences).

**EngineProofs** is about the transfer engine in both its views, the peers of a download
over many runs (`PeerManager`) and one run (`ChunkDownloader`), which share no variable.
Of the first it proves the type invariant and the safety properties of the
run `peers`: `PeersCorrect`, `CapHolds`, `EntriesHold`, `NoLeakHolds` and
`DestroyedHoldsNobody`. The limit is inductive with the types (`Joining`: a step
adds one peer at most, and only with room). The others rest on who holds a
stream. `HeldOnce` says that the stream of a connected peer is open, belongs to no
other peer, is in nobody's hands to be closed, and that its loop serves that peer
and is not on the way out; without it a loop's close, or the start of a run, could
hit a stream of a member. `Numbered` makes a new stream new, `HandsEmpty` says
that whoever takes a stream in hand held none before. `DestroyedIsEmpty` (nothing
is added after a destroy) turns the absence of leaks into the promise of destroy.

Of a run it proves, for any finite set of peers:

- `TypeCorrect`, with the limits of all counts: a loop that tries once more than it may
  goes home for it, and none comes back, so that the loops gone home bound the excess
  (`RunCounted`, `PeersCounted`).
- `ChunksSafe`: `ChunksHold`, when nobody deletes. The inductive form of `NoChunkLost` is
  `Queued`: each missing slot is in the queue or held itself, by its number, and not just
  by its content; a loop that discards a slot from the queue must then have found it
  flagged, and for that the slots of one content must be flagged together (`Together`).
  `Untouched` has what a loop has written already of a shared content.
- `RecoverySafe`: `RecoveryHolds`, with deletions, under the two conditions the divergences
  below ask for: each chunk has its own content (`OwnContents`), and no allocation is
  refused after another of the same recovery (`NoneHalfway`). What was made anew and is
  still flagged is on the list of a loop that verifies (`Doubted`, `Listed`); that there is
  one such loop and that it is the one noted is `OneRestores`.
- `LeavesRight`: `LeavingIsRight`, under either condition. A loop goes home only with
  nobody in flight, so `Holding` leaves the missing slots to the queue. Its half
  `HaveIsHeard` is also proved alone and of every run (`HaveHeard`), from `Heard`: what
  its peer denied the last HAVE does not name, or there is a newer one to read.

**DownloaderProofs** proves `TypeCorrect`, `EndsHold`, `AwakeHolds` and `Implements` of a
download, and `VerificationStays` of the store its chunks go to.
`Phases` relates the phase of a download to where its work is; `Quiet` says that nothing
is put up again after a destroy. `Awake` is the invariant behind `StaysAwake`: the chain
of discovery cycles lives while a download waits for its manifest, and afterwards the
chain, the retry timer or the work itself; the difficult steps are those that end the
work after somebody else has moved the phase. `Whole` ties the list of missing chunks
to the flags. The refinement takes `Phases` and the types: each step is one of
`DownloadContract` by the fields of the record it changes, or changes none (`Still`).

`VerificationStays` is `VerificationHolds`. A run that was not told to stop is the current one
(`RunsKept`): whoever forgets the current run has aborted it, and a new one becomes current only
where there is none. What waits in the queue has a run, a stop that has not returned, or the
closed gate to see to it (`Watched`), and each of these looks at the queue as it goes. A LISH is
busy for a reason: it waits for a verification or is verified (`VerifyingBut`), or a call is at
work on it (`BusyKept`), and what the reset leaves behind its gate is quiet (`GateKept`). The
generations of rows are bounded by counting the calls that have still to make one with those
that have (`GenKept`). That there is always a number free for a run is the part of
`StoreAssumption` that `MaxRuns` exceeds `MaxEvents`: the runs behind the current one are at
most as many as the events (`Spare`).

**TransferProofs** proves `TypeCorrect`, `QuietHolds` and `NobodyDropped` over any
downloads that keep the contract. The last has a deletion in it: as long as it is guarded, no
call is on its way to put up or revive a download, and what is registered is the one it
destroys or nothing; the failure of that guard is what the property excepts and the
divergences show (`DeletionDropsItsOwn`). `OneTry` says that one attempt at most may give its entry
back to the recovery; `CallsHold` who holds a download, `DownsHold` what became of those
nobody holds. `Shut` and `AllOutside` follow the pause: behind the closed gate every call is
before its first await or on its way out; `Cleared` says what each step of clearing leaves.

**NetworkProofs** proves the state properties of the run `network`, each part by itself:

- `AnswersHold`: reads of a stream are served in the order of the requests, because what
  was read for is what is on its way followed by what is not answered yet (`InOrder`); a
  search never has in its line a peer that was dialed (`DialedFromLine`).
- `UpkeepCorrect`: one chain of announcements, since whoever works for a superseded one
  finds that out before it sets a timer; one tick, since the flag is set exactly while a
  tick of this run is out (`TicksHold`, `NoJobAhead`); a connected peer is kept, since a
  deletion that finds it back puts it back (`PutBack`).
- `StatusCorrect`: what was sent is what there was to see when the last frame closed, and
  a frame that is open knows every lishnet that changed since (`Told`, `NothingHeldBack`);
  the bound on discovered rows by counting (`Fits`).
- `LineCorrect`, `ServingCorrect`: every step of the limiter ends with a look at its line
  (`Timed`); the count of a LISH is the number of handlers that serve it, by the facts
  on adding and removing an element; the totals of a peer survive its entries.

**ClientProofs** and **PlaceProofs** prove five of the six properties of the run `client`,
each part by itself; the sixth is liveness. The first has what is shown of the backend:

- `RowsFollow`: `RowFollows`. While events are under way the row and the backend may
  differ; the last event of the line that sets a thing sets it so, and what none
  of them sets is so already (`Tracks`). Before the list is shown it is what was listed that
  agrees (`Loading`), and an upload that is shown has its timer or was told by the last load
  (`UploadHeard`).
- `RowsStay`: `RowsBelong`. Searches are numbered as they come (`Numbered`), the call of a
  slot has at most one answer on the socket (`Answers`), and results of another search than
  the one shown are gone before its first event (`Emptying`). In the browser, what is shown differs
  from the path only while a listing is under way.
- `WatchGoesOn`: `WatchHolds`. The last call under way about an event subscribes to it, or there
  is none and the backend has the subscription (`Promised`); without a mesh there is no score,
  and the mesh is among the peers (`GoodTopics`). That a sum is zero only when
  each network counts none is shown by opening the fold.

The second has where the user is:

- `UpAfterDown`: `UpNeedsDown`. What an area has to hear the end of, the device remembers
  (`Begun`), through losses of the focus and shortcuts.
- `PlacesHold`: `PlaceHolds`. In the file browser the owner of an area is known from the
  dialogs that are shown (`OwnersShown`), whatever is behind a dialog comes back with its close
  (`BehindIsBack`), and the input of a filter covers the panel alone. The page of a download is
  alone or has one page in its place (`AloneOK`, `InPlaceOK`): a page it opens takes its areas
  and gives them back, also where the download goes away and comes back meanwhile. As in the
  property, a confirmation that comes after its browser has gone (`outlived`) is excepted.
  Breadcrumbs: those of the menu are the path, in front of all others.
  Selection: each change of the items leaves it on one, or strayed (`SelectionKept`), and then an
  arrow leads to one: the items of its own row lie to the left or the right of it, all others above
  or below. That the arrows
  reach every item is a statement about a fixpoint: what `Len(items)` rounds reach is closed
  under them, by counting (each round adds an item or is the last), and a closed set that is
  not empty is everything (`NoneLeaves`), as the next item of a row or of the nearest
  column is never passed over.

Only model-checked: liveness, which is out of the prover's reach
(`EverybodyGetsOn`, `EverybodyReturns`, `DestroyReturns`, `PauseReturns`, the second
half of `StoreGoesOn`, `ServingEnds`, `ConnectionGoesOn`); `EndIsEnd`; `NothingIsLost`, the
first half of `StoreGoesOn`; and `ManifestHolds`, which rests on
folds over sequences, whose results need induction over data.

## Divergences

**Recorded as a finding.** `store_foreign`: a LISH that was downloaded through a
temporary directory and then moved keeps its `finalDirectory` set, so a deletion
of its data takes the directory it was moved to for the temporary one and removes
it recursively (`lishs.ts:151`), with files that are not of the LISH. The comment
says "Files not part of the LISH are left untouched" (`lishs.ts:138`).

**Stated, violated, without a run.** The definitions below stand at the end of
their modules and do not hold for the code as modelled. To see one, put it in a
configuration with the constants given.

| Property | Constants | What happens |
| --- | --- | --- |
| `NothingInstalledLate` (Lishnets) | `TwoNets`, `OneAddr`, `TwoWriters`, `OneController`, `StartOnly`, `AllFaults`, `MaxDials = 2` | A start that fails for one lishnet takes the node down without draining (`lishnets.ts:435`). A reconcile reserved earlier installs its list after the teardown has cleared the configured addresses (`network.ts:3462-3463`) and before the stop returns, so that the list is there in the next run: "Exactly the resurrection this eviction work exists to prevent" (`network.ts:1990`). `NoResurrectedAddress` is stated up to such an installation (`late`). |
| `MembershipNotDiscarded` (Lishnets) | `OneNet`, `NoAddr`, `AllFaults` | `lishnets.ts:1004-1010` says the membership is cleared only once the node is provably down; a start that finds a half-stopped node clears it (`lishnets.ts:436`). |
| `NoOrphanedAddress` | `TwoNets`, `OneAddr`, `OneWriter`, `OneController`, `Both`, `NoFaults` | Whether an address is still needed by another lishnet is decided by that lishnet's row (`lishnets.ts:836`), whose installed list follows later. One write deletes B, which installed the address, and moves the address to the row of A, disabled by the same write. B leaves first and keeps the address for A; A, which never installed it, leaves without releasing it (17 states). |
| `NoLostAddress` | the same with `TwoWriters` | The other direction. One write deletes A and B, both of which installed the address. A leaves first and releases it, because B's row is gone; a second write restores B before its convergence, which finds B joined with a finished list equal to its row and installs nothing (22 states). |
| `DeferredReadIsStable` | `OneNet`, `NoAddr`, `TwoWriters`, `OneController`, `Both`, `AllFaults` | A write that finds admission closed answers from the membership (`lishnets.ts:609`) as if no convergence could move it. A start that fails closes admission again without draining (`lishnets.ts:397`, `lishnets.ts:433`), so a reserved convergence may still be running (8 states). |
| `LeavesForAReason` (ChunkDownloader) | 2 files of one content, one deletion | `chunk-downloader.ts:92-94` says when a run returns. When the first of two slots of one content is flagged and the second is not (a verification flags row by row), every loop takes the second for downloaded and the run returns with it missing (`db/lishs-chunks.ts:11`). |
| `RecoveryPauses` | `chunks_recovery` | The pause is one flag for two reasons. A retried write that succeeds ends the pause of a recovery another loop has begun (`chunk-downloader.ts:503`). |
| `HaveIsOnDisk` | `chunks_recovery`, or with two files | A destroy, or a refused allocation of the second file, between the zero-fill of a lost file and its verification leaves the old flags over zeroes (`chunk-downloader.ts:398`). |
| `OneLoopPerPeer` (PeerManager) | 1 peer, 2 dialers, a limit of 0 (none), 3 streams | `chunk-downloader.ts:168-169` says `isActive` protects against a second loop while the first is ending. `removeAwait` has already removed the mark (`peer-manager.ts:156`). |
| `OnePlace` | the same | "A peerID is in at most one of `peers` / `dropped` / `banned`" (`peer-manager.ts:30`). `tryAdd` looks at `peers` only: a dial that began before the drop adds a dropped or banned peer. |
| `RunAwaitsLoops` | the same | "Wait until all peer loops (including dynamically spawned ones) settle" (`chunk-downloader.ts:553`). Promises are deleted by peer, so the promise of a second loop may go with the first. |
| `FinishedHoldsNobody` | the same | A dial still in flight when the download completes adds its peer; a completed downloader is dropped without a destroy (`downloader.ts:482`), so nothing on our side closes that stream. |
| `ErrorIsThrown` (Downloader) | `Downloader.cfg` | The main loop "returns only when fully downloaded (or throws on error)"; an error that is set apart from the loop (a refused access check, chunks too large for us) leaves the caller waiting. |
| `PreparingIsWorkedOn` | the same | A discovery probe that imports the manifest and then cannot dial its peer leaves the download to be prepared, with nobody at it before the next announcement or cycle. |
| `PreparedIsNew` | the same | The allocation of a resumed download makes missing files anew under chunk flags that stay set (`downloader.ts:597`). |
| `ResetIsRead` | 2 files, `MaxDeletes = 2` | The refill of several lost files resets their flags file by file and reads what is missing afterwards (`downloader.ts:622`). An error that cuts it short and an enable take the download to the next phase with the old, empty list: it ends as finished with flags missing. `EndsAreWhole` is stated up to such a reset (`unread`). |
| `OverHoldsNoHandler` | the same as before | A download that failed or is complete still listens to announcements. |
| `AtMostOneRuns` (Transfer) | `Transfer.cfg` with `MaxEvents = 4` | "Atomically install one downloader per LISH" (`transfer.ts:140`). Two enables of a download overlap; the first fails and takes it off the registry, a third call installs a new one, and the second then revives the old. |
| `RunsOnJoinedOnly` | `Transfer.cfg` | An enable looked up the lishnets before the access check; one of them is left during it, and the download starts on it (`transfer.ts:599`). |
| `RunningIsEnabled` | the same | An enable waits for the access check while the LISH is disabled, and starts all the same. |
| `EnabledIsPersisted` | the same | An enable is inside the removal of its LISH: the row goes, the set in memory keeps it. |
| `DeletionDropsItsOwn` | the same | A deletion of the data alone destroys the download it finds and, after that await, takes off whatever is registered (`transfer.ts:122-127`), while the LISH stays stored and enabled. An enable that was past its look at the mark "deleting", or a stop of the verification that lifts the mark meanwhile, has put another download there; it runs on, and nobody can reach it. |
| `MoveLosesNothing` (LishStore) | `MCStore.cfg` | Neither the handler (`lishs.ts:622-645`) nor the page that fills in the LISH's present directory (`DownloadDetailMove.svelte:25`) looks where a move goes. To its own directory, the files are copied over themselves and then removed; over files of the LISH, they are overwritten before the copy fails. A running download is not stopped: "While busy, upload and download MUST be blocked" (`api/busy.ts`) is looked at when one begins, and what it writes behind the copy goes with the old files. `NothingIsLost` is stated up to these (`crossed`). |
| `FlagIsOnDisk` (LishStore) | `MCStore.cfg` | A deletion of the data resets the flags while a verification of the LISH is about to set one. |
| `AnnouncedIsFound` (ChunkTable) | the same | A peer is told of a checksum by its second row; a request looks at the first only. |
| `CapHeld` (UploadServer) | `MCNetwork.cfg` | The cap is looked at before the chunk is read and the stream counted after it. |
| `ServedIsListed` | the same | The first stream of a peer to end takes the peer off the list, although another still serves it. |
| `LeftIsTakenBack` (PeerUpkeep) | the same | A dial of the node's own that was under way when its lishnet was left brings the peer back, and nobody disconnects it. |
| `UploadHasTimer` (DownloadsView) | `MCClient.cfg` | A load shows an upload the backend has (`downloads.ts:235-247`) without a timer and without noting it as heard; if it ends before the events are subscribed to, the row shows it until the next event of an upload or the next load. `UploadIsHeard` is stated up to it (`restored`). |
| `SelectionIsAnItem` (NavArea) | the same | The position of an item is asked of its component (`navArea.svelte.ts:31-41`), the selection is kept by position (`navArea.svelte.ts:325`) and set by pages unchecked (`navArea.svelte.ts:345`). When an earlier row goes, a selection on the last row is on no item. `SelectionIsThere` says what is left: an arrow leads back. |

A second loop also explains the exception in `DestroyLeavesNobody`: a loop that
no run waits for may still be closing a stream when destroy returns.

**Seen while modelling, and modelled as the code has them.** No comment contradicts
these; the actions contain them and the properties are worded around them.

- *Downloads*: `ErrorRecovery.stop` never resets the count of attempts; an
  enable of the download that throws leaves a pending lifecycle, for which a
  factory reset waits.
- *LISH store*: `stopVerify` clears the busy mark of a move; a verification asked for while the stopped run of the
  same LISH is still current is dropped; an overwriting import whose `mkdir` fails
  has lost the old row; two
  `stopVerifyAll` share one boolean; `stopCreate` stops the last creation only; an
  error of one hashing worker leaves the others running.
- *Settings*: a restart between a save and the repair behind it leaves an unusable pair in
  the file (`cut`), until the next write of a limit repairs it. Meanwhile
  `getMaxMessageSize` lifts the limit (`lish-protocol.ts:28`); the comment at
  `api/settings.ts:59` says that `applyNetworkLimits()` does, which sets the speeds only.
  What somebody else writes reaches a client with its next load.
- *Volume*: the watcher tells only what differs from what it remembers, so that a client
  which read a level between two changes that cancel out, or before the start adopted
  another one silently, keeps showing it (`stray`). A level held back survives a quick
  reconnect and may overwrite a newer reading, and two readings of an old and a new
  connection may cross; the model has the reconnect after the guard and one reading at a
  time. A failed write leaves the saved level ahead of the mixer.
- *Network*: the cooldown of a search is set after the dial it is to prevent.
- *List of downloads*: a row stays "allocating", "retrying" or "verifying"
  when it is disabled during it; the stale timer forgets `activeDownloads`; events
  between the list and the subscription are lost; an overwriting import resets
  the flags shown; a refused verification or move leaves its status behind;
  `disabledDownloads` (`downloads.ts:168-169`) is written and never read.
- *Connection*: a failing status check after reconnecting was stopped turns
  "auth required" into "disconnected"; a check in flight with an old token stops
  the new connection; the `onclose` of another socket drops a connect promise with
  callers waiting on it; two open sockets deliver events twice.
- *Network status*: a subscription sends counts without noting them as the
  last, so that a change back before the next check is not sent; two
  overlapping subscriptions register two listeners; a bootstrap watcher that
  returns while its unsubscription is awaited ends without one; a reconnect with
  no enabled lishnet leaves old counts.
- *File browser*: a confirmation whose dialog was cancelled meanwhile still
  finishes (a second breadcrumb goes, areas appear behind an open dialog);
  "delete directory" deletes the path of the moment it is confirmed; after unmount
  a late answer registers areas nobody owns.
- *Download page*: a removal is not noticed after a failed deletion; the
  keyboard is dead when the row disappears under a sub page; a deletion that ends on
  a page already left goes back twice.
- *Search page*: a `complete` before the answer to `startSearch` is dropped and the
  search never ends; overlapping starts mix their rows; events are not subscribed
  to again after a reconnect.
- *Input and navigation*: a key released while the window is inactive keeps
  repeating; a press in one area released after another took over confirms there;
  a menu rebuilt under an embedded page drops its breadcrumb; a late import goes
  back wherever the user is by then.

## What is not modelled

`PROJECT.json` lists every part with its status. Outside the models on purpose:

- the set-up of libp2p, identity and key files, the datastore (apart from the
  failures of its stop), logging, monitoring, the platform's tools for the mixer:
  I/O and platform calls;
- codecs, multiaddr utilities, address filters, gossipsub patches, shared types:
  pure functions over strings and bytes;
- schema upgrades and the statistics of bytes in the database;
- the API shell: handlers that pass calls on;
- pages and widgets of the frontend that show stores and pass calls on, with
  sounds, texts and preferences; the command line, the wrapper and the containers.

Left out of modelled components: export, the reading of backups and the values of the
other settings; progress and byte accounting; the download of a LISH
from a file by `transfer.download`, which is an enable without its checks; the answers to
WANT and the list of nodes in `network.ts`; export and listing of LISHs, which only
read; scrolling and the keyboard order between areas (`areaNavigate`); sizes, peers
and notifications in the list of downloads; the name of the current file of a peer
(`peer-tracker.ts:301`), which depends on the order handlers end in; a reading of the mixer at
the start that takes longer than the 5 s to the first poll and overtakes it; a failing removal of
a single file of a LISH. A row with several items moves the others with the last of its items to go. A crash is a step of no model but
`Settings` (between two saves): what survives one are rows and files, and the start that
reads them is the ordinary one.

## Plan

1. Theorems: `NothingIsLost` and the part of `ManifestHolds` that needs no folds.
2. **Membership**, an abstract specification (each lishnet is joined or not, a
   write sets a goal, a step moves towards it) that Lishnets implements.
3. `ChunkDownloader` as an implementation of the run that `Downloader` takes in
   one step.
4. The answers to WANT beside `Search`; `areaNavigate` beside `Areas`.
