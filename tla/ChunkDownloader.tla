-------------------------- MODULE ChunkDownloader --------------------------
(***************************************************************************)
(* One run of the chunk transfer engine (chunk-downloader.ts over the      *)
(* chunk flags of db/lishs-chunks.ts and the files of file-allocator.ts).  *)
(*                                                                         *)
(* Every connected peer has a loop that takes a slot of the shared queue,  *)
(* asks its peer for the content, writes it to every slot with the same    *)
(* checksum and flags them all.  Whatever fails goes back to the queue.  A *)
(* loop without work waits for the slots others have checked out.  A file  *)
(* that vanished is allocated again (zero-filled) and everything is        *)
(* verified, by one loop, while the writers are paused.                    *)
(*                                                                         *)
(* Slots and files are numbered in manifest order.  The queue is a bag: a  *)
(* loop may take any slot it could serve.  Checksums tell contents apart; a *)
(* slot of disk holds its content or it does not.  Peers are honest about  *)
(* what they hold, or send garbage; a client that was aborted by a disable *)
(* may still answer.  A file cut off in the middle of its allocation is    *)
(* taken for missing.                                                      *)
(***************************************************************************)
EXTENDS Naturals, FiniteSets

CONSTANTS Peer,
          Slot,          \* chunks of the manifest in row order, a subset of Nat
          SumOf,         \* the checksum of each slot
          FileOf,        \* the file each slot belongs to
          Answers,       \* how requests may end: "data", "garbage", "absent", "busy", "dead"
          Faults,        \* "full" (a write refused), "alloc" (an allocation refused), "other"
          Stops,         \* how the run may be interrupted: "disabled", "destroyed"
          MaxSkips,      \* consecutive skips before a peer is dropped
          MaxCorrupt,    \* MAX_CORRUPT_CHUNKS
          MaxRealloc,    \* MAX_FILE_REALLOC
          MaxRetries,    \* MAX_WRITE_RETRIES
          MaxDeletions,  \* bound: how often the user deletes a file
          MaxGains,      \* bound: how many chunks the peers get hold of during the run
          MaxEnables,    \* bound: how often a disabled download is enabled again
          NoPeer, NoSlot

ASSUME SlotAssumption == /\ Slot \subseteq Nat /\ NoSlot \notin Slot
                         /\ DOMAIN SumOf = Slot /\ DOMAIN FileOf = Slot
                         /\ \A s \in Slot : FileOf[s] \in Nat
ASSUME PeerAssumption == IsFiniteSet(Peer) /\ NoPeer \notin Peer
ASSUME LimitAssumption ==
  /\ MaxSkips \in Nat \ {0} /\ MaxCorrupt \in Nat \ {0}
  /\ MaxRealloc \in Nat /\ MaxRetries \in Nat /\ MaxDeletions \in Nat /\ MaxEnables \in Nat /\ MaxGains \in Nat
  /\ Answers \cap {"absent", "dead"} # {} /\ Stops \subseteq {"disabled", "destroyed"}

Sums == {SumOf[s] : s \in Slot}
File == {FileOf[s] : s \in Slot}
SlotsOf(f) == {s \in Slot : FileOf[s] = f}
First(S) == CHOOSE x \in S : \A y \in S : x <= y
Same(s) == {t \in Slot : SumOf[t] = SumOf[s]}

VARIABLES have,          \* slots flagged as downloaded in the database
          present, good, \* files on disk with the right size; slots that hold their content
          queue,         \* how many entries of each slot are waiting
          pc, held, writes, \* per loop: where it is, its slot, the slots it has still to write
          notFound,      \* per loop: checksums its peer does not have
          woken,         \* per loop: something was requeued since it looked
          news,          \* peerHaveUpdates: a HAVE the loop has not seen
          holds,         \* external: what the peers have
          skips, corrupt, \* consecutive busy answers, bad chunks of a peer
          stop,          \* "no", or the owner is disabled or destroyed
          paused,        \* PauseController: writes are paused
          recovering, todo, \* the loop that restores the files, and what it has left to do
          attempts, retries, \* fileReallocAttempts, writeRetryCount
          deletions, enables, gains \* bounds

storeVars == <<have, present, good>>
peerVars == <<notFound, skips, corrupt>>
worldVars == <<holds, deletions, enables, gains>>
pauseVars == <<paused, recovering, todo, attempts, retries>>
vars == <<storeVars, queue, pc, held, writes, peerVars, woken, news, worldVars, stop, pauseVars>>

-----------------------------------------------------------------------------

Idle == {"never", "gone"}
\* Inside the try block of a loop: the slot it took is counted as in flight.
Claiming == {"fetch", "denied", "write", "rewrite", "waiting", "cooling", "sleep", "alloc", "verify", "dropping", "banning"}
InFlight == {p \in Peer : pc[p] \in Claiming}

\* isChunkDownloaded looks at the first row with the checksum, by checksum
\* and not by slot.
Downloaded(s) == First(Same(s)) \in have

\* Mutant: the offset that was asked for and no other.
OwnOffset(s) == {s}

\* The offsets a content is written to.
Targets(s) == Same(s)

TypeOK ==
  /\ have \subseteq Slot /\ present \subseteq File /\ good \subseteq Slot
  /\ queue \in [Slot -> Nat]
  /\ pc \in [Peer -> Idle \cup Claiming \cup {"top", "parked", "idle", "leaving"}]
  /\ held \in [Peer -> Slot \cup {NoSlot}]
  /\ writes \in [Peer -> SUBSET Slot]
  /\ notFound \in [Peer -> SUBSET Sums]
  /\ woken \in [Peer -> BOOLEAN]
  /\ news \in [Peer -> [fresh : BOOLEAN, chunks : SUBSET Sums]]
  /\ holds \in [Peer -> SUBSET Sums]
  /\ skips \in [Peer -> 0..MaxSkips] /\ corrupt \in [Peer -> 0..MaxCorrupt]
  /\ stop \in {"no", "disabled", "destroyed"}
  /\ paused \in BOOLEAN
  /\ recovering \in Peer \cup {NoPeer}
  /\ todo \in [files : SUBSET File, slots : SUBSET Slot]
  /\ attempts \in 0..(MaxRealloc + Cardinality(Peer))
  /\ retries \in 0..(MaxRetries + Cardinality(Peer))
  /\ deletions \in 0..MaxDeletions /\ enables \in 0..MaxEnables /\ gains \in 0..MaxGains

\* A fresh download, its files allocated, with some of the peers connected.
Init ==
  /\ have = {} /\ good = {} /\ present = File
  /\ queue = [s \in Slot |-> 1]
  /\ pc \in [Peer -> {"never", "top"}] /\ \E p \in Peer : pc[p] = "top"
  /\ held = [p \in Peer |-> NoSlot] /\ writes = [p \in Peer |-> {}]
  /\ notFound = [p \in Peer |-> {}]
  /\ woken = [p \in Peer |-> FALSE]
  /\ news = [p \in Peer |-> [fresh |-> FALSE, chunks |-> {}]]
  /\ holds \in [Peer -> SUBSET Sums]
  /\ skips = [p \in Peer |-> 0] /\ corrupt = [p \in Peer |-> 0]
  /\ stop = "no" /\ paused = FALSE
  /\ recovering = NoPeer /\ todo = [files |-> {}, slots |-> {}]
  /\ attempts = 0 /\ retries = 0 /\ deletions = 0 /\ enables = 0 /\ gains = 0

Go(p, where) == pc' = [pc EXCEPT ![p] = where]

\* Give the slot back and go on from where.
Requeue(p, where) ==
  /\ queue' = [queue EXCEPT ![held[p]] = @ + 1]
  /\ woken' = [q \in Peer |-> TRUE]
  /\ held' = [held EXCEPT ![p] = NoSlot] /\ writes' = [writes EXCEPT ![p] = {}]
  /\ Go(p, where)

\* Leave the loop with whatever the slot's fate is.
Break(p) ==
  /\ held' = [held EXCEPT ![p] = NoSlot] /\ writes' = [writes EXCEPT ![p] = {}]
  /\ Go(p, "gone")
  /\ UNCHANGED <<queue, woken>>

\* setError: the owner is disabled, and this loop gives up its slot.
Fail(p) ==
  /\ stop' = IF stop = "no" THEN "disabled" ELSE stop
  /\ Break(p)

-----------------------------------------------------------------------------
(* Looking for work *)

\* A peer joins while the run is alive.
Join(p) ==
  /\ pc[p] = "never" /\ stop = "no"
  /\ \E q \in Peer : pc[q] \notin Idle
  /\ Go(p, "top")
  /\ UNCHANGED <<storeVars, queue, held, writes, peerVars, woken, news, worldVars, stop, pauseVars>>

\* The head of the loop: out when the owner was stopped, parked when paused.
Turn(p) ==
  /\ pc[p] = "top" /\ (stop # "no" \/ paused)
  /\ Go(p, IF stop # "no" THEN "gone" ELSE "parked")
  /\ UNCHANGED <<storeVars, queue, held, writes, peerVars, woken, news, worldVars, stop, pauseVars>>

\* The loop looks at the queue; a waiter released by a stop looks once more.
Looking(p) == \/ pc[p] = "top" /\ stop = "no" /\ ~paused
              \/ pc[p] = "parked" /\ (stop # "no" \/ ~paused)

\* Mutant: a HAVE is noted and the misses are kept.
KnownMissesKept(p) == notFound[p]

\* applyHaveUpdate
KnownMisses(p) == IF news[p].fresh THEN notFound[p] \ news[p].chunks ELSE notFound[p]

Servable(p) == {s \in Slot : queue[s] > 0 /\ ~Downloaded(s) /\ SumOf[s] \notin KnownMisses(p)}

Look(p) ==
  /\ notFound' = [notFound EXCEPT ![p] = KnownMisses(p)]
  /\ news' = [news EXCEPT ![p].fresh = FALSE]
  /\ woken' = [woken EXCEPT ![p] = FALSE]

Take(p) == \E s \in Servable(p) :
  /\ Looking(p) /\ Look(p)
  /\ queue' = [queue EXCEPT ![s] = @ - 1]
  /\ held' = [held EXCEPT ![p] = s]
  /\ Go(p, "fetch")
  /\ UNCHANGED <<storeVars, writes, skips, corrupt, worldVars, stop, pauseVars>>

\* Mutant: a loop without work goes home although others have slots in hand.
NothingAtOnce(p) ==
  /\ Looking(p) /\ Servable(p) = {} /\ Look(p)
  /\ queue' = [s \in Slot |-> IF Downloaded(s) THEN 0 ELSE queue[s]]
  /\ Go(p, IF \E s \in Slot : queue'[s] > 0 THEN "leaving" ELSE "gone")
  /\ UNCHANGED <<storeVars, held, writes, skips, corrupt, worldVars, stop, pauseVars>>

\* Nothing this peer could serve: wait while others have slots checked out,
\* otherwise the peer is dropped if there are slots it does not have, and the
\* loop ends.
Nothing(p) ==
  /\ Looking(p) /\ Servable(p) = {} /\ Look(p)
  /\ queue' = [s \in Slot |-> IF Downloaded(s) THEN 0 ELSE queue[s]]
  /\ Go(p, IF InFlight # {} THEN "idle"
           ELSE IF \E s \in Slot : queue'[s] > 0 THEN "leaving" ELSE "gone")
  /\ UNCHANGED <<storeVars, held, writes, skips, corrupt, worldVars, stop, pauseVars>>

\* The 150 ms poll.
Poll(p) ==
  /\ pc[p] = "idle"
  /\ InFlight = {} \/ woken[p] \/ news[p].fresh \/ stop # "no"
  /\ Go(p, "top")
  /\ UNCHANGED <<storeVars, queue, held, writes, peerVars, woken, news, worldVars, stop, pauseVars>>

\* The client of a dropped or banned peer is closed.
Close(p) ==
  /\ pc[p] \in {"leaving", "banning"}
  /\ Go(p, "gone")
  /\ UNCHANGED <<storeVars, queue, held, writes, peerVars, woken, news, worldVars, stop, pauseVars>>

-----------------------------------------------------------------------------
(* A request and its answer *)

\* What comes of a request once the owner is stopped: nothing at all after a
\* destroy, and a dead stream after a disable unless it was quicker.
Asked(p, answer) == /\ pc[p] = "fetch" /\ stop # "destroyed"
                    /\ answer \in Answers \/ (answer = "dead" /\ stop = "disabled")

Cut(p) ==
  /\ pc[p] \in {"fetch", "denied"} /\ stop = "destroyed"
  /\ Break(p)
  /\ UNCHANGED <<storeVars, peerVars, news, worldVars, stop, pauseVars>>

\* drop-peer: the peer goes first, its slot is requeued once it is closed.
Dead(p) ==
  /\ Asked(p, "dead")
  /\ Go(p, "dropping")
  /\ UNCHANGED <<storeVars, queue, held, writes, peerVars, woken, news, worldVars, stop, pauseVars>>

\* Mutant: the slot goes down with its peer.
DroppedWithSlot(p) ==
  /\ pc[p] = "dropping"
  /\ Break(p)
  /\ UNCHANGED <<storeVars, peerVars, news, worldVars, stop, pauseVars>>

Dropped(p) ==
  /\ pc[p] = "dropping"
  /\ Requeue(p, "gone")
  /\ UNCHANGED <<storeVars, peerVars, news, worldVars, stop, pauseVars>>

Onward == IF stop = "no" THEN "top" ELSE "gone"

\* The peer answers that it does not have the chunk ...
Deny(p) ==
  /\ Asked(p, "absent") /\ SumOf[held[p]] \notin holds[p]
  /\ Go(p, "denied")
  /\ UNCHANGED <<storeVars, queue, held, writes, peerVars, woken, news, worldVars, stop, pauseVars>>

\* ... and the loop hears of it, maybe after a HAVE that came later.
Absent(p) ==
  /\ pc[p] = "denied" /\ stop # "destroyed"
  /\ notFound' = [notFound EXCEPT ![p] = @ \cup {SumOf[held[p]]}]
  /\ skips' = [skips EXCEPT ![p] = 0]
  /\ Requeue(p, Onward)
  /\ UNCHANGED <<storeVars, corrupt, news, worldVars, stop, pauseVars>>

Busy(p) ==
  /\ Asked(p, "busy")
  /\ skips' = [skips EXCEPT ![p] = @ + 1]
  /\ Requeue(p, IF stop = "no" /\ skips'[p] >= MaxSkips THEN "banning" ELSE Onward)
  /\ UNCHANGED <<storeVars, notFound, corrupt, news, worldVars, stop, pauseVars>>

\* Mutant: nobody counts.
GarbageForever(p) ==
  /\ Asked(p, "garbage")
  /\ corrupt' = [corrupt EXCEPT ![p] = @ + 1]
  /\ Requeue(p, "top")
  /\ UNCHANGED <<storeVars, notFound, skips, news, worldVars, stop, pauseVars>>

Garbage(p) ==
  /\ Asked(p, "garbage")
  /\ corrupt' = [corrupt EXCEPT ![p] = @ + 1]
  /\ Requeue(p, IF corrupt'[p] >= MaxCorrupt THEN "banning" ELSE "top")
  /\ UNCHANGED <<storeVars, notFound, skips, news, worldVars, stop, pauseVars>>

Data(p) ==
  /\ Asked(p, "data") /\ SumOf[held[p]] \in holds[p]
  /\ skips' = [skips EXCEPT ![p] = 0]
  /\ writes' = [writes EXCEPT ![p] = Targets(held[p])]
  /\ Go(p, "write")
  /\ UNCHANGED <<storeVars, queue, held, notFound, corrupt, woken, news, worldVars, stop, pauseVars>>

Request(p) == Cut(p) \/ Dead(p) \/ Dropped(p) \/ Deny(p) \/ Absent(p) \/ Busy(p) \/ Garbage(p) \/ Data(p)

-----------------------------------------------------------------------------
(* Writing *)

Writing(p) == pc[p] \in {"write", "rewrite"}

\* The loops that wait for the pause to end are let go.
Resume(p) == paused' = IF pc[p] = "rewrite" THEN FALSE ELSE paused

\* One more slot of this content is on disk; with the last one all of them
\* are flagged, unless the download is gone.
Write(p) == LET t == First(writes[p]) IN
  /\ Writing(p) /\ FileOf[t] \in present
  /\ good' = good \cup {t}
  /\ IF writes[p] # {t}
       THEN /\ writes' = [writes EXCEPT ![p] = @ \ {t}]
            /\ UNCHANGED <<have, pc, held, retries, paused>>
       ELSE /\ have' = IF stop = "destroyed" THEN have ELSE have \cup Same(held[p])
            /\ retries' = 0 /\ Resume(p)
            /\ held' = [held EXCEPT ![p] = NoSlot] /\ writes' = [writes EXCEPT ![p] = {}]
            /\ Go(p, IF stop = "destroyed" THEN "gone" ELSE "top")
  /\ UNCHANGED <<present, queue, peerVars, woken, news, worldVars, stop, recovering, todo, attempts>>

\* A write that throws after a destroy ends the loop.
WriteCut(p) ==
  /\ Writing(p) /\ stop = "destroyed"
  /\ Break(p) /\ Resume(p)
  /\ UNCHANGED <<storeVars, peerVars, news, worldVars, stop, recovering, todo, attempts, retries>>

\* ENOENT: one loop restores the files, the others wait for it.
FileGone(p) ==
  /\ pc[p] = "write" /\ stop # "destroyed"
  /\ FileOf[First(writes[p])] \notin present
  /\ IF recovering # NoPeer
       THEN /\ Go(p, "waiting")
            /\ UNCHANGED <<queue, held, writes, woken, stop, attempts, recovering, paused>>
       ELSE /\ attempts' = attempts + 1
            /\ IF attempts >= MaxRealloc
                 THEN Fail(p) /\ UNCHANGED <<recovering, paused>>
                 ELSE /\ recovering' = p /\ paused' = TRUE
                      /\ Go(p, "sleep")
                      /\ UNCHANGED <<queue, held, writes, woken, stop>>
  /\ UNCHANGED <<storeVars, peerVars, news, worldVars, todo, retries>>

\* Mutant: it is tried for ever.
WriteRefusedForever(p) ==
  /\ "full" \in Faults /\ pc[p] = "write" /\ stop # "destroyed" /\ ~paused
  /\ retries' = retries + 1 /\ paused' = TRUE
  /\ Go(p, "cooling")
  /\ UNCHANGED <<storeVars, queue, held, writes, peerVars, woken, news, worldVars, stop, recovering, todo, attempts>>

\* Disk full or access denied: one loop sits it out with its data in hand.
WriteRefused(p) ==
  /\ "full" \in Faults /\ pc[p] = "write" /\ stop # "destroyed"
  /\ IF paused
       THEN /\ Go(p, "waiting")
            /\ UNCHANGED <<queue, held, writes, woken, stop, retries, paused>>
       ELSE /\ retries' = retries + 1
            /\ IF retries >= MaxRetries
                 THEN Fail(p) /\ UNCHANGED paused
                 ELSE /\ paused' = TRUE
                      /\ Go(p, "cooling")
                      /\ UNCHANGED <<queue, held, writes, woken, stop>>
  /\ UNCHANGED <<storeVars, peerVars, news, worldVars, recovering, todo, attempts>>

\* Any other error of a write is fatal.
WriteFails(p) ==
  /\ "other" \in Faults /\ pc[p] = "write" /\ stop # "destroyed"
  /\ Fail(p)
  /\ UNCHANGED <<storeVars, peerVars, news, worldVars, pauseVars>>

\* The others requeue their slots when the pause is over.
Waited(p) ==
  /\ pc[p] = "waiting" /\ (~paused \/ stop # "no")
  /\ Requeue(p, "top")
  /\ UNCHANGED <<storeVars, peerVars, news, worldVars, stop, pauseVars>>

\* The minute is over: the same content is written again.
Cooled(p) ==
  /\ pc[p] = "cooling"
  /\ IF stop # "no"
       THEN Break(p) /\ paused' = FALSE
       ELSE /\ writes' = [writes EXCEPT ![p] = Targets(held[p])]
            /\ Go(p, "rewrite")
            /\ UNCHANGED <<queue, held, woken, paused>>
  /\ UNCHANGED <<storeVars, peerVars, news, worldVars, stop, recovering, todo, attempts, retries>>

\* It failed again, whatever the reason.
RewriteFails(p) ==
  /\ pc[p] = "rewrite" /\ stop # "destroyed"
  /\ {"full", "other"} \cap Faults # {} \/ FileOf[First(writes[p])] \notin present
  /\ paused' = FALSE
  /\ Requeue(p, "top")
  /\ UNCHANGED <<storeVars, peerVars, news, worldVars, stop, recovering, todo, attempts, retries>>

Writes(p) == \/ Write(p) \/ WriteCut(p) \/ FileGone(p) \/ WriteRefused(p) \/ WriteFails(p)
             \/ Waited(p) \/ Cooled(p) \/ RewriteFails(p)

-----------------------------------------------------------------------------
(* Restoring the files *)

\* The finally block of the recovery.
Recovered == recovering' = NoPeer /\ paused' = FALSE

\* Ten seconds later: which files are missing?
Slept(p) ==
  /\ pc[p] = "sleep"
  /\ IF stop # "no"
       THEN Break(p) /\ Recovered /\ UNCHANGED todo
       ELSE /\ todo' = [files |-> File \ present, slots |-> Slot]
            /\ Go(p, "alloc")
            /\ UNCHANGED <<queue, held, writes, woken, recovering, paused>>
  /\ UNCHANGED <<storeVars, peerVars, news, worldVars, stop, attempts, retries>>

\* A missing file is created full of zeroes, or the list is through.
Allocate(p) ==
  /\ pc[p] = "alloc" /\ stop # "destroyed"
  /\ \/ LET f == First(todo.files) IN
          /\ todo.files # {}
          /\ present' = present \cup {f}
          /\ good' = IF f \in present THEN good ELSE good \ SlotsOf(f)
          /\ todo' = [todo EXCEPT !.files = @ \ {f}]
          /\ UNCHANGED pc
     \/ todo.files = {} /\ Go(p, "verify") /\ UNCHANGED <<present, good, todo>>
  /\ UNCHANGED <<have, queue, held, writes, peerVars, woken, news, worldVars, stop, paused, recovering, attempts, retries>>

AllocationFails(p) ==
  /\ "alloc" \in Faults /\ pc[p] = "alloc" /\ todo.files # {} /\ stop # "destroyed"
  /\ Fail(p) /\ Recovered
  /\ UNCHANGED <<storeVars, peerVars, news, worldVars, todo, attempts, retries>>

\* Mutant: the good are confirmed and the bad are left alone.
VerifyGoodOnly(p) == LET t == First(todo.slots) IN
  /\ pc[p] = "verify" /\ todo.slots # {} /\ stop # "destroyed"
  /\ have' = IF t \in good /\ FileOf[t] \in present THEN have \cup {t} ELSE have
  /\ todo' = [todo EXCEPT !.slots = @ \ {t}]
  /\ UNCHANGED <<present, good, queue, pc, held, writes, peerVars, woken, news, worldVars, stop,
                 paused, recovering, attempts, retries>>

\* runVerification flags a slot by what its file holds.
Verify(p) == LET t == First(todo.slots) IN
  /\ pc[p] = "verify" /\ todo.slots # {} /\ stop # "destroyed"
  /\ have' = IF t \in good /\ FileOf[t] \in present THEN have \cup {t} ELSE have \ {t}
  /\ todo' = [todo EXCEPT !.slots = @ \ {t}]
  /\ UNCHANGED <<present, good, queue, pc, held, writes, peerVars, woken, news, worldVars, stop,
                 paused, recovering, attempts, retries>>

\* Mutant: the slot that failed is all that is missing.
RebuildOwn(p) ==
  /\ pc[p] = "verify" /\ todo.slots = {} /\ stop # "destroyed"
  /\ Requeue(p, "top") /\ Recovered
  /\ UNCHANGED <<storeVars, peerVars, news, worldVars, stop, todo, attempts, retries>>

\* The queue is what is missing now, slots in the hands of others included.
Rebuild(p) ==
  /\ pc[p] = "verify" /\ todo.slots = {} /\ stop # "destroyed"
  /\ queue' = [s \in Slot |-> IF s \in have THEN 0 ELSE 1]
  /\ woken' = [q \in Peer |-> TRUE]
  /\ held' = [held EXCEPT ![p] = NoSlot] /\ writes' = [writes EXCEPT ![p] = {}]
  /\ Go(p, "top") /\ Recovered
  /\ UNCHANGED <<storeVars, peerVars, news, worldVars, stop, todo, attempts, retries>>

\* A destroy cuts the recovery off where it stands.
RecoveryCut(p) ==
  /\ pc[p] \in {"alloc", "verify"} /\ stop = "destroyed"
  /\ Break(p) /\ Recovered
  /\ UNCHANGED <<storeVars, peerVars, news, worldVars, stop, todo, attempts, retries>>

Recovery(p) == \/ Slept(p) \/ Allocate(p) \/ AllocationFails(p) \/ Verify(p) \/ Rebuild(p) \/ RecoveryCut(p)

-----------------------------------------------------------------------------
(* The owner, the peers and the user *)

Stop(how) ==
  /\ how \in Stops /\ stop # "destroyed" /\ stop # how
  /\ stop' = how
  /\ UNCHANGED <<storeVars, queue, pc, held, writes, peerVars, woken, news, worldVars, pauseVars>>

\* The user resumes a disabled download while its loops are winding down.
Enable ==
  /\ stop = "disabled" /\ enables < MaxEnables
  /\ stop' = "no" /\ enables' = enables + 1
  /\ attempts' = 0 /\ retries' = 0
  /\ UNCHANGED <<storeVars, queue, pc, held, writes, peerVars, woken, news, holds, deletions, gains,
                 paused, recovering, todo>>

\* A peer gets hold of another chunk ...
Gain(p) == \E c \in Sums \ holds[p] :
  /\ gains < MaxGains /\ gains' = gains + 1
  /\ holds' = [holds EXCEPT ![p] = @ \cup {c}]
  /\ UNCHANGED <<storeVars, queue, pc, held, writes, peerVars, woken, news, deletions, enables, stop, pauseVars>>

\* ... and announces what it has: notifyPeerHave.
Have(p) ==
  /\ pc[p] \notin Idle /\ stop = "no"
  /\ news[p].chunks # holds[p]
  /\ news' = [news EXCEPT ![p] = [fresh |-> TRUE, chunks |-> holds[p]]]
  /\ UNCHANGED <<storeVars, queue, pc, held, writes, peerVars, woken, worldVars, stop, pauseVars>>

Delete(f) ==
  /\ deletions < MaxDeletions /\ f \in present
  /\ present' = present \ {f} /\ good' = good \ SlotsOf(f)
  /\ deletions' = deletions + 1
  /\ UNCHANGED <<have, queue, pc, held, writes, peerVars, woken, news, holds, enables, gains, stop, pauseVars>>

Loop(p) == \/ Turn(p) \/ Take(p) \/ Nothing(p) \/ Poll(p) \/ Close(p)
           \/ Request(p) \/ Writes(p) \/ Recovery(p)

\* The run is over: every loop has settled.
Done == /\ \A p \in Peer : pc[p] \in Idle
        /\ UNCHANGED vars

Next == \/ \E p \in Peer : Loop(p) \/ Join(p) \/ Gain(p) \/ Have(p)
        \/ \E how \in Stops : Stop(how)
        \/ \E f \in File : Delete(f)
        \/ Enable
        \/ Done

Spec == Init /\ [][Next]_vars

-----------------------------------------------------------------------------
(* Properties *)

\* While the run is on, a slot that is not downloaded is waiting in the queue,
\* or its content is in somebody's hands, or the queue is about to be rebuilt.
\* (A loop that fails disables the download and takes its slot with it: after
\* an enable the slot waits for the next run.)
NoChunkLost ==
  (stop = "no" /\ enables = 0 /\ recovering = NoPeer /\ \E p \in Peer : pc[p] \notin Idle) =>
    \A s \in Slot \ have : queue[s] > 0 \/ \E p \in Peer : held[p] \in Same(s)

\* Outside a recovery, a slot flagged as downloaded holds its content, unless
\* the user has just taken its file away.
HaveIsOnDisk ==
  recovering = NoPeer => \A s \in have : FileOf[s] \in present => s \in good

\* A loop goes home for want of work only when nothing is missing but what
\* its peer has said it does not have.
LeavesForAReason ==
  [][\A p \in Peer :
       (Looking(p) /\ stop = "no" /\ enables = 0 /\ pc'[p] \in {"gone", "leaving"}) =>
         \A s \in Slot \ have : SumOf[s] \in notFound'[p]]_vars

\* A peer is never dropped for having none of the remaining chunks when its
\* last HAVE names one of them, however late its answers come.
HaveIsHeard ==
  [][\A p \in Peer :
       pc[p] # "leaving" /\ pc'[p] = "leaving" =>
         \A s \in Slot : queue'[s] > 0 => SumOf[s] \notin news[p].chunks]_vars

\* Whatever fails: a missing chunk is in the queue or in somebody's hands, and
\* a flagged one is on the disk (chunk-downloader.ts, the queue and the writes).
ChunksHold == TypeOK /\ NoChunkLost /\ HaveIsOnDisk

\* The same while files are deleted and restored.  A destroy may cut a recovery
\* off between the zero-fill and the verification (README, Divergences), so
\* that after one only the chunks are accounted for (chunk-downloader.ts,
\* the recovery in peerLoop).
RecoveryHolds == TypeOK /\ NoChunkLost /\ (stop # "destroyed" => HaveIsOnDisk)

\* A loop leaves its peer only when the peer has nothing it could still give,
\* by its last answers and its last HAVE (chunk-downloader.ts peerLoop).
LeavingIsRight == LeavesForAReason /\ HaveIsHeard

-----------------------------------------------------------------------------
(* What the code does not guarantee (README, Divergences) *)

\* While one loop restores the files, the writers are paused.
RecoveryPauses == recovering # NoPeer => paused
=============================================================================
