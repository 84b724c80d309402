------------------------------ MODULE Lishnets ------------------------------
(***************************************************************************)
(* Membership of logical networks (lishnets.ts over network.ts).           *)
(*                                                                         *)
(* The database says which lishnets the user wants joined and with which   *)
(* bootstrap addresses; one shared libp2p node is subscribed to a topic    *)
(* per joined lishnet.  Every write changes the database under one mutex   *)
(* (the catalog), reserves a turn on the lock of each lishnet it touched,  *)
(* and then, under that lock, a reconcile brings the node in line with     *)
(* whatever the row says by then.  Starts and stops of the node run beside *)
(* the writes and take the catalog as well.                                *)
(*                                                                         *)
(* A step of this module is the code between two awaits.  Mutexes of the   *)
(* async-mutex package are FIFO queues whose head is the owner.  A list of *)
(* addresses is a set (a reordered list counts as unchanged) and an        *)
(* address stands for the peer it leads to as well.                        *)
(***************************************************************************)
EXTENDS Naturals, Sequences, FiniteSets

CONSTANTS Net,         \* lishnets
          Addr,        \* bootstrap addresses
          Writer,      \* clients that write rows
          Controller,  \* clients that start and stop the node
          Calls,       \* which of "start", "stop" the controllers ask for
          MaxDials,    \* bound: bootstrap runs of one lishnet outstanding at once
          Faults       \* which of the calls into libp2p and the datastore may fail

ASSUME ClientsAssumption == Writer \cap Controller = {}
ASSUME BoundsAssumption == /\ MaxDials \in Nat \ {0}
                           /\ Calls \subseteq {"start", "stop"}
                           /\ Faults \subseteq {"start", "subscribe", "libp2p", "datastore"}

Proc == Writer \cup Controller
Slot == 1..MaxDials

VARIABLES row,              \* the lishnets table
          joined,           \* joinedNetworks
          announced,        \* announcedJoined, unset read as FALSE
          applied,          \* appliedBootstrap
          stopRequested, admissionClosed,
          catalog,          \* catalogMutex
          lock,             \* networkOperations
          phase,            \* how far the reconcile that owns a lock has got
          pc,               \* where each client is
          start,            \* what each startEnabledNetworks call remembers
          lifecycle, node, terminal, cancelled, \* network.ts: phase, node held, nodeStopUnrecoverable, dialAbort
          lifeMutex,        \* lifecycleMutex of network.ts
          topics,           \* topics the node is subscribed to
          configured,       \* configuredBootstrapAddresses
          configuredIn,     \* configuredBootstrapAddressesByNet
          dial,             \* addBootstrapPeers runs, by lishnet and slot
          late              \* history: a list was installed on the node since it is being taken down

clientVars == <<catalog, lock, phase, pc>>
wrapperVars == <<joined, announced, applied>>
flagVars == <<stopRequested, admissionClosed, late>>
lifeVars == <<lifecycle, node, terminal, lifeMutex>>
netVars == <<topics, configured, configuredIn, dial, cancelled>>
vars == <<row, wrapperVars, flagVars, clientVars, start, lifeVars, netVars>>

-----------------------------------------------------------------------------
(* Data *)

NoRow == [stored |-> FALSE, enabled |-> FALSE, peers |-> {}]
Rows == [stored : {TRUE}, enabled : BOOLEAN, peers : SUBSET Addr]

\* What one membership put on the node, and which run it waits to hear from.
Entry == [present : BOOLEAN, addrs : SUBSET Addr, complete : BOOLEAN, from : 0..MaxDials]
NoEntry == [present |-> FALSE, addrs |-> {}, complete |-> FALSE, from |-> 0]

Run == [state : {"free", "walking", "completed", "incomplete"},
        todo : SUBSET Addr, superseded : BOOLEAN, awaited : BOOLEAN]
FreeRun == [state |-> "free", todo |-> {}, superseded |-> FALSE, awaited |-> FALSE]

\* What a start remembers: how it found things, what is left to join, what it joined.
Attempt == [wasRunning : BOOLEAN, stopBefore : BOOLEAN, closedBefore : BOOLEAN,
            todo : SUBSET Net, mine : SUBSET Net]
NoStart == [wasRunning |-> FALSE, stopBefore |-> FALSE, closedBefore |-> FALSE, todo |-> {}, mine |-> {}]

IsRunning == lifecycle = "running"
CanJoin == ~stopRequested /\ IsRunning

Owns(p, q) == q # <<>> /\ Head(q) = p
Queued(p, q) == \E i \in 1..Len(q) : q[i] = p

\* activeReconciles: a reservation counts from the moment it is made.
Reserved(n) == {w \in Writer : Queued(w, lock[n])}

\* A set, as the queue of its members; the order does not matter where used.
Enqueued(p, S) == [n \in Net |-> IF n \in S THEN Append(lock[n], p) ELSE lock[n]]

Place == {"idle", "catalog", "await", "life", "starting", "loop", "joining", "undo", "undoing",
          "leaving", "failed", "undoLife", "undoClear", "undoEnd",
          "stopCatalog", "drain", "stopLife", "stopClear", "stopEnd"}

TypeOK ==
  /\ row \in [Net -> Rows \cup {NoRow}]
  /\ joined \subseteq Net
  /\ announced \in [Net -> BOOLEAN]
  /\ applied \in [Net -> Entry]
  /\ stopRequested \in BOOLEAN /\ admissionClosed \in BOOLEAN /\ late \in BOOLEAN
  /\ catalog \in Seq(Proc)
  /\ lock \in [Net -> Seq(Proc)]
  /\ phase \in [Net -> {"queued", "dialing", "leaving"}]
  /\ pc \in [Proc -> Place]
  /\ start \in [Controller -> Attempt]
  /\ lifecycle \in {"stopped", "starting", "running", "stopping", "failed"}
  /\ node \in BOOLEAN /\ terminal \in BOOLEAN /\ cancelled \in BOOLEAN
  /\ lifeMutex \in Seq(Controller)
  /\ topics \subseteq Net
  /\ configured \subseteq Addr
  /\ configuredIn \in [Net -> SUBSET Addr]
  /\ dial \in [Net -> [Slot -> Run]]

Init ==
  /\ row = [n \in Net |-> NoRow]
  /\ joined = {} /\ topics = {} /\ configured = {}
  /\ announced = [n \in Net |-> FALSE]
  /\ applied = [n \in Net |-> NoEntry]
  /\ stopRequested = FALSE /\ admissionClosed = FALSE /\ late = FALSE
  /\ catalog = <<>> /\ lifeMutex = <<>>
  /\ lock = [n \in Net |-> <<>>]
  /\ phase = [n \in Net |-> "queued"]
  /\ pc = [p \in Proc |-> "idle"]
  /\ start = [c \in Controller |-> NoStart]
  /\ lifecycle = "stopped"
  /\ node = FALSE /\ terminal = FALSE /\ cancelled = FALSE
  /\ configuredIn = [n \in Net |-> {}]
  /\ dial = [n \in Net |-> [k \in Slot |-> FreeRun]]

-----------------------------------------------------------------------------
(* Bootstrap runs on the node *)

\* Addresses the ROWS of the other joined lishnets configure.
ConfiguredElsewhere(n) == UNION {row[m].peers : m \in joined \ {n}}

\* A bumped generation supersedes the runs of one lishnet.
Superseded(n) == [dial EXCEPT ![n] = [k \in Slot |->
                    IF dial[n][k].state = "walking" THEN [dial[n][k] EXCEPT !.superseded = TRUE] ELSE dial[n][k]]]

\* An aborted controller or a new epoch supersedes every run.
AllSuperseded == [n \in Net |-> Superseded(n)[n]]

\* Record the list and start walking it.  The first address of a run is
\* registered before the call returns, unless the run is over already.
Install(n, peers, awaited, runs, conf, confIn) ==
  \/ /\ peers = {}
     /\ applied' = [applied EXCEPT ![n] = [present |-> TRUE, addrs |-> {}, complete |-> TRUE, from |-> 0]]
     /\ dial' = runs /\ configured' = conf /\ configuredIn' = confIn
  \/ \E k \in Slot, a \in peers :
     LET dead == cancelled \/ ~node
         new  == [state |-> "walking", superseded |-> dead, awaited |-> awaited,
                  todo |-> IF dead THEN peers ELSE peers \ {a}]
     IN /\ runs[n][k].state = "free" /\ \A j \in 1..(k - 1) : runs[n][j].state # "free"
        /\ applied' = [applied EXCEPT ![n] = [present |-> TRUE, addrs |-> peers, complete |-> FALSE, from |-> k]]
        /\ dial' = [runs EXCEPT ![n][k] = new]
        /\ configured' = IF dead THEN conf ELSE conf \cup {a}
        /\ configuredIn' = IF dead THEN confIn ELSE [confIn EXCEPT ![n] = @ \cup {a}]

\* The next address of a run: registered, then dialled whatever comes of it.
DialNext(n, k) ==
  /\ dial[n][k].state = "walking" /\ ~dial[n][k].superseded
  /\ \E a \in dial[n][k].todo :
       /\ dial' = [dial EXCEPT ![n][k].todo = @ \ {a}]
       /\ configured' = configured \cup {a}
       /\ configuredIn' = [configuredIn EXCEPT ![n] = @ \cup {a}]
  /\ UNCHANGED <<row, wrapperVars, flagVars, clientVars, start, lifeVars, topics, cancelled>>

\* The walk ends: over the whole list, or before it because the run was
\* superseded or its connection turned out to be unwanted.
DialEnd(n, k) ==
  /\ dial[n][k].state = "walking"
  /\ \E result \in {"completed", "incomplete"} :
       /\ result = "completed" => dial[n][k].todo = {} /\ ~dial[n][k].superseded
       /\ dial' = [dial EXCEPT ![n][k] = [FreeRun EXCEPT !.state = result, !.awaited = dial[n][k].awaited]]
  /\ UNCHANGED <<row, wrapperVars, flagVars, clientVars, start, lifeVars, topics, configured, configuredIn, cancelled>>

\* finishBootstrapInstall: to the entry the run started with, if that is still
\* the one the map holds.
Finished(n, k) ==
  IF applied[n].present /\ applied[n].from = k
    THEN [applied[n] EXCEPT !.complete = (@ \/ dial[n][k].state = "completed"), !.from = 0]
    ELSE applied[n]

\* The continuation of a run nobody awaits.
DialReported(n, k) ==
  /\ dial[n][k].state \in {"completed", "incomplete"} /\ ~dial[n][k].awaited
  /\ applied' = [applied EXCEPT ![n] = Finished(n, k)]
  /\ dial' = [dial EXCEPT ![n][k] = FreeRun]
  /\ UNCHANGED <<row, joined, announced, flagVars, clientVars, start, lifeVars, topics, configured, configuredIn, cancelled>>

-----------------------------------------------------------------------------
(* Writes: phase one, the database under the catalog *)

\* Any write asks for the catalog before it does anything else.
Submit(w) ==
  /\ pc[w] = "idle"
  /\ pc' = [pc EXCEPT ![w] = "catalog"]
  /\ catalog' = Append(catalog, w)
  /\ UNCHANGED <<row, wrapperVars, flagVars, lock, phase, start, lifeVars, netVars>>

\* forgetIfGone: no row and not joined, so nothing is remembered of n.
Forget(n, told, rows, members) == IF rows[n].stored \/ n \in members THEN told[n] ELSE FALSE

\* The end of the catalog section: the rows are written and, while admission
\* is open, a turn is reserved on the lock of every lishnet of touched.
Commit(w, rows, touched) ==
  LET reserve == ~admissionClosed /\ touched # {}
  IN /\ row' = rows
     /\ catalog' = Tail(catalog)
     /\ lock' = IF reserve THEN Enqueued(w, touched) ELSE lock
     /\ pc' = [pc EXCEPT ![w] = IF reserve THEN "await" ELSE "idle"]
     /\ announced' = [n \in Net |-> IF admissionClosed /\ n \in touched
                                      THEN Forget(n, announced, rows, joined) ELSE announced[n]]
     /\ UNCHANGED <<joined, applied, flagVars, phase, start, lifeVars, netVars>>

Writing(w) == pc[w] = "catalog" /\ Owns(w, catalog)

\* A write that found nothing to change releases the catalog and answers.
NotFound(w) == Commit(w, row, {})

SetEnabled(w) == \E n \in Net, b \in BOOLEAN :
  /\ Writing(w)
  /\ IF row[n].stored THEN Commit(w, [row EXCEPT ![n].enabled = b], {n}) ELSE NotFound(w)

Add(w) == \E n \in Net, r \in Rows :
  /\ Writing(w)
  /\ IF row[n].stored THEN NotFound(w) ELSE Commit(w, [row EXCEPT ![n] = r], {n})

\* addIfNotExists, importNetworks: stored disabled, so nothing to reconcile.
AddIfNotExists(w) == \E S \in SUBSET Net : \E peers \in [S -> SUBSET Addr] :
  /\ Writing(w)
  /\ Commit(w, [n \in Net |-> IF n \in S /\ ~row[n].stored
                               THEN [stored |-> TRUE, enabled |-> FALSE, peers |-> peers[n]]
                               ELSE row[n]], {})

Update(w) == \E n \in Net, r \in Rows :
  /\ Writing(w)
  /\ IF row[n].stored THEN Commit(w, [row EXCEPT ![n] = r], {n}) ELSE NotFound(w)

UpdateBootstrapPeers(w) == \E n \in Net, peers \in SUBSET Addr :
  /\ Writing(w)
  /\ IF row[n].stored THEN Commit(w, [row EXCEPT ![n].peers = peers], {n}) ELSE NotFound(w)

\* Mutant: the row is marked gone and keeps its flag.
DeleteSoftly(w) == \E n \in Net :
  /\ Writing(w)
  /\ IF row[n].stored THEN Commit(w, [row EXCEPT ![n].stored = FALSE], {n}) ELSE NotFound(w)

Delete(w) == \E n \in Net :
  /\ Writing(w)
  /\ IF row[n].stored THEN Commit(w, [row EXCEPT ![n] = NoRow], {n}) ELSE NotFound(w)

\* importFromLISHnet: an upsert.
Import(w) == \E n \in Net, r \in Rows :
  /\ Writing(w)
  /\ Commit(w, [row EXCEPT ![n] = r], {n})

\* replace: every lishnet of the old table and of the new one is touched.
Replace(w) == \E rows \in [Net -> Rows \cup {NoRow}] :
  /\ Writing(w)
  /\ Commit(w, rows, {n \in Net : row[n].stored \/ rows[n].stored})

Write(w) == \/ SetEnabled(w) \/ Add(w) \/ AddIfNotExists(w) \/ Update(w)
            \/ UpdateBootstrapPeers(w) \/ Delete(w) \/ Import(w) \/ Replace(w)

-----------------------------------------------------------------------------
(* Writes: phase two, the runtime under the lishnet's lock *)

Turn(w, n) == pc[w] = "await" /\ Owns(w, lock[n])

\* Release the lock of n; the write is answered when its last turn is over.
Release(w, n) ==
  /\ lock' = [lock EXCEPT ![n] = Tail(@)]
  /\ phase' = [phase EXCEPT ![n] = "queued"]
  /\ pc' = [pc EXCEPT ![w] = IF \E m \in Net \ {n} : Queued(w, lock[m]) THEN "await" ELSE "idle"]
  /\ UNCHANGED catalog

\* Announce where the lishnet settled, if that changed, and let go.
Settle(w, n, members) ==
  /\ announced' = [announced EXCEPT ![n] = n \in members]
  /\ Release(w, n)

\* A reconcile that threw announces nothing.
Abandon(w, n) ==
  /\ announced' = [announced EXCEPT ![n] = Forget(n, announced, row, joined)]
  /\ Release(w, n)

\* What one membership leaves behind is taken off the node: addresses of its
\* installed list that no other joined row configures.
Unconfigure(n, outgoing, runs) ==
  LET gone == outgoing \ ConfiguredElsewhere(n)
  IN /\ configured' = configured \ gone
     /\ configuredIn' = [m \in Net |-> IF m = n THEN {} ELSE configuredIn[m] \ gone]
     /\ dial' = runs

\* Mutant: the baseline outlives the membership.
LeaveTopicKeepingEntry(n) ==
  /\ topics' = IF node THEN topics \ {n} ELSE topics
  /\ joined' = joined \ {n}
  /\ Unconfigure(n, applied[n].addrs, Superseded(n))
  /\ UNCHANGED <<applied, cancelled>>

\* The part of leaveNetwork before its first await.
LeaveTopic(n) ==
  /\ topics' = IF node THEN topics \ {n} ELSE topics
  /\ joined' = joined \ {n}
  /\ applied' = [applied EXCEPT ![n] = NoEntry]
  /\ Unconfigure(n, applied[n].addrs, Superseded(n))
  /\ UNCHANGED cancelled

\* Mutant: the run that walks the old list goes on.
SyncBootstrapBeside(n) ==
  LET gone == (applied[n].addrs \ row[n].peers) \ ConfiguredElsewhere(n)
  IN /\ Install(n, row[n].peers, FALSE, dial, configured \ gone,
                [m \in Net |-> IF m = n THEN row[n].peers ELSE configuredIn[m] \ gone])
     /\ UNCHANGED <<joined, topics, cancelled>>

\* syncBootstrapRuntime: prune what left the list, supersede the old runs,
\* record the new list and walk it in the background.
SyncBootstrap(n) ==
  LET gone == (applied[n].addrs \ row[n].peers) \ ConfiguredElsewhere(n)
  IN /\ Install(n, row[n].peers, FALSE, Superseded(n), configured \ gone,
                [m \in Net |-> IF m = n THEN row[n].peers ELSE configuredIn[m] \ gone])
     /\ UNCHANGED <<joined, topics, cancelled>>

\* reconcileLocked on a lishnet that is where its row wants it.
ReconcileSettled(w, n) ==
  /\ Turn(w, n) /\ phase[n] = "queued"
  /\ (n \in joined) = row[n].enabled
  /\ IF n \in joined /\ (applied[n].addrs # row[n].peers \/ (applied[n].present /\ ~applied[n].complete))
       THEN SyncBootstrap(n) /\ late' = (late \/ lifecycle = "stopping")
       ELSE UNCHANGED <<joined, applied, netVars, late>>
  /\ Settle(w, n, joined)
  /\ UNCHANGED <<row, stopRequested, admissionClosed, start, lifeVars>>

\* joinNetwork on a node that is down or about to go down.
JoinRefused(w, n) ==
  /\ Turn(w, n) /\ phase[n] = "queued"
  /\ n \notin joined /\ row[n].enabled /\ ~CanJoin
  /\ Settle(w, n, joined)
  /\ UNCHANGED <<row, joined, applied, flagVars, start, lifeVars, netVars>>

\* joinNetwork whose subscription throws.
JoinThrows(w, n) ==
  /\ "subscribe" \in Faults
  /\ Turn(w, n) /\ phase[n] = "queued"
  /\ n \notin joined /\ row[n].enabled /\ CanJoin
  /\ Abandon(w, n)
  /\ UNCHANGED <<row, joined, applied, flagVars, start, lifeVars, netVars>>

\* joinNetwork: subscribe, record the list, and walk it under the lock.
Join(w, n) ==
  /\ Turn(w, n) /\ phase[n] = "queued"
  /\ n \notin joined /\ row[n].enabled /\ CanJoin
  /\ topics' = topics \cup {n}
  /\ joined' = joined \cup {n}
  /\ Install(n, row[n].peers, TRUE, dial, configured, configuredIn)
  /\ IF row[n].peers = {}
       THEN Settle(w, n, joined')
       ELSE phase' = [phase EXCEPT ![n] = "dialing"] /\ UNCHANGED <<announced, catalog, lock, pc>>
  /\ UNCHANGED <<row, flagVars, start, lifeVars, cancelled>>

\* Mutant: only a completed walk ends the wait.
JoinedOnSuccess(w, n) ==
  /\ Turn(w, n) /\ phase[n] = "dialing"
  /\ \E k \in Slot :
       /\ dial[n][k].awaited /\ dial[n][k].state = "completed"
       /\ dial' = [dial EXCEPT ![n][k] = FreeRun]
       /\ applied' = [applied EXCEPT ![n] = Finished(n, k)]
  /\ Settle(w, n, joined)
  /\ UNCHANGED <<row, joined, flagVars, start, lifeVars, topics, configured, configuredIn, cancelled>>

\* The rest of joinNetwork: a node that went down meanwhile ends the claim.
Joined(w, n) ==
  /\ Turn(w, n) /\ phase[n] = "dialing"
  /\ \E k \in Slot :
       /\ dial[n][k].awaited /\ dial[n][k].state \in {"completed", "incomplete"}
       /\ dial' = [dial EXCEPT ![n][k] = FreeRun]
       /\ IF IsRunning
            THEN applied' = [applied EXCEPT ![n] = Finished(n, k)] /\ UNCHANGED joined
            ELSE applied' = [applied EXCEPT ![n] = NoEntry] /\ joined' = joined \ {n}
  /\ Settle(w, n, joined')
  /\ UNCHANGED <<row, flagVars, start, lifeVars, topics, configured, configuredIn, cancelled>>

\* leaveNetwork: unsubscribe, then release the peers one by one.
Leave(w, n) ==
  /\ Turn(w, n) /\ phase[n] = "queued"
  /\ n \in joined /\ ~row[n].enabled
  /\ LeaveTopic(n)
  /\ phase' = [phase EXCEPT ![n] = "leaving"]
  /\ UNCHANGED <<row, announced, flagVars, catalog, lock, pc, start, lifeVars>>

\* Unsubscribing throws on a node whose pubsub has stopped.
LeaveThrows(w, n) ==
  /\ Turn(w, n) /\ phase[n] = "queued"
  /\ n \in joined /\ ~row[n].enabled /\ node /\ ~IsRunning
  /\ Abandon(w, n)
  /\ UNCHANGED <<row, joined, applied, flagVars, start, lifeVars, netVars>>

\* The last peer is released; a peer that fails is logged and passed over.
Left(w, n) ==
  /\ Turn(w, n) /\ phase[n] = "leaving"
  /\ Settle(w, n, joined)
  /\ UNCHANGED <<row, joined, applied, flagVars, start, lifeVars, netVars>>

Reconcile(w, n) == \/ ReconcileSettled(w, n) \/ JoinRefused(w, n) \/ JoinThrows(w, n)
                   \/ Join(w, n) \/ Joined(w, n)
                   \/ Leave(w, n) \/ LeaveThrows(w, n) \/ Left(w, n)

-----------------------------------------------------------------------------
(* The node: Network.start and Network.stop under the lifecycle mutex *)

\* startEnabledNetworks is called: it remembers how it found the runtime and
\* asks for the lifecycle mutex.
StartCall(c) ==
  /\ "start" \in Calls /\ pc[c] = "idle"
  /\ pc' = [pc EXCEPT ![c] = "life"]
  /\ start' = [start EXCEPT ![c] = [NoStart EXCEPT !.wasRunning = IsRunning, !.stopBefore = stopRequested,
                                                   !.closedBefore = admissionClosed]]
  /\ lifeMutex' = Append(lifeMutex, c)
  /\ UNCHANGED <<row, wrapperVars, flagVars, catalog, lock, phase, lifecycle, node, terminal, netVars>>

\* Network.start finds a phase in which it builds nothing: an error after a
\* failed stop, success on a node that is up.
StartRefused(c) ==
  /\ pc[c] = "life" /\ Owns(c, lifeMutex) /\ lifecycle # "stopped"
  /\ lifeMutex' = Tail(lifeMutex)
  /\ pc' = [pc EXCEPT ![c] = IF lifecycle = "failed" THEN "failed" ELSE "catalog"]
  /\ catalog' = IF lifecycle = "failed" THEN catalog ELSE Append(catalog, c)
  /\ UNCHANGED <<row, wrapperVars, flagVars, lock, phase, start, lifecycle, node, terminal, netVars>>

NodeStart(c) ==
  /\ pc[c] = "life" /\ Owns(c, lifeMutex) /\ lifecycle = "stopped"
  /\ lifecycle' = "starting" /\ cancelled' = FALSE
  /\ pc' = [pc EXCEPT ![c] = "starting"]
  /\ UNCHANGED <<row, wrapperVars, flagVars, catalog, lock, phase, start, node, terminal, lifeMutex,
                 topics, configured, configuredIn, dial>>

NodeStarted(c) ==
  /\ pc[c] = "starting"
  /\ lifecycle' = "running" /\ node' = TRUE
  /\ lifeMutex' = Tail(lifeMutex)
  /\ pc' = [pc EXCEPT ![c] = "catalog"]
  /\ catalog' = Append(catalog, c)
  /\ UNCHANGED <<row, wrapperVars, flagVars, lock, phase, start, terminal, netVars>>

\* What teardown leaves when it succeeds, when libp2p would not stop and when
\* only the datastore would not close.
TornDown == /\ lifecycle' = "stopped" /\ node' = FALSE
            /\ topics' = {} /\ UNCHANGED terminal
NodeStuck == /\ "libp2p" \in Faults /\ node
             /\ lifecycle' = "failed" /\ terminal' = TRUE /\ UNCHANGED <<node, topics>>
StoreStuck == /\ "datastore" \in Faults
              /\ lifecycle' = "failed" /\ node' = FALSE
              /\ topics' = {} /\ UNCHANGED terminal

\* The half-built node is torn down again; it may not even manage that.
NodeStartFailed(c) ==
  /\ "start" \in Faults /\ pc[c] = "starting"
  /\ \/ TornDown \/ StoreStuck
     \/ /\ "libp2p" \in Faults
        /\ lifecycle' = "failed" /\ node' = TRUE /\ terminal' = TRUE
        /\ UNCHANGED topics
  /\ lifeMutex' = Tail(lifeMutex)
  /\ dial' = AllSuperseded
  /\ pc' = [pc EXCEPT ![c] = "failed"]
  /\ UNCHANGED <<row, wrapperVars, flagVars, catalog, lock, phase, start, configured, configuredIn, cancelled>>

\* Network.stop has the mutex: refused when an earlier stop left libp2p half
\* way, otherwise the epoch moves on.
NodeStop(c, from, refused, next) ==
  /\ pc[c] = from /\ Owns(c, lifeMutex)
  /\ IF terminal
       THEN /\ refused
            /\ UNCHANGED <<lifecycle, dial, late>>
       ELSE /\ lifecycle' = "stopping" /\ dial' = AllSuperseded /\ late' = FALSE
            /\ pc' = [pc EXCEPT ![c] = next]
            /\ UNCHANGED <<catalog, lifeMutex>>
  /\ UNCHANGED <<row, wrapperVars, stopRequested, admissionClosed, lock, phase, start, node, terminal, topics,
                 configured, configuredIn, cancelled>>

\* teardown, once the protocol handlers have drained: the run's bookkeeping.
NodeClear(c, from, next) ==
  /\ pc[c] = from
  /\ configured' = {} /\ configuredIn' = [n \in Net |-> {}]
  /\ pc' = [pc EXCEPT ![c] = next]
  /\ UNCHANGED <<row, wrapperVars, flagVars, catalog, lock, phase, start, lifeVars, topics, dial, cancelled>>

-----------------------------------------------------------------------------
(* startEnabledNetworks, from the catalog on *)

\* Admission reopens under the catalog, on a node seen running.
StartJoining(c) ==
  /\ pc[c] = "catalog" /\ Owns(c, catalog) /\ IsRunning
  /\ stopRequested' = FALSE /\ admissionClosed' = FALSE /\ UNCHANGED late
  /\ start' = [start EXCEPT ![c].todo = {n \in Net : row[n].stored /\ row[n].enabled}]
  /\ pc' = [pc EXCEPT ![c] = "loop"]
  /\ UNCHANGED <<row, wrapperVars, catalog, lock, phase, lifeVars, netVars>>

\* A stop overtook this start: it answers success and joins nothing.
StartOvertaken(c) ==
  /\ pc[c] = "catalog" /\ Owns(c, catalog) /\ ~IsRunning
  /\ catalog' = Tail(catalog)
  /\ pc' = [pc EXCEPT ![c] = "idle"]
  /\ start' = [start EXCEPT ![c] = NoStart]
  /\ UNCHANGED <<row, wrapperVars, flagVars, lock, phase, lifeVars, netVars>>

\* The next enabled lishnet's lock, or the end of the loop.
StartNext(c) ==
  /\ pc[c] = "loop"
  /\ \/ \E n \in start[c].todo :
          /\ lock' = [lock EXCEPT ![n] = Append(@, c)]
          /\ start' = [start EXCEPT ![c].todo = @ \ {n}]
          /\ pc' = [pc EXCEPT ![c] = "joining"]
          /\ UNCHANGED catalog
     \/ /\ start[c].todo = {}
        /\ catalog' = Tail(catalog)
        /\ pc' = [pc EXCEPT ![c] = "idle"]
        /\ start' = [start EXCEPT ![c] = NoStart]
        /\ UNCHANGED lock
  /\ UNCHANGED <<row, wrapperVars, flagVars, phase, lifeVars, netVars>>

StartLock(c, n, from) == pc[c] = from /\ Owns(c, lock[n])

ToLoop(c, n, next) ==
  /\ lock' = [lock EXCEPT ![n] = Tail(@)]
  /\ pc' = [pc EXCEPT ![c] = next]
  /\ UNCHANGED <<catalog, phase>>

\* Nothing to join: disabled or joined meanwhile, or a stop was asked for.
StartSkip(c, n) ==
  /\ StartLock(c, n, "joining")
  /\ ~row[n].enabled \/ n \in joined \/ ~CanJoin
  /\ ToLoop(c, n, "loop")
  /\ UNCHANGED <<row, wrapperVars, flagVars, start, lifeVars, netVars>>

\* Mutant: nothing for a later leave to change away from.
StartJoinUnannounced(c, n) ==
  /\ StartLock(c, n, "joining")
  /\ row[n].enabled /\ n \notin joined /\ CanJoin
  /\ topics' = topics \cup {n}
  /\ joined' = joined \cup {n}
  /\ Install(n, row[n].peers, FALSE, dial, configured, configuredIn)
  /\ start' = [start EXCEPT ![c].mine = @ \cup {n}]
  /\ ToLoop(c, n, "loop")
  /\ UNCHANGED <<row, announced, flagVars, lifeVars, cancelled>>

\* A silent join: nothing is announced, but a later leave has a joined state
\* to change away from.  Nobody awaits the bootstrap run.
StartJoin(c, n) ==
  /\ StartLock(c, n, "joining")
  /\ row[n].enabled /\ n \notin joined /\ CanJoin
  /\ topics' = topics \cup {n}
  /\ joined' = joined \cup {n}
  /\ announced' = [announced EXCEPT ![n] = TRUE]
  /\ Install(n, row[n].peers, FALSE, dial, configured, configuredIn)
  /\ start' = [start EXCEPT ![c].mine = @ \cup {n}]
  /\ ToLoop(c, n, "loop")
  /\ UNCHANGED <<row, flagVars, lifeVars, cancelled>>

\* The subscription throws: close admission and take back this call's joins.
StartThrows(c, n) ==
  /\ "subscribe" \in Faults
  /\ StartLock(c, n, "joining")
  /\ row[n].enabled /\ n \notin joined /\ CanJoin
  /\ admissionClosed' = TRUE
  /\ start' = [start EXCEPT ![c].todo = {}]
  /\ ToLoop(c, n, "undo")
  /\ UNCHANGED <<row, wrapperVars, stopRequested, late, lifeVars, netVars>>

\* The rollback: the next lishnet of this call, or the end of the catalog
\* section, which puts the flags back if the node had been running.
StartUndo(c) ==
  /\ pc[c] = "undo"
  /\ \/ \E n \in start[c].mine :
          /\ lock' = [lock EXCEPT ![n] = Append(@, c)]
          /\ start' = [start EXCEPT ![c].mine = @ \ {n}]
          /\ pc' = [pc EXCEPT ![c] = "undoing"]
          /\ UNCHANGED <<catalog, flagVars>>
     \/ /\ start[c].mine = {}
        /\ IF start[c].wasRunning /\ ~stopRequested
             THEN stopRequested' = start[c].stopBefore /\ admissionClosed' = start[c].closedBefore /\ UNCHANGED late
             ELSE UNCHANGED flagVars
        /\ catalog' = Tail(catalog)
        /\ pc' = [pc EXCEPT ![c] = "failed"]
        /\ UNCHANGED <<lock, start>>
  /\ UNCHANGED <<row, wrapperVars, phase, lifeVars, netVars>>

\* leaveNetwork of one rolled back join: up to its first await ...
StartUnjoin(c, n) ==
  /\ StartLock(c, n, "undoing")
  /\ IF n \in joined THEN LeaveTopic(n) ELSE UNCHANGED <<joined, applied, netVars>>
  /\ pc' = [pc EXCEPT ![c] = "leaving"]
  /\ UNCHANGED <<row, announced, flagVars, catalog, lock, phase, start, lifeVars>>

\* ... or not even that, on a node another call is taking down ...
StartUnjoinThrows(c, n) ==
  /\ StartLock(c, n, "undoing")
  /\ n \in joined /\ node /\ ~IsRunning
  /\ ToLoop(c, n, "undo")
  /\ UNCHANGED <<row, wrapperVars, flagVars, start, lifeVars, netVars>>

\* ... and from there on; its silent announcement goes with it.
StartUnjoined(c, n) ==
  /\ StartLock(c, n, "leaving")
  /\ announced' = [announced EXCEPT ![n] = FALSE]
  /\ ToLoop(c, n, "undo")
  /\ UNCHANGED <<row, joined, applied, flagVars, start, lifeVars, netVars>>

\* The membership and everything recorded about it is dropped.
ForgetMembership ==
  /\ joined' = {}
  /\ announced' = [n \in Net |-> FALSE]
  /\ applied' = [n \in Net |-> NoEntry]

\* Outside the catalog: a call that brought the node up takes it down again.
StartFailed(c) ==
  /\ pc[c] = "failed"
  /\ IF start[c].wasRunning
       THEN UNCHANGED <<flagVars, wrapperVars, lifeMutex>> /\ pc' = [pc EXCEPT ![c] = "idle"]
       ELSE /\ stopRequested' = TRUE /\ admissionClosed' = TRUE /\ UNCHANGED late
            /\ IF IsRunning
                 THEN /\ lifeMutex' = Append(lifeMutex, c)
                      /\ pc' = [pc EXCEPT ![c] = "undoLife"]
                      /\ UNCHANGED wrapperVars
                 ELSE /\ ForgetMembership
                      /\ pc' = [pc EXCEPT ![c] = "idle"]
                      /\ UNCHANGED lifeMutex
  /\ start' = [start EXCEPT ![c] = NoStart]
  /\ UNCHANGED <<row, catalog, lock, phase, lifecycle, node, terminal, netVars>>

UndoStop(c) == NodeStop(c, "undoLife",
                        /\ lifeMutex' = Tail(lifeMutex)
                        /\ pc' = [pc EXCEPT ![c] = "idle"]
                        /\ UNCHANGED catalog,
                        "undoClear")
UndoClear(c) == NodeClear(c, "undoClear", "undoEnd")

UndoEnd(c) ==
  /\ pc[c] = "undoEnd"
  /\ \/ TornDown /\ ForgetMembership
     \/ (NodeStuck \/ StoreStuck) /\ UNCHANGED wrapperVars
  /\ lifeMutex' = Tail(lifeMutex)
  /\ pc' = [pc EXCEPT ![c] = "idle"]
  /\ UNCHANGED <<row, flagVars, catalog, lock, phase, start, configured, configuredIn, dial, cancelled>>

-----------------------------------------------------------------------------
(* stopAllNetworks *)

\* The intent is raised at once; the door closes only under the catalog.
StopCall(c) ==
  /\ "stop" \in Calls /\ pc[c] = "idle"
  /\ stopRequested' = TRUE
  /\ catalog' = Append(catalog, c)
  /\ pc' = [pc EXCEPT ![c] = "stopCatalog"]
  /\ UNCHANGED <<row, wrapperVars, admissionClosed, late, lock, phase, start, lifeVars, netVars>>

\* Close admission and cancel the outstanding network work.
StopClose(c) ==
  /\ pc[c] = "stopCatalog" /\ Owns(c, catalog)
  /\ admissionClosed' = TRUE
  /\ cancelled' = TRUE /\ dial' = AllSuperseded
  /\ pc' = [pc EXCEPT ![c] = "drain"]
  /\ UNCHANGED <<row, wrapperVars, stopRequested, late, catalog, lock, phase, start, lifeVars, topics,
                 configured, configuredIn>>

\* Mutant: the node is stopped under whatever is in flight.
StopUndrained(c) ==
  /\ pc[c] = "drain"
  /\ lifeMutex' = Append(lifeMutex, c)
  /\ pc' = [pc EXCEPT ![c] = "stopLife"]
  /\ UNCHANGED <<row, wrapperVars, flagVars, catalog, lock, phase, start, lifecycle, node, terminal, netVars>>

\* Every reconcile reserved before the door closed has finished.
StopDrained(c) ==
  /\ pc[c] = "drain" /\ \A n \in Net : Reserved(n) = {}
  /\ lifeMutex' = Append(lifeMutex, c)
  /\ pc' = [pc EXCEPT ![c] = "stopLife"]
  /\ UNCHANGED <<row, wrapperVars, flagVars, catalog, lock, phase, start, lifecycle, node, terminal, netVars>>

StopNode(c) == NodeStop(c, "stopLife",
                        /\ lifeMutex' = Tail(lifeMutex)
                        /\ catalog' = Tail(catalog)
                        /\ pc' = [pc EXCEPT ![c] = "idle"],
                        "stopClear")
StopClear(c) == NodeClear(c, "stopClear", "stopEnd")

\* Mutant: the membership outlives the node.
StopEndRemembering(c) ==
  /\ pc[c] = "stopEnd"
  /\ TornDown \/ NodeStuck \/ StoreStuck
  /\ lifeMutex' = Tail(lifeMutex)
  /\ catalog' = Tail(catalog)
  /\ pc' = [pc EXCEPT ![c] = "idle"]
  /\ UNCHANGED <<row, wrapperVars, flagVars, lock, phase, start, configured, configuredIn, dial, cancelled>>

\* The membership is dropped only once the node is provably down.
StopEnd(c) ==
  /\ pc[c] = "stopEnd"
  /\ \/ TornDown /\ ForgetMembership
     \/ (NodeStuck \/ StoreStuck) /\ UNCHANGED wrapperVars
  /\ lifeMutex' = Tail(lifeMutex)
  /\ catalog' = Tail(catalog)
  /\ pc' = [pc EXCEPT ![c] = "idle"]
  /\ UNCHANGED <<row, flagVars, lock, phase, start, configured, configuredIn, dial, cancelled>>

-----------------------------------------------------------------------------

Starting(c) == \/ StartRefused(c) \/ NodeStart(c) \/ NodeStarted(c) \/ NodeStartFailed(c)
               \/ StartJoining(c) \/ StartOvertaken(c) \/ StartNext(c)
               \/ \E n \in Net : \/ StartSkip(c, n) \/ StartJoin(c, n) \/ StartThrows(c, n)
                                 \/ StartUnjoin(c, n) \/ StartUnjoinThrows(c, n) \/ StartUnjoined(c, n)
               \/ StartUndo(c) \/ StartFailed(c) \/ UndoStop(c) \/ UndoClear(c) \/ UndoEnd(c)

Stopping(c) == StopClose(c) \/ StopDrained(c) \/ StopNode(c) \/ StopClear(c) \/ StopEnd(c)

Dialing(n, k) == DialNext(n, k) \/ DialEnd(n, k) \/ DialReported(n, k)

Next == \/ \E w \in Writer : Submit(w) \/ Write(w) \/ \E n \in Net : Reconcile(w, n)
        \/ \E c \in Controller : StartCall(c) \/ StopCall(c) \/ Starting(c) \/ Stopping(c)
        \/ \E n \in Net, k \in Slot : Dialing(n, k)

Spec == Init /\ [][Next]_vars

\* Everything but the clients' decision to call runs: continuations are
\* scheduled, a dial has a timeout, a release of a peer ends with its hangUp
\* or with the run's abort.
Fairness == /\ \A w \in Writer : WF_vars(Write(w)) /\ \A n \in Net : WF_vars(Reconcile(w, n))
            /\ \A c \in Controller : WF_vars(Starting(c)) /\ WF_vars(Stopping(c))
            /\ \A n \in Net, k \in Slot : WF_vars(Dialing(n, k))

FairSpec == Spec /\ Fairness

-----------------------------------------------------------------------------
(* Properties *)

\* The wrapper claims exactly the memberships the running node has: no joined
\* lishnet without a subscription, no subscription nobody remembers.
JoinedIsSubscribed == IsRunning => joined = topics

\* There is a bootstrap baseline to clean up exactly while there is a
\* membership that installed it.
EntryIffJoined == \A n \in Net : applied[n].present <=> n \in joined

\* Whenever no transition of a lishnet is under way, the last thing the higher
\* layers were told about it is what is true of it.
SettledIsAnnounced == \A n \in Net : lock[n] = <<>> => (announced[n] <=> n \in joined)

\* The observers of a settled lishnet know whether it is joined, and every
\* mutex belongs to who took it (lishnets.ts reconcileLocked, announce).
ObserversAgree == TypeOK /\ SettledIsAnnounced

\* A shutdown reaches the node only when no join or leave is in flight.
StopFindsNobody ==
  (\E c \in Controller : pc[c] \in {"stopClear", "stopEnd"}) => \A n \in Net : lock[n] = <<>>

\* No address of an earlier list comes back: what a running node holds for a
\* lishnet is part of the list recorded for its membership, unless a list was
\* installed while an earlier node was being taken down.
NoResurrectedAddress == IsRunning /\ ~late => \A n \in Net : configuredIn[n] \subseteq applied[n].addrs

\* A write that was accepted is answered, across dials, leaves and shutdowns.
WriteAnswered == \A w \in Writer : pc[w] = "catalog" ~> pc[w] = "idle"

\* A start or a stop returns: neither waits for ever on the catalog, on a
\* lishnet's lock, on the lifecycle mutex or on the drain.
CallsReturn == \A c \in Controller : pc[c] # "idle" ~> pc[c] = "idle"

-----------------------------------------------------------------------------
(* What the code does not guarantee (README, Divergences) *)

\* As long as the node holds topic subscriptions this layer remembers them.
MembershipNotDiscarded == node => topics \subseteq joined

\* Nothing is reserved, running or half way.
Quiet == /\ catalog = <<>> /\ lifeMutex = <<>>
         /\ \A n \in Net : lock[n] = <<>>
         /\ \A c \in Controller : pc[c] = "idle"

\* Whenever everything is quiet, every address the node treats as configured
\* belongs to the installed list of a lishnet it is in.
NoOrphanedAddress == Quiet => configured \subseteq UNION {applied[n].addrs : n \in joined}

\* Whenever everything is quiet, an installed list whose walk was finished is
\* one the node still treats as configured.
NoLostAddress == Quiet => \A n \in joined : applied[n].complete => applied[n].addrs \subseteq configured

\* No list is installed on a node that is being taken down.
NothingInstalledLate == ~late

\* A write that finds admission closed reads the membership while no
\* convergence can move it.
DeferredReadIsStable ==
  \A w \in Writer : (Writing(w) /\ admissionClosed) => \A n \in Net : Reserved(n) = {}
=============================================================================
