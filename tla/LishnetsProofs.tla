--------------------------- MODULE LishnetsProofs ---------------------------
(***************************************************************************)
(* Proofs about the lishnet layer, for any sets of lishnets, addresses,    *)
(* writers and controllers and any combination of failures.                *)
(***************************************************************************)
EXTENDS Lishnets, TLAPS

\* A queue that loses its head keeps its type, and nobody joins it.
LEMMA TailQueue ==
  ASSUME NEW S, NEW q \in Seq(S), q # <<>>
  PROVE  /\ Tail(q) \in Seq(S)
         /\ Head(q) \in S
         /\ \A p : Queued(p, Tail(q)) => Queued(p, q)
BY DEF Queued

\* A queue that grows keeps its head and gains one member.
LEMMA AppendQueue ==
  ASSUME NEW S, NEW q \in Seq(S), NEW p \in S
  PROVE  /\ Append(q, p) \in Seq(S)
         /\ \A o : Owns(o, q) => Owns(o, Append(q, p))
         /\ \A o : Queued(o, Append(q, p)) => o = p \/ Queued(o, q)
BY DEF Owns, Queued

LEMMA OwnsQueue ==
  ASSUME NEW S, NEW q \in Seq(S), NEW p, Owns(p, q)
  PROVE  q # <<>> /\ p \in S /\ Queued(p, q) /\ \A o : Owns(o, q) => o = p
BY DEF Owns, Queued

LEMMA EnqueuedType ==
  ASSUME lock \in [Net -> Seq(Proc)], NEW p \in Proc, NEW S
  PROVE  /\ Enqueued(p, S) \in [Net -> Seq(Proc)]
         /\ \A n \in Net : \A o : Owns(o, lock[n]) => Owns(o, Enqueued(p, S)[n])
         /\ \A n \in Net : \A o : Queued(o, Enqueued(p, S)[n]) => o = p \/ Queued(o, lock[n])
BY AppendQueue DEF Enqueued

LEMMA SupersededType ==
  ASSUME dial \in [Net -> [Slot -> Run]]
  PROVE  /\ \A n \in Net : Superseded(n) \in [Net -> [Slot -> Run]]
         /\ AllSuperseded \in [Net -> [Slot -> Run]]
<1>1. ASSUME NEW n \in Net PROVE Superseded(n) \in [Net -> [Slot -> Run]]
  <2>1. ASSUME NEW r \in Run PROVE [r EXCEPT !.superseded = TRUE] \in Run
    BY DEF Run
  <2>2. ASSUME NEW k \in Slot PROVE dial[n][k] \in Run /\ [dial[n][k] EXCEPT !.superseded = TRUE] \in Run
    BY <2>1
  <2>. QED BY <2>2 DEF Superseded
<1>. QED BY <1>1 DEF AllSuperseded

\* What an installation leaves behind is well formed if what it starts from is.
LEMMA InstallType ==
  ASSUME applied \in [Net -> Entry], cancelled \in BOOLEAN, node \in BOOLEAN,
         NEW n \in Net, NEW peers \in SUBSET Addr, NEW awaited \in BOOLEAN,
         NEW runs \in [Net -> [Slot -> Run]], NEW conf \in SUBSET Addr, NEW confIn \in [Net -> SUBSET Addr],
         Install(n, peers, awaited, runs, conf, confIn)
  PROVE  /\ applied' \in [Net -> Entry] /\ dial' \in [Net -> [Slot -> Run]]
         /\ configured' \subseteq Addr /\ configuredIn' \in [Net -> SUBSET Addr]
         /\ applied'[n].present /\ \A m \in Net \ {n} : applied'[m] = applied[m]
<1>1. CASE peers = {} /\ applied' = [applied EXCEPT ![n] = [present |-> TRUE, addrs |-> {}, complete |-> TRUE, from |-> 0]]
           /\ dial' = runs /\ configured' = conf /\ configuredIn' = confIn
  BY <1>1, BoundsAssumption DEF Entry
<1>2. ASSUME NEW k \in Slot, NEW a \in peers,
             applied' = [applied EXCEPT ![n] = [present |-> TRUE, addrs |-> peers, complete |-> FALSE, from |-> k]],
             dial' = [runs EXCEPT ![n][k] = [state |-> "walking", superseded |-> cancelled \/ ~node, awaited |-> awaited,
                                             todo |-> IF cancelled \/ ~node THEN peers ELSE peers \ {a}]],
             configured' = IF cancelled \/ ~node THEN conf ELSE conf \cup {a},
             configuredIn' = IF cancelled \/ ~node THEN confIn ELSE [confIn EXCEPT ![n] = @ \cup {a}]
      PROVE  /\ applied' \in [Net -> Entry] /\ dial' \in [Net -> [Slot -> Run]]
             /\ configured' \subseteq Addr /\ configuredIn' \in [Net -> SUBSET Addr]
             /\ applied'[n].present /\ \A m \in Net \ {n} : applied'[m] = applied[m]
  <2>1. [present |-> TRUE, addrs |-> peers, complete |-> FALSE, from |-> k] \in Entry
    BY <1>2, BoundsAssumption DEF Entry, Slot
  <2>2. [state |-> "walking", superseded |-> cancelled \/ ~node, awaited |-> awaited,
         todo |-> IF cancelled \/ ~node THEN peers ELSE peers \ {a}] \in Run
    BY DEF Run
  <2>3. dial' \in [Net -> [Slot -> Run]]
    BY <1>2, <2>2
  <2>. QED BY <1>2, <2>1, <2>3
<1>. QED BY <1>1, <1>2 DEF Install

LEMMA RowUpdates ==
  ASSUME NEW r \in Rows \cup {NoRow}, r.stored
  PROVE  /\ \A b \in BOOLEAN : [r EXCEPT !.enabled = b] \in Rows
         /\ \A P \in SUBSET Addr : [r EXCEPT !.peers = P] \in Rows
<1>1. r \in Rows
  BY DEF NoRow
<1>. QED BY <1>1 DEF Rows

LEMMA AttemptUpdates ==
  ASSUME NEW r \in Attempt, NEW n \in Net, NEW S \in SUBSET Net, NEW a \in BOOLEAN, NEW b \in BOOLEAN, NEW d \in BOOLEAN
  PROVE  /\ NoStart \in Attempt
         /\ [NoStart EXCEPT !.wasRunning = a, !.stopBefore = b, !.closedBefore = d] \in Attempt
         /\ [r EXCEPT !.todo = S] \in Attempt
         /\ [r EXCEPT !.todo = @ \ {n}] \in Attempt
         /\ [r EXCEPT !.mine = @ \ {n}] \in Attempt
         /\ [r EXCEPT !.mine = @ \cup {n}] \in Attempt
BY DEF Attempt, NoStart

-----------------------------------------------------------------------------
(* Who holds what *)

\* The controllers that are past their wait for the catalog, and have not let
\* go of it, are at its head; the same for the lifecycle mutex.
CatalogHeld == \A c \in Controller :
  pc[c] \in {"loop", "joining", "undo", "undoing", "leaving", "drain", "stopLife", "stopClear", "stopEnd"}
    => Owns(c, catalog)
LifeHeld == \A c \in Controller :
  pc[c] \in {"starting", "undoClear", "undoEnd", "stopClear", "stopEnd"} => Owns(c, lifeMutex)

LEMMA InitType == Init => TypeOK /\ CatalogHeld /\ LifeHeld
<1>. SUFFICES ASSUME Init PROVE TypeOK /\ CatalogHeld /\ LifeHeld
  OBVIOUS
<1>1. NoEntry \in Entry /\ FreeRun \in Run /\ NoStart \in Attempt
  BY BoundsAssumption DEF NoEntry, Entry, FreeRun, Run, NoStart, Attempt
<1>2. /\ lock \in [Net -> Seq(Proc)] /\ catalog \in Seq(Proc) /\ lifeMutex \in Seq(Controller)
      /\ dial \in [Net -> [Slot -> Run]] /\ applied \in [Net -> Entry]
  BY <1>1 DEF Init
<1>3. /\ row \in [Net -> Rows \cup {NoRow}] /\ pc \in [Proc -> Place] /\ start \in [Controller -> Attempt]
  BY <1>1 DEF Init, Place
<1>4. TypeOK
  BY <1>2, <1>3 DEF Init, TypeOK
<1>. QED BY <1>4 DEF Init, CatalogHeld, LifeHeld, Proc

\* The types of everything a write, a reconcile or the node touches.
LEMMA TypeWrites ==
  ASSUME TypeOK, NEW w \in Writer, Submit(w) \/ Write(w)
  PROVE  TypeOK'
<1>. w \in Proc
  BY DEF Proc
<1>1. CASE Submit(w)
  BY <1>1 DEF TypeOK, Submit, wrapperVars, flagVars, lifeVars, netVars, Place
<1>2. ASSUME NEW rows \in [Net -> Rows \cup {NoRow}], NEW S, Owns(w, catalog), Commit(w, rows, S)
      PROVE  TypeOK'
  <2>1. Tail(catalog) \in Seq(Proc)
    BY <1>2, TailQueue DEF Owns, TypeOK
  <2>2. lock' \in [Net -> Seq(Proc)]
    BY <1>2, EnqueuedType DEF Commit, TypeOK
  <2>3. announced' \in [Net -> BOOLEAN]
    BY <1>2 DEF Commit, TypeOK, Forget
  <2>. QED BY <1>2, <2>1, <2>2, <2>3 DEF TypeOK, Commit, flagVars, lifeVars, netVars, Place
<1>3. CASE Write(w)
  <2>. row \in [Net -> Rows \cup {NoRow}]
    BY DEF TypeOK
  <2>1. CASE SetEnabled(w)
    <3>1. \A n \in Net, b \in BOOLEAN : row[n].stored => [row EXCEPT ![n].enabled = b] \in [Net -> Rows \cup {NoRow}]
      BY RowUpdates
    <3>. QED BY <2>1, <1>2, <3>1 DEF SetEnabled, Writing, NotFound
  <2>2. CASE Add(w)
    BY <2>2, <1>2 DEF Add, Writing, NotFound
  <2>3. CASE AddIfNotExists(w)
    BY <2>3, <1>2 DEF AddIfNotExists, Writing, Rows
  <2>4. CASE Update(w)
    BY <2>4, <1>2 DEF Update, Writing, NotFound
  <2>5. CASE UpdateBootstrapPeers(w)
    <3>1. \A n \in Net, P \in SUBSET Addr : row[n].stored => [row EXCEPT ![n].peers = P] \in [Net -> Rows \cup {NoRow}]
      BY RowUpdates
    <3>. QED BY <2>5, <1>2, <3>1 DEF UpdateBootstrapPeers, Writing, NotFound
  <2>6. CASE Delete(w)
    BY <2>6, <1>2 DEF Delete, Writing, NotFound
  <2>7. CASE Import(w)
    BY <2>7, <1>2 DEF Import, Writing
  <2>8. CASE Replace(w)
    BY <2>8, <1>2 DEF Replace, Writing
  <2>. QED BY <1>3, <2>1, <2>2, <2>3, <2>4, <2>5, <2>6, <2>7, <2>8 DEF Write
<1>. QED BY <1>1, <1>3

\* The end of a turn on a lock.
LEMMA ReleaseType ==
  ASSUME TypeOK, NEW w \in Writer, NEW n \in Net, Owns(w, lock[n]), Release(w, n)
  PROVE  /\ lock' \in [Net -> Seq(Proc)] /\ catalog' \in Seq(Proc)
         /\ phase' \in [Net -> {"queued", "dialing", "leaving"}] /\ pc' \in [Proc -> Place]
<1>1. Tail(lock[n]) \in Seq(Proc)
  BY TailQueue DEF TypeOK, Owns
<1>. QED BY <1>1 DEF TypeOK, Release, Place, Proc

LEMMA EntryUpdates ==
  ASSUME TypeOK, NEW n \in Net, NEW k \in Slot
  PROVE  /\ NoEntry \in Entry /\ FreeRun \in Run
         /\ Finished(n, k) \in Entry
         /\ Finished(n, k).present = applied[n].present
<1>1. applied[n] \in Entry
  BY DEF TypeOK
<1>2. NoEntry \in Entry /\ FreeRun \in Run
  BY BoundsAssumption DEF NoEntry, Entry, FreeRun, Run
<1>3. ASSUME NEW e \in Entry, NEW b \in BOOLEAN
      PROVE  [e EXCEPT !.complete = b, !.from = 0] \in Entry /\ [e EXCEPT !.complete = b, !.from = 0].present = e.present
  <2>1. 0 \in 0..MaxDials
    BY BoundsAssumption
  <2>. QED BY <2>1 DEF Entry
<1>4. applied[n].complete \in BOOLEAN
  BY <1>1 DEF Entry
<1>. QED BY <1>1, <1>2, <1>3, <1>4 DEF Finished

LEMMA LeaveTopicType ==
  ASSUME TypeOK, NEW n \in Net, LeaveTopic(n)
  PROVE  /\ topics' \subseteq Net /\ joined' \subseteq Net /\ applied' \in [Net -> Entry]
         /\ configured' \subseteq Addr /\ configuredIn' \in [Net -> SUBSET Addr]
         /\ dial' \in [Net -> [Slot -> Run]] /\ cancelled' \in BOOLEAN
<1>1. NoEntry \in Entry
  BY BoundsAssumption DEF NoEntry, Entry
<1>2. Superseded(n) \in [Net -> [Slot -> Run]]
  BY SupersededType DEF TypeOK
<1>. QED BY <1>1, <1>2 DEF TypeOK, LeaveTopic, Unconfigure

\* A lishnet's row is a row.
LEMMA RowPeers ==
  ASSUME TypeOK, NEW n \in Net
  PROVE  row[n].peers \in SUBSET Addr /\ row[n].enabled \in BOOLEAN /\ row[n].stored \in BOOLEAN
<1>1. row[n] \in Rows \/ row[n] = NoRow
  BY DEF TypeOK
<1>2. CASE row[n] \in Rows
  BY <1>2 DEF Rows
<1>3. CASE row[n] = NoRow
  BY <1>3 DEF NoRow
<1>. QED BY <1>1, <1>2, <1>3

LEMMA TypeReconcile ==
  ASSUME TypeOK, NEW w \in Writer, NEW n \in Net, Reconcile(w, n)
  PROVE  TypeOK'
<1>. USE DEF flagVars, lifeVars, netVars
<1>1. Owns(w, lock[n])
  BY DEF Reconcile, ReconcileSettled, JoinRefused, JoinThrows, Join, Joined, Leave, LeaveThrows, Left, Turn
<1>2. CASE ReconcileSettled(w, n)
  <2>1. /\ joined' \subseteq Net /\ topics' \subseteq Net /\ cancelled' \in BOOLEAN
        /\ applied' \in [Net -> Entry] /\ dial' \in [Net -> [Slot -> Run]]
        /\ configured' \subseteq Addr /\ configuredIn' \in [Net -> SUBSET Addr]
    <3>1. CASE SyncBootstrap(n)
      <4>1. Superseded(n) \in [Net -> [Slot -> Run]] /\ row[n].peers \in SUBSET Addr
        BY SupersededType, RowPeers DEF TypeOK
      <4>. DEFINE gone == (applied[n].addrs \ row[n].peers) \ ConfiguredElsewhere(n)
      <4>2. /\ configured \ gone \in SUBSET Addr
            /\ [m \in Net |-> IF m = n THEN row[n].peers ELSE configuredIn[m] \ gone] \in [Net -> SUBSET Addr]
        BY <4>1 DEF TypeOK
      <4>3. Install(n, row[n].peers, FALSE, Superseded(n), configured \ gone,
                    [m \in Net |-> IF m = n THEN row[n].peers ELSE configuredIn[m] \ gone])
        BY <3>1 DEF SyncBootstrap
      <4>. HIDE DEF gone
      <4>4. /\ applied' \in [Net -> Entry] /\ dial' \in [Net -> [Slot -> Run]]
            /\ configured' \subseteq Addr /\ configuredIn' \in [Net -> SUBSET Addr]
        BY <4>1, <4>2, <4>3, InstallType DEF TypeOK
      <4>. QED BY <3>1, <4>4 DEF SyncBootstrap, TypeOK
    <3>2. CASE UNCHANGED <<joined, applied, netVars>>
      BY <3>2 DEF TypeOK
    <3>. QED BY <1>2, <3>1, <3>2 DEF ReconcileSettled
  <2>2. Release(w, n) /\ announced' \in [Net -> BOOLEAN]
    BY <1>2 DEF ReconcileSettled, Settle, TypeOK
  <2>. QED BY <1>1, <1>2, <2>1, <2>2, ReleaseType DEF ReconcileSettled, TypeOK
<1>3. CASE JoinRefused(w, n)
  <2>1. Release(w, n) /\ announced' \in [Net -> BOOLEAN]
    BY <1>3 DEF JoinRefused, Settle, TypeOK
  <2>. QED BY <1>1, <1>3, <2>1, ReleaseType DEF JoinRefused, TypeOK
<1>4. CASE JoinThrows(w, n)
  <2>1. Release(w, n) /\ announced' \in [Net -> BOOLEAN]
    BY <1>4 DEF JoinThrows, Abandon, Forget, TypeOK
  <2>. QED BY <1>1, <1>4, <2>1, ReleaseType DEF JoinThrows, TypeOK
<1>5. CASE Join(w, n)
  <2>1. /\ applied' \in [Net -> Entry] /\ dial' \in [Net -> [Slot -> Run]]
        /\ configured' \subseteq Addr /\ configuredIn' \in [Net -> SUBSET Addr]
    BY <1>5, RowPeers, InstallType DEF TypeOK, Join
  <2>2. joined' \subseteq Net /\ topics' \subseteq Net
    BY <1>5 DEF TypeOK, Join
  <2>3. CASE row[n].peers = {}
    <3>1. Release(w, n) /\ announced' \in [Net -> BOOLEAN]
      <4>1. Settle(w, n, joined')
        BY <1>5, <2>3 DEF Join
      <4>. QED BY <4>1 DEF Settle, TypeOK
    <3>. QED BY <1>1, <1>5, <2>1, <2>2, <3>1, ReleaseType DEF Join, TypeOK
  <2>4. CASE row[n].peers # {}
    BY <1>5, <2>1, <2>2, <2>4 DEF Join, TypeOK
  <2>. QED BY <2>3, <2>4
<1>6. CASE Joined(w, n)
  <2>1. PICK k \in Slot :
          /\ dial' = [dial EXCEPT ![n][k] = FreeRun]
          /\ IF IsRunning
               THEN applied' = [applied EXCEPT ![n] = Finished(n, k)] /\ UNCHANGED joined
               ELSE applied' = [applied EXCEPT ![n] = NoEntry] /\ joined' = joined \ {n}
    BY <1>6 DEF Joined
  <2>2. applied' \in [Net -> Entry] /\ joined' \subseteq Net
    BY <2>1, EntryUpdates DEF TypeOK
  <2>3. dial' \in [Net -> [Slot -> Run]]
    BY <2>1, EntryUpdates DEF TypeOK
  <2>4. Release(w, n) /\ announced' \in [Net -> BOOLEAN]
    BY <1>6 DEF Joined, Settle, TypeOK
  <2>. QED BY <1>1, <1>6, <2>2, <2>3, <2>4, ReleaseType DEF Joined, TypeOK
<1>7. CASE Leave(w, n)
  <2>1. LeaveTopic(n)
    BY <1>7 DEF Leave
  <2>. QED BY <1>7, <2>1, LeaveTopicType DEF Leave, TypeOK
<1>8. CASE LeaveThrows(w, n)
  <2>1. Release(w, n) /\ announced' \in [Net -> BOOLEAN]
    BY <1>8 DEF LeaveThrows, Abandon, Forget, TypeOK
  <2>. QED BY <1>1, <1>8, <2>1, ReleaseType DEF LeaveThrows, TypeOK
<1>9. CASE Left(w, n)
  <2>1. Release(w, n) /\ announced' \in [Net -> BOOLEAN]
    BY <1>9 DEF Left, Settle, TypeOK
  <2>. QED BY <1>1, <1>9, <2>1, ReleaseType DEF Left, TypeOK
<1>. QED BY <1>2, <1>3, <1>4, <1>5, <1>6, <1>7, <1>8, <1>9 DEF Reconcile

\* Whoever is past its wait can take its queue down by one.
LEMMA HeldTails ==
  ASSUME TypeOK, CatalogHeld, LifeHeld, NEW c \in Controller
  PROVE  /\ c \in Proc
         /\ Append(catalog, c) \in Seq(Proc) /\ Append(lifeMutex, c) \in Seq(Controller)
         /\ pc[c] \in {"loop", "joining", "undo", "undoing", "leaving", "drain", "stopLife", "stopClear", "stopEnd"}
              => Tail(catalog) \in Seq(Proc)
         /\ pc[c] \in {"starting", "undoClear", "undoEnd", "stopClear", "stopEnd"}
              => Tail(lifeMutex) \in Seq(Controller)
         /\ Owns(c, catalog) => Tail(catalog) \in Seq(Proc)
         /\ Owns(c, lifeMutex) => Tail(lifeMutex) \in Seq(Controller)
         /\ \A n \in Net : Append(lock[n], c) \in Seq(Proc)
         /\ \A n \in Net : Owns(c, lock[n]) => Tail(lock[n]) \in Seq(Proc)
<1>. c \in Proc
  BY DEF Proc
<1>1. \A q \in Seq(Proc) : Append(q, c) \in Seq(Proc) /\ (Owns(c, q) => Tail(q) \in Seq(Proc))
  BY AppendQueue, TailQueue DEF Owns
<1>2. \A q \in Seq(Controller) : Append(q, c) \in Seq(Controller) /\ (Owns(c, q) => Tail(q) \in Seq(Controller))
  BY AppendQueue, TailQueue DEF Owns
<1>3. catalog \in Seq(Proc) /\ lifeMutex \in Seq(Controller) /\ \A n \in Net : lock[n] \in Seq(Proc)
  BY DEF TypeOK
<1>. QED BY <1>1, <1>2, <1>3 DEF CatalogHeld, LifeHeld

\* Types across the steps that only move the two mutexes, the lifecycle of the
\* node and what the wrapper remembers.
LEMMA TypeNode ==
  ASSUME TypeOK, CatalogHeld, LifeHeld, NEW c \in Controller,
         \/ StartCall(c) \/ StopCall(c) \/ StartRefused(c) \/ NodeStart(c) \/ NodeStarted(c) \/ NodeStartFailed(c)
         \/ StartJoining(c) \/ StartOvertaken(c) \/ StartFailed(c)
         \/ UndoStop(c) \/ UndoClear(c) \/ UndoEnd(c)
         \/ StopClose(c) \/ StopDrained(c) \/ StopNode(c) \/ StopClear(c) \/ StopEnd(c)
  PROVE  TypeOK'
<1>. USE HeldTails DEF wrapperVars, flagVars, lifeVars, netVars
<1>0. /\ start[c] \in Attempt /\ NoStart \in Attempt /\ AllSuperseded \in [Net -> [Slot -> Run]]
      /\ NoEntry \in Entry /\ IsRunning \in BOOLEAN
  BY SupersededType, BoundsAssumption DEF TypeOK, NoStart, Attempt, NoEntry, Entry, IsRunning
<1>1. CASE StartCall(c)
  <2>1. start' \in [Controller -> Attempt]
    BY <1>0, <1>1 DEF StartCall, TypeOK, Attempt, NoStart
  <2>. QED BY <1>1, <2>1 DEF StartCall, TypeOK, Place
<1>2. CASE StopCall(c)
  BY <1>2 DEF StopCall, TypeOK, Place
<1>3. CASE StartRefused(c)
  BY <1>3 DEF StartRefused, TypeOK, Place
<1>4. CASE NodeStart(c)
  BY <1>4 DEF NodeStart, TypeOK, Place
<1>5. CASE NodeStarted(c)
  BY <1>5 DEF NodeStarted, TypeOK, Place
<1>6. CASE NodeStartFailed(c)
  BY <1>0, <1>6 DEF NodeStartFailed, TornDown, StoreStuck, TypeOK, Place
<1>7. CASE StartJoining(c)
  <2>1. [start[c] EXCEPT !.todo = {n \in Net : row[n].stored /\ row[n].enabled}] \in Attempt
    BY <1>0 DEF Attempt
  <2>2. start' \in [Controller -> Attempt]
    BY <1>7, <2>1 DEF StartJoining, TypeOK
  <2>. QED BY <1>7, <2>2 DEF StartJoining, TypeOK, Place
<1>8. CASE StartOvertaken(c)
  BY <1>0, <1>8 DEF StartOvertaken, TypeOK, Place
<1>9. CASE StartFailed(c)
  <2>1. start' \in [Controller -> Attempt]
    BY <1>0, <1>9 DEF StartFailed, TypeOK
  <2>2. joined' \subseteq Net /\ announced' \in [Net -> BOOLEAN] /\ applied' \in [Net -> Entry]
    BY <1>0, <1>9 DEF StartFailed, TypeOK, ForgetMembership
  <2>3. pc' \in [Proc -> Place] /\ lifeMutex' \in Seq(Controller) /\ stopRequested' \in BOOLEAN /\ admissionClosed' \in BOOLEAN
    BY <1>9 DEF StartFailed, TypeOK, Place
  <2>. QED BY <1>9, <2>1, <2>2, <2>3 DEF StartFailed, TypeOK
<1>10. CASE UndoStop(c) \/ StopNode(c)
  BY <1>0, <1>10 DEF UndoStop, StopNode, NodeStop, TypeOK, Place
<1>11. CASE UndoClear(c) \/ StopClear(c)
  <2>1. pc' \in [Proc -> Place]
    BY <1>11 DEF UndoClear, StopClear, NodeClear, TypeOK, Place
  <2>. QED BY <1>11, <2>1 DEF UndoClear, StopClear, NodeClear, TypeOK
<1>12. CASE UndoEnd(c) \/ StopEnd(c)
  <2>1. joined' \subseteq Net /\ announced' \in [Net -> BOOLEAN] /\ applied' \in [Net -> Entry]
    BY <1>0, <1>12 DEF UndoEnd, StopEnd, TypeOK, ForgetMembership
  <2>2. /\ lifecycle' \in {"stopped", "starting", "running", "stopping", "failed"}
        /\ node' \in BOOLEAN /\ terminal' \in BOOLEAN /\ topics' \subseteq Net
    BY <1>12 DEF UndoEnd, StopEnd, TypeOK, TornDown, NodeStuck, StoreStuck
  <2>3. pc' \in [Proc -> Place] /\ lifeMutex' \in Seq(Controller) /\ catalog' \in Seq(Proc)
    BY <1>12 DEF UndoEnd, StopEnd, TypeOK, Place
  <2>. QED BY <1>12, <2>1, <2>2, <2>3 DEF UndoEnd, StopEnd, TypeOK
<1>13. CASE StopClose(c)
  BY <1>0, <1>13 DEF StopClose, TypeOK, Place
<1>14. CASE StopDrained(c)
  BY <1>14 DEF StopDrained, TypeOK, Place
<1>. QED BY <1>1, <1>2, <1>3, <1>4, <1>5, <1>6, <1>7, <1>8, <1>9, <1>10, <1>11, <1>12, <1>13, <1>14

\* Types across the loop of a start over the lishnets, and its rollback.
LEMMA TypeLoop ==
  ASSUME TypeOK, CatalogHeld, LifeHeld, NEW c \in Controller,
         \/ StartNext(c) \/ StartUndo(c)
         \/ \E n \in Net : \/ StartSkip(c, n) \/ StartJoin(c, n) \/ StartThrows(c, n)
                           \/ StartUnjoin(c, n) \/ StartUnjoinThrows(c, n) \/ StartUnjoined(c, n)
  PROVE  TypeOK'
<1>. USE HeldTails DEF wrapperVars, flagVars, lifeVars, netVars
<1>0. /\ start[c] \in Attempt /\ start[c].todo \subseteq Net /\ start[c].mine \subseteq Net
      /\ start[c].stopBefore \in BOOLEAN /\ start[c].closedBefore \in BOOLEAN /\ NoStart \in Attempt
      /\ \A n \in Net : /\ [start[c] EXCEPT !.todo = @ \ {n}] \in Attempt
                        /\ [start[c] EXCEPT !.mine = @ \ {n}] \in Attempt
                        /\ [start[c] EXCEPT !.mine = @ \cup {n}] \in Attempt
      /\ [start[c] EXCEPT !.todo = {}] \in Attempt
  <2>1. start[c] \in Attempt
    BY DEF TypeOK
  <2>. QED BY <2>1 DEF Attempt, NoStart
<1>1. CASE StartNext(c)
  <2>1. CASE start[c].todo = {} /\ catalog' = Tail(catalog) /\ pc' = [pc EXCEPT ![c] = "idle"]
             /\ start' = [start EXCEPT ![c] = NoStart] /\ UNCHANGED lock
    BY <1>0, <1>1, <2>1 DEF StartNext, TypeOK, Place
  <2>2. ASSUME NEW n \in Net, lock' = [lock EXCEPT ![n] = Append(@, c)],
               start' = [start EXCEPT ![c].todo = @ \ {n}], pc' = [pc EXCEPT ![c] = "joining"], UNCHANGED catalog
        PROVE  TypeOK'
    BY <1>0, <1>1, <2>2 DEF StartNext, TypeOK, Place
  <2>. QED BY <1>0, <1>1, <2>1, <2>2 DEF StartNext
<1>2. CASE StartUndo(c)
  <2>1. CASE /\ start[c].mine = {}
             /\ IF start[c].wasRunning /\ ~stopRequested
                  THEN stopRequested' = start[c].stopBefore /\ admissionClosed' = start[c].closedBefore
                  ELSE UNCHANGED flagVars
             /\ catalog' = Tail(catalog) /\ pc' = [pc EXCEPT ![c] = "failed"] /\ UNCHANGED <<lock, start>>
    BY <1>0, <1>2, <2>1 DEF StartUndo, TypeOK, Place
  <2>2. ASSUME NEW n \in Net, lock' = [lock EXCEPT ![n] = Append(@, c)],
               start' = [start EXCEPT ![c].mine = @ \ {n}], pc' = [pc EXCEPT ![c] = "undoing"], UNCHANGED <<catalog, flagVars>>
        PROVE  TypeOK'
    BY <1>0, <1>2, <2>2 DEF StartUndo, TypeOK, Place
  <2>. QED BY <1>0, <1>2, <2>1, <2>2 DEF StartUndo
<1>3. ASSUME NEW n \in Net, StartSkip(c, n) PROVE TypeOK'
  BY <1>3 DEF StartSkip, StartLock, ToLoop, TypeOK, Place
<1>4. ASSUME NEW n \in Net, StartJoin(c, n) PROVE TypeOK'
  <2>1. /\ applied' \in [Net -> Entry] /\ dial' \in [Net -> [Slot -> Run]]
        /\ configured' \subseteq Addr /\ configuredIn' \in [Net -> SUBSET Addr]
    BY <1>4, RowPeers, InstallType DEF TypeOK, StartJoin
  <2>2. joined' \subseteq Net /\ topics' \subseteq Net /\ announced' \in [Net -> BOOLEAN] /\ start' \in [Controller -> Attempt]
    BY <1>0, <1>4 DEF StartJoin, TypeOK
  <2>3. lock' \in [Net -> Seq(Proc)] /\ pc' \in [Proc -> Place] /\ UNCHANGED <<catalog, phase>>
    BY <1>4 DEF StartJoin, StartLock, ToLoop, TypeOK, Place
  <2>. QED BY <1>4, <2>1, <2>2, <2>3 DEF StartJoin, TypeOK
<1>5. ASSUME NEW n \in Net, StartThrows(c, n) PROVE TypeOK'
  BY <1>0, <1>5 DEF StartThrows, StartLock, ToLoop, TypeOK, Place
<1>6. ASSUME NEW n \in Net, StartUnjoin(c, n) PROVE TypeOK'
  <2>1. /\ topics' \subseteq Net /\ joined' \subseteq Net /\ applied' \in [Net -> Entry]
        /\ configured' \subseteq Addr /\ configuredIn' \in [Net -> SUBSET Addr]
        /\ dial' \in [Net -> [Slot -> Run]] /\ cancelled' \in BOOLEAN
    BY <1>6, LeaveTopicType DEF StartUnjoin, TypeOK
  <2>. QED BY <1>6, <2>1 DEF StartUnjoin, TypeOK, Place
<1>7. ASSUME NEW n \in Net, StartUnjoinThrows(c, n) PROVE TypeOK'
  BY <1>7 DEF StartUnjoinThrows, StartLock, ToLoop, TypeOK, Place
<1>8. ASSUME NEW n \in Net, StartUnjoined(c, n) PROVE TypeOK'
  BY <1>8 DEF StartUnjoined, StartLock, ToLoop, TypeOK, Place
<1>. QED BY <1>1, <1>2, <1>3, <1>4, <1>5, <1>6, <1>7, <1>8

LEMMA TypeDialing ==
  ASSUME TypeOK, NEW n \in Net, NEW k \in Slot, Dialing(n, k)
  PROVE  TypeOK'
<1>. USE DEF wrapperVars, flagVars, clientVars, lifeVars
<1>0. /\ dial[n][k] \in Run /\ FreeRun \in Run
      /\ dial[n][k].todo \subseteq Addr /\ dial[n][k].awaited \in BOOLEAN
  <2>1. dial[n][k] \in Run
    BY DEF TypeOK
  <2>. QED BY <2>1 DEF Run, FreeRun
<1>1. CASE DialNext(n, k)
  <2>1. PICK a \in dial[n][k].todo : dial' = [dial EXCEPT ![n][k].todo = @ \ {a}]
    BY <1>1 DEF DialNext
  <2>2. [dial[n][k] EXCEPT !.todo = @ \ {a}] \in Run
    BY <1>0 DEF Run
  <2>3. dial' \in [Net -> [Slot -> Run]]
    BY <2>1, <2>2 DEF TypeOK
  <2>. QED BY <1>0, <1>1, <2>3 DEF DialNext, TypeOK
<1>2. CASE DialEnd(n, k)
  <2>1. PICK result \in {"completed", "incomplete"} :
          dial' = [dial EXCEPT ![n][k] = [FreeRun EXCEPT !.state = result, !.awaited = dial[n][k].awaited]]
    BY <1>2 DEF DialEnd
  <2>2. [FreeRun EXCEPT !.state = result, !.awaited = dial[n][k].awaited] \in Run
    BY <1>0 DEF Run, FreeRun
  <2>3. dial' \in [Net -> [Slot -> Run]]
    BY <2>1, <2>2 DEF TypeOK
  <2>. QED BY <1>2, <2>3 DEF DialEnd, TypeOK
<1>3. CASE DialReported(n, k)
  BY <1>3, EntryUpdates DEF DialReported, TypeOK
<1>. QED BY <1>1, <1>2, <1>3 DEF Dialing

\* A writer moves no controller, and takes the catalog's head only off its own turn.
LEMMA WriterSteps ==
  ASSUME TypeOK, CatalogHeld, LifeHeld, NEW w \in Writer,
         Submit(w) \/ Write(w) \/ \E n \in Net : Reconcile(w, n)
  PROVE  /\ \A c \in Controller : pc'[c] = pc[c]
         /\ \A c \in Controller : Owns(c, catalog) => Owns(c, catalog')
         /\ lifeMutex' = lifeMutex
<1>. USE DEF flagVars, lifeVars, netVars
<1>0. catalog \in Seq(Proc) /\ w \in Proc /\ w \notin Controller /\ pc \in [Proc -> Place]
      /\ \A c \in Controller : c \in Proc /\ c # w
  BY ClientsAssumption DEF TypeOK, Proc
<1>1. CASE Submit(w)
  BY <1>0, <1>1, AppendQueue DEF Submit
<1>2. ASSUME NEW rows, NEW S, Owns(w, catalog), Commit(w, rows, S)
      PROVE  /\ \A c \in Controller : pc'[c] = pc[c]
             /\ \A c \in Controller : Owns(c, catalog) => Owns(c, catalog')
             /\ lifeMutex' = lifeMutex
  <2>1. \A c \in Controller : ~Owns(c, catalog)
    BY <1>0, <1>2, OwnsQueue
  <2>. QED BY <1>0, <1>2, <2>1 DEF Commit
<1>3. CASE Write(w)
  BY <1>2, <1>3 DEF Write, SetEnabled, Add, AddIfNotExists, Update, UpdateBootstrapPeers, Delete, Import, Replace, Writing, NotFound
<1>4. ASSUME NEW n \in Net, Reconcile(w, n)
      PROVE  (\A c \in Controller : pc'[c] = pc[c]) /\ catalog' = catalog /\ lifeMutex' = lifeMutex
  <2>1. ASSUME Release(w, n)
        PROVE  (\A c \in Controller : pc'[c] = pc[c]) /\ catalog' = catalog
    BY <1>0, <2>1 DEF Release
  <2>. QED BY <1>4, <2>1 DEF Reconcile, ReconcileSettled, JoinRefused, JoinThrows, Join, Joined, Leave, LeaveThrows, Left, Settle, Abandon
<1>. QED BY <1>1, <1>3, <1>4

\* A controller moves no other one, and lets go only of what it holds.
LEMMA ControllerSteps ==
  ASSUME TypeOK, CatalogHeld, LifeHeld, NEW c \in Controller,
         StartCall(c) \/ StopCall(c) \/ Starting(c) \/ Stopping(c)
  PROVE  /\ \A d \in Controller \ {c} : pc'[d] = pc[d]
         /\ \/ catalog' = catalog
            \/ catalog' = Append(catalog, c)
            \/ catalog' = Tail(catalog) /\ Owns(c, catalog)
         /\ \/ lifeMutex' = lifeMutex
            \/ lifeMutex' = Append(lifeMutex, c)
            \/ lifeMutex' = Tail(lifeMutex) /\ Owns(c, lifeMutex)
<1>. USE DEF wrapperVars, flagVars, clientVars, lifeVars, netVars, CatalogHeld, LifeHeld
<1>0. pc \in [Proc -> Place] /\ Controller \subseteq Proc
  BY DEF TypeOK, Proc
<1>. HIDE DEF TypeOK
<1>1. CASE StartCall(c) \/ StopCall(c)
  BY <1>0, <1>1 DEF StartCall, StopCall
<1>2. CASE StartRefused(c) \/ NodeStart(c) \/ NodeStarted(c) \/ NodeStartFailed(c)
  BY <1>0, <1>2 DEF StartRefused, NodeStart, NodeStarted, NodeStartFailed
<1>3. CASE StartJoining(c) \/ StartOvertaken(c) \/ StartNext(c) \/ StartUndo(c) \/ StartFailed(c)
  BY <1>0, <1>3 DEF StartJoining, StartOvertaken, StartNext, StartUndo, StartFailed
<1>4. ASSUME NEW n \in Net,
             \/ StartSkip(c, n) \/ StartJoin(c, n) \/ StartThrows(c, n)
             \/ StartUnjoin(c, n) \/ StartUnjoinThrows(c, n) \/ StartUnjoined(c, n)
      PROVE  (\A d \in Controller \ {c} : pc'[d] = pc[d]) /\ catalog' = catalog /\ lifeMutex' = lifeMutex
  BY <1>0, <1>4 DEF StartSkip, StartJoin, StartThrows, StartUnjoin, StartUnjoinThrows, StartUnjoined, ToLoop
<1>5. CASE UndoStop(c) \/ UndoClear(c) \/ UndoEnd(c)
  BY <1>0, <1>5 DEF UndoStop, UndoClear, UndoEnd, NodeStop, NodeClear
<1>6. CASE Stopping(c)
  BY <1>0, <1>6 DEF Stopping, StopClose, StopDrained, StopNode, StopClear, StopEnd, NodeStop, NodeClear
<1>. QED BY <1>1, <1>2, <1>3, <1>4, <1>5, <1>6 DEF Starting

\* What a controller's own step means for what it holds.
LEMMA ControllerHolds ==
  ASSUME TypeOK, CatalogHeld, LifeHeld, NEW c \in Controller,
         StartCall(c) \/ StopCall(c) \/ Starting(c) \/ Stopping(c)
  PROVE  /\ pc'[c] \in {"loop", "joining", "undo", "undoing", "leaving", "drain", "stopLife", "stopClear", "stopEnd"}
               => Owns(c, catalog) /\ catalog' \in {catalog, Append(catalog, c)}
         /\ pc'[c] \in {"starting", "undoClear", "undoEnd", "stopClear", "stopEnd"}
               => Owns(c, lifeMutex) /\ lifeMutex' \in {lifeMutex, Append(lifeMutex, c)}
<1>. USE DEF wrapperVars, flagVars, clientVars, lifeVars, netVars, CatalogHeld, LifeHeld
<1>0. pc \in [Proc -> Place] /\ c \in Proc
  BY DEF TypeOK, Proc
<1>1. CASE StartCall(c) \/ StopCall(c)
  BY <1>0, <1>1 DEF StartCall, StopCall
<1>2. CASE StartRefused(c) \/ NodeStart(c) \/ NodeStarted(c) \/ NodeStartFailed(c)
  BY <1>0, <1>2 DEF StartRefused, NodeStart, NodeStarted, NodeStartFailed
<1>3. CASE StartJoining(c) \/ StartOvertaken(c) \/ StartNext(c) \/ StartUndo(c) \/ StartFailed(c)
  BY <1>0, <1>3 DEF StartJoining, StartOvertaken, StartNext, StartUndo, StartFailed
<1>4. ASSUME NEW n \in Net,
             \/ StartSkip(c, n) \/ StartJoin(c, n) \/ StartThrows(c, n)
             \/ StartUnjoin(c, n) \/ StartUnjoinThrows(c, n) \/ StartUnjoined(c, n)
      PROVE  pc'[c] \in {"loop", "undo", "leaving"} /\ Owns(c, catalog) /\ catalog' = catalog
  BY <1>0, <1>4 DEF StartSkip, StartJoin, StartThrows, StartUnjoin, StartUnjoinThrows, StartUnjoined, ToLoop, StartLock
<1>5. CASE UndoStop(c) \/ UndoClear(c) \/ UndoEnd(c)
  BY <1>0, <1>5 DEF UndoStop, UndoClear, UndoEnd, NodeStop, NodeClear
<1>6. CASE Stopping(c)
  BY <1>0, <1>6 DEF Stopping, StopClose, StopDrained, StopNode, StopClear, StopEnd, NodeStop, NodeClear
<1>. QED BY <1>1, <1>2, <1>3, <1>4, <1>5, <1>6 DEF Starting

\* A step that is neither of a client is a step of a dial.
LEMMA NextCases ==
  ASSUME Next
  PROVE  \/ \E w \in Writer : Submit(w) \/ Write(w) \/ \E n \in Net : Reconcile(w, n)
         \/ \E c \in Controller : StartCall(c) \/ StopCall(c) \/ Starting(c) \/ Stopping(c)
         \/ \E n \in Net, k \in Slot : Dialing(n, k)
BY DEF Next

LEMMA DialingSteps ==
  ASSUME NEW n \in Net, NEW k \in Slot, Dialing(n, k)
  PROVE  UNCHANGED <<row, joined, announced, flagVars, clientVars, start, lifeVars, topics, cancelled>>
BY DEF Dialing, DialNext, DialEnd, DialReported, wrapperVars

LEMMA HeldStep == TypeOK /\ CatalogHeld /\ LifeHeld /\ [Next]_vars => CatalogHeld' /\ LifeHeld'
<1>. SUFFICES ASSUME TypeOK, CatalogHeld, LifeHeld, [Next]_vars PROVE CatalogHeld' /\ LifeHeld'
  OBVIOUS
<1>1. CASE UNCHANGED vars
  BY <1>1 DEF vars, clientVars, lifeVars, CatalogHeld, LifeHeld, Owns
<1>2. ASSUME NEW w \in Writer, Submit(w) \/ Write(w) \/ \E n \in Net : Reconcile(w, n)
      PROVE  CatalogHeld' /\ LifeHeld'
  BY <1>2, WriterSteps DEF CatalogHeld, LifeHeld
<1>3. ASSUME NEW c \in Controller, StartCall(c) \/ StopCall(c) \/ Starting(c) \/ Stopping(c)
      PROVE  CatalogHeld' /\ LifeHeld'
  <2>0. catalog \in Seq(Proc) /\ lifeMutex \in Seq(Controller) /\ Controller \subseteq Proc
    BY DEF TypeOK, Proc
  <2>1. /\ \A d \in Controller : Owns(d, catalog) => Owns(d, Append(catalog, c))
        /\ \A d \in Controller : Owns(d, lifeMutex) => Owns(d, Append(lifeMutex, c))
        /\ \A d \in Controller : Owns(c, catalog) /\ Owns(d, catalog) => d = c
        /\ \A d \in Controller : Owns(c, lifeMutex) /\ Owns(d, lifeMutex) => d = c
    BY <2>0, AppendQueue, OwnsQueue
  <2>2. ASSUME NEW d \in Controller \ {c}
        PROVE  /\ pc'[d] = pc[d]
               /\ Owns(d, catalog) => Owns(d, catalog')
               /\ Owns(d, lifeMutex) => Owns(d, lifeMutex')
    BY <1>3, <2>1, ControllerSteps
  <2>3. /\ pc'[c] \in {"loop", "joining", "undo", "undoing", "leaving", "drain", "stopLife", "stopClear", "stopEnd"}
             => Owns(c, catalog')
        /\ pc'[c] \in {"starting", "undoClear", "undoEnd", "stopClear", "stopEnd"} => Owns(c, lifeMutex')
    BY <1>3, <2>1, ControllerHolds
  <2>. QED BY <2>2, <2>3 DEF CatalogHeld, LifeHeld
<1>4. ASSUME NEW n \in Net, NEW k \in Slot, Dialing(n, k)
      PROVE  CatalogHeld' /\ LifeHeld'
  BY <1>4, DialingSteps DEF clientVars, lifeVars, CatalogHeld, LifeHeld, Owns
<1>. QED BY <1>1, <1>2, <1>3, <1>4, NextCases

LEMMA TypeStep == TypeOK /\ CatalogHeld /\ LifeHeld /\ [Next]_vars => TypeOK'
<1>. SUFFICES ASSUME TypeOK, CatalogHeld, LifeHeld, [Next]_vars PROVE TypeOK'
  OBVIOUS
<1>1. CASE UNCHANGED vars
  BY <1>1 DEF vars, wrapperVars, flagVars, clientVars, lifeVars, netVars, TypeOK
<1>2. ASSUME NEW w \in Writer, Submit(w) \/ Write(w) \/ \E n \in Net : Reconcile(w, n)
      PROVE  TypeOK'
  BY <1>2, TypeWrites, TypeReconcile
<1>3. ASSUME NEW c \in Controller, StartCall(c) \/ StopCall(c) \/ Starting(c) \/ Stopping(c)
      PROVE  TypeOK'
  BY <1>3, TypeNode, TypeLoop DEF Starting, Stopping
<1>. QED BY <1>1, <1>2, <1>3, TypeDialing, NextCases

\* The state of the lishnet layer is well formed: every queue holds clients
\* only, and a mutex is released by nobody but its owner.
THEOREM TypeCorrect == Spec => []TypeOK
<1>1. TypeOK /\ CatalogHeld /\ LifeHeld /\ [Next]_vars => (TypeOK /\ CatalogHeld /\ LifeHeld)'
  BY TypeStep, HeldStep
<1>. QED BY <1>1, InitType, PTL DEF Spec

\* A controller past its wait holds what it waited for.
LEMMA HeldAlways == Spec => [](TypeOK /\ CatalogHeld /\ LifeHeld)
<1>1. TypeOK /\ CatalogHeld /\ LifeHeld /\ [Next]_vars => (TypeOK /\ CatalogHeld /\ LifeHeld)'
  BY TypeStep, HeldStep
<1>. QED BY <1>1, InitType, PTL DEF Spec

-----------------------------------------------------------------------------
(* A baseline per membership *)

LEMMA InstallEntry ==
  ASSUME TypeOK, NEW n \in Net, NEW peers, NEW awaited, NEW runs, NEW conf, NEW confIn,
         Install(n, peers, awaited, runs, conf, confIn)
  PROVE  applied'[n].present /\ \A m \in Net \ {n} : applied'[m] = applied[m]
BY DEF Install, TypeOK

LEMMA LeaveTopicEntry ==
  ASSUME TypeOK, NEW n \in Net, LeaveTopic(n)
  PROVE  ~applied'[n].present /\ joined' = joined \ {n} /\ \A m \in Net \ {n} : applied'[m] = applied[m]
BY DEF LeaveTopic, NoEntry, TypeOK

\* A run that reports completes a baseline; it neither makes nor removes one.
LEMMA FinishedPresent ==
  ASSUME TypeOK, NEW n \in Net, NEW k \in Slot
  PROVE  Finished(n, k).present = applied[n].present
<1>1. applied[n] \in Entry
  BY DEF TypeOK
<1>. QED BY <1>1 DEF Finished, Entry

LEMMA EntryReconcile ==
  ASSUME TypeOK, EntryIffJoined, NEW w \in Writer, NEW n \in Net, Reconcile(w, n)
  PROVE  EntryIffJoined'
<1>. USE DEF EntryIffJoined, netVars
<1>1. CASE ReconcileSettled(w, n)
  <2>1. CASE SyncBootstrap(n) /\ n \in joined
    BY <2>1, InstallEntry DEF SyncBootstrap
  <2>2. CASE UNCHANGED <<joined, applied>>
    BY <2>2
  <2>. QED BY <1>1, <2>1, <2>2 DEF ReconcileSettled
<1>2. CASE Join(w, n)
  BY <1>2, InstallEntry DEF Join
<1>3. CASE Joined(w, n)
  <2>1. PICK k \in Slot :
          IF IsRunning
            THEN applied' = [applied EXCEPT ![n] = Finished(n, k)] /\ UNCHANGED joined
            ELSE applied' = [applied EXCEPT ![n] = NoEntry] /\ joined' = joined \ {n}
    BY <1>3 DEF Joined
  <2>2. CASE IsRunning
    <3>1. applied'[n].present = applied[n].present /\ \A m \in Net \ {n} : applied'[m] = applied[m]
      BY <2>1, <2>2, FinishedPresent DEF TypeOK
    <3>. QED BY <2>1, <2>2, <3>1
  <2>3. CASE ~IsRunning
    <3>1. ~applied'[n].present /\ \A m \in Net \ {n} : applied'[m] = applied[m]
      BY <2>1, <2>3 DEF TypeOK, NoEntry
    <3>. QED BY <2>1, <2>3, <3>1
  <2>. QED BY <2>2, <2>3
<1>4. CASE Leave(w, n)
  BY <1>4, LeaveTopicEntry DEF Leave
<1>5. CASE JoinRefused(w, n) \/ JoinThrows(w, n) \/ LeaveThrows(w, n) \/ Left(w, n)
  BY <1>5 DEF JoinRefused, JoinThrows, LeaveThrows, Left
<1>. QED BY <1>1, <1>2, <1>3, <1>4, <1>5 DEF Reconcile

LEMMA EntryController ==
  ASSUME TypeOK, EntryIffJoined, NEW c \in Controller,
         StartCall(c) \/ StopCall(c) \/ Starting(c) \/ Stopping(c)
  PROVE  EntryIffJoined'
<1>. USE DEF EntryIffJoined, netVars, wrapperVars
<1>1. CASE UNCHANGED <<joined, applied>>
  BY <1>1
<1>2. CASE ForgetMembership
  BY <1>2 DEF ForgetMembership, NoEntry
<1>3. ASSUME NEW n \in Net, StartJoin(c, n) PROVE EntryIffJoined'
  BY <1>3, InstallEntry DEF StartJoin
<1>4. ASSUME NEW n \in Net, StartUnjoin(c, n) PROVE EntryIffJoined'
  BY <1>1, <1>4, LeaveTopicEntry DEF StartUnjoin
<1>5. ASSUME NEW n \in Net,
             StartSkip(c, n) \/ StartThrows(c, n) \/ StartUnjoinThrows(c, n) \/ StartUnjoined(c, n)
      PROVE  UNCHANGED <<joined, applied>>
  BY <1>5 DEF StartSkip, StartThrows, StartUnjoinThrows, StartUnjoined
<1>6. CASE \/ StartCall(c) \/ StopCall(c) \/ StartRefused(c) \/ NodeStart(c) \/ NodeStarted(c) \/ NodeStartFailed(c)
           \/ StartJoining(c) \/ StartOvertaken(c) \/ StartNext(c) \/ StartUndo(c)
           \/ UndoStop(c) \/ UndoClear(c) \/ StopClose(c) \/ StopDrained(c) \/ StopNode(c) \/ StopClear(c)
  BY <1>1, <1>6 DEF StartCall, StopCall, StartRefused, NodeStart, NodeStarted, NodeStartFailed, StartJoining, StartOvertaken,
                    StartNext, StartUndo, UndoStop, UndoClear, StopClose, StopDrained, StopNode, StopClear, NodeStop, NodeClear
<1>7. CASE StartFailed(c) \/ UndoEnd(c) \/ StopEnd(c)
  BY <1>1, <1>2, <1>7 DEF StartFailed, UndoEnd, StopEnd
<1>. QED BY <1>1, <1>3, <1>4, <1>5, <1>6, <1>7 DEF Starting, Stopping

LEMMA EntryStep == TypeOK /\ EntryIffJoined /\ [Next]_vars => EntryIffJoined'
<1>. SUFFICES ASSUME TypeOK, EntryIffJoined, [Next]_vars PROVE EntryIffJoined'
  OBVIOUS
<1>1. CASE UNCHANGED vars
  BY <1>1 DEF vars, wrapperVars, EntryIffJoined
<1>2. ASSUME NEW w \in Writer, Submit(w) \/ Write(w) PROVE EntryIffJoined'
  BY <1>2 DEF Submit, Write, SetEnabled, Add, AddIfNotExists, Update, UpdateBootstrapPeers, Delete, Import, Replace,
              NotFound, Commit, wrapperVars, EntryIffJoined
<1>3. ASSUME NEW n \in Net, NEW k \in Slot, Dialing(n, k) PROVE EntryIffJoined'
  <2>1. joined' = joined
    BY <1>3, DialingSteps
  <2>2. applied' = applied \/ applied' = [applied EXCEPT ![n] = Finished(n, k)]
    BY <1>3 DEF Dialing, DialNext, DialEnd, DialReported, wrapperVars
  <2>3. CASE applied' = [applied EXCEPT ![n] = Finished(n, k)]
    <3>1. applied'[n].present = applied[n].present /\ \A m \in Net \ {n} : applied'[m] = applied[m]
      BY <2>3, FinishedPresent DEF TypeOK
    <3>. QED BY <2>1, <3>1 DEF EntryIffJoined
  <2>. QED BY <2>1, <2>2, <2>3 DEF EntryIffJoined
<1>. QED BY <1>1, <1>2, <1>3, EntryReconcile, EntryController, NextCases

\* There is a bootstrap baseline exactly while there is a membership that
\* installed it (the promise of appliedBootstrap).
THEOREM EntryHolds == Spec => []EntryIffJoined
<1>1. Init => EntryIffJoined
  BY DEF Init, EntryIffJoined, NoEntry
<1>. QED BY <1>1, EntryStep, TypeCorrect, PTL DEF Spec

-----------------------------------------------------------------------------
(* The membership the node has *)

\* A running node has the memberships the wrapper claims; a node that is not
\* there yet has none, and none is claimed; and a node that is being built is
\* being built by the one call that holds the lifecycle mutex.
NodeAgrees == /\ IsRunning => node /\ joined = topics
              /\ lifecycle \in {"stopped", "starting"} => joined = {} /\ topics = {}
BuiltByOne == \A c \in Controller : pc[c] = "starting" => lifecycle = "starting"

LEMMA NodeWrites ==
  ASSUME NodeAgrees, NEW w \in Writer, Submit(w) \/ Write(w)
  PROVE  NodeAgrees' /\ lifecycle' = lifecycle
BY DEF Submit, Write, SetEnabled, Add, AddIfNotExists, Update, UpdateBootstrapPeers, Delete, Import, Replace,
       NotFound, Commit, wrapperVars, lifeVars, netVars, NodeAgrees, IsRunning

LEMMA NodeReconcile ==
  ASSUME TypeOK, NodeAgrees, NEW w \in Writer, NEW n \in Net, Reconcile(w, n)
  PROVE  NodeAgrees' /\ lifecycle' = lifecycle
<1>. USE DEF NodeAgrees, IsRunning, lifeVars, netVars
<1>1. CASE ReconcileSettled(w, n)
  BY <1>1 DEF ReconcileSettled, SyncBootstrap
<1>2. CASE Join(w, n)
  BY <1>2 DEF Join, CanJoin
<1>3. CASE Joined(w, n)
  BY <1>3 DEF Joined
<1>4. CASE Leave(w, n)
  BY <1>4 DEF Leave, LeaveTopic
<1>5. CASE JoinRefused(w, n) \/ JoinThrows(w, n) \/ LeaveThrows(w, n) \/ Left(w, n)
  BY <1>5 DEF JoinRefused, JoinThrows, LeaveThrows, Left
<1>. QED BY <1>1, <1>2, <1>3, <1>4, <1>5 DEF Reconcile

LEMMA NodeController ==
  ASSUME TypeOK, CatalogHeld, LifeHeld, NodeAgrees, BuiltByOne, NEW c \in Controller,
         StartCall(c) \/ StopCall(c) \/ Starting(c) \/ Stopping(c)
  PROVE  /\ NodeAgrees'
         /\ pc'[c] = "starting" => lifecycle' = "starting"
         /\ lifecycle' = lifecycle \/ Owns(c, lifeMutex)
<1>. USE DEF NodeAgrees, IsRunning, lifeVars, netVars, wrapperVars
<1>0. pc \in [Proc -> Place] /\ c \in Proc
  BY DEF TypeOK, Proc
<1>. HIDE DEF TypeOK
<1>1. CASE StartCall(c) \/ StopCall(c) \/ StartRefused(c)
  BY <1>0, <1>1 DEF StartCall, StopCall, StartRefused
<1>2. CASE NodeStart(c) \/ NodeStarted(c)
  BY <1>0, <1>2 DEF NodeStart, NodeStarted, BuiltByOne, LifeHeld
<1>3. CASE NodeStartFailed(c)
  BY <1>0, <1>3 DEF NodeStartFailed, TornDown, StoreStuck, BuiltByOne, LifeHeld
<1>4. CASE StartJoining(c) \/ StartOvertaken(c) \/ StartNext(c) \/ StartUndo(c)
  BY <1>0, <1>4 DEF StartJoining, StartOvertaken, StartNext, StartUndo
<1>5. ASSUME NEW n \in Net, StartJoin(c, n)
      PROVE  NodeAgrees' /\ pc'[c] # "starting" /\ lifecycle' = lifecycle
  BY <1>0, <1>5 DEF StartJoin, StartLock, ToLoop, CanJoin
<1>6. ASSUME NEW n \in Net, StartUnjoin(c, n)
      PROVE  NodeAgrees' /\ pc'[c] # "starting" /\ lifecycle' = lifecycle
  BY <1>0, <1>6 DEF StartUnjoin, StartLock, LeaveTopic
<1>7. ASSUME NEW n \in Net,
             StartSkip(c, n) \/ StartThrows(c, n) \/ StartUnjoinThrows(c, n) \/ StartUnjoined(c, n)
      PROVE  NodeAgrees' /\ pc'[c] # "starting" /\ lifecycle' = lifecycle
  BY <1>0, <1>7 DEF StartSkip, StartThrows, StartUnjoinThrows, StartUnjoined, StartLock, ToLoop
<1>8. CASE StartFailed(c)
  BY <1>0, <1>8 DEF StartFailed, ForgetMembership
<1>9. CASE UndoStop(c) \/ UndoClear(c) \/ StopClose(c) \/ StopDrained(c) \/ StopNode(c) \/ StopClear(c)
  BY <1>0, <1>9 DEF UndoStop, UndoClear, StopClose, StopDrained, StopNode, StopClear, NodeStop, NodeClear
<1>10. CASE UndoEnd(c) \/ StopEnd(c)
  BY <1>0, <1>10 DEF UndoEnd, StopEnd, TornDown, NodeStuck, StoreStuck, ForgetMembership, LifeHeld
<1>. QED BY <1>1, <1>2, <1>3, <1>4, <1>5, <1>6, <1>7, <1>8, <1>9, <1>10 DEF Starting, Stopping

LEMMA NodeStep ==
  TypeOK /\ CatalogHeld /\ LifeHeld /\ NodeAgrees /\ BuiltByOne /\ [Next]_vars => NodeAgrees' /\ BuiltByOne'
<1>. SUFFICES ASSUME TypeOK, CatalogHeld, LifeHeld, NodeAgrees, BuiltByOne, [Next]_vars
              PROVE  NodeAgrees' /\ BuiltByOne'
  OBVIOUS
<1>1. CASE UNCHANGED vars
  BY <1>1 DEF vars, clientVars, wrapperVars, lifeVars, netVars, NodeAgrees, BuiltByOne, IsRunning
<1>2. ASSUME NEW w \in Writer, Submit(w) \/ Write(w) \/ \E n \in Net : Reconcile(w, n)
      PROVE  NodeAgrees' /\ BuiltByOne'
  <2>1. NodeAgrees' /\ lifecycle' = lifecycle
    BY <1>2, NodeWrites, NodeReconcile
  <2>. QED BY <1>2, <2>1, WriterSteps DEF BuiltByOne
<1>3. ASSUME NEW c \in Controller, StartCall(c) \/ StopCall(c) \/ Starting(c) \/ Stopping(c)
      PROVE  NodeAgrees' /\ BuiltByOne'
  <2>1. /\ NodeAgrees'
        /\ pc'[c] = "starting" => lifecycle' = "starting"
        /\ lifecycle' = lifecycle \/ Owns(c, lifeMutex)
    BY <1>3, NodeController
  <2>2. ASSUME NEW d \in Controller \ {c}, pc'[d] = "starting" PROVE lifecycle' = "starting"
    <3>1. pc[d] = "starting"
      BY <1>3, <2>2, ControllerSteps
    <3>2. Owns(d, lifeMutex) /\ lifecycle = "starting"
      BY <3>1 DEF LifeHeld, BuiltByOne
    <3>. QED BY <2>1, <3>2 DEF Owns
  <2>. QED BY <2>1, <2>2 DEF BuiltByOne
<1>4. ASSUME NEW n \in Net, NEW k \in Slot, Dialing(n, k)
      PROVE  NodeAgrees' /\ BuiltByOne'
  BY <1>4, DialingSteps DEF clientVars, lifeVars, NodeAgrees, BuiltByOne, IsRunning
<1>. QED BY <1>1, <1>2, <1>3, <1>4, NextCases

\* On a running node the wrapper's memberships and the node's subscriptions
\* are the same set, across failed starts, rollbacks, refused and overtaken
\* stops (joinedNetworks is the layer's only memory of them).
THEOREM MembershipAgrees == Spec => []JoinedIsSubscribed
<1>1. Init => NodeAgrees /\ BuiltByOne
  BY DEF Init, NodeAgrees, BuiltByOne, IsRunning, Proc
<1>2. NodeAgrees => JoinedIsSubscribed
  BY DEF NodeAgrees, JoinedIsSubscribed
<1>. QED BY <1>1, <1>2, NodeStep, HeldAlways, PTL DEF Spec

-----------------------------------------------------------------------------
(* Who waits on the lock of a lishnet *)

\* A controller waits for a lock only inside its catalog section, and in one
\* place only.
AtLock == {"joining", "undoing", "leaving"}
Waits(c, n, i) == i \in 1..Len(lock[n]) /\ lock[n][i] = c
LocksInside == \A c \in Controller, n \in Net, i \in Nat : Waits(c, n, i) => pc[c] \in AtLock
OnePlace == \A c \in Controller, m, n \in Net, i, j \in Nat :
              Waits(c, m, i) /\ Waits(c, n, j) => m = n /\ i = j

\* A stop that has drained found no reservation, and none was made since.
Drained == \A c \in Controller : pc[c] \in {"stopLife", "stopClear", "stopEnd"} => \A n \in Net : Reserved(n) = {}

LEMMA WriterLocks ==
  ASSUME TypeOK, NEW w \in Writer,
         Submit(w) \/ Write(w) \/ \E n \in Net : Reconcile(w, n)
  PROVE  /\ \A m \in Net : \/ lock'[m] = lock[m]
                           \/ lock[m] # <<>> /\ lock'[m] = Tail(lock[m])
                           \/ lock'[m] = Append(lock[m], w)
         /\ \/ Owns(w, catalog)
            \/ \A m \in Net : lock'[m] = lock[m] \/ (lock[m] # <<>> /\ lock'[m] = Tail(lock[m]))
<1>. USE DEF flagVars, lifeVars, netVars
<1>0. lock \in [Net -> Seq(Proc)]
  BY DEF TypeOK
<1>. HIDE DEF TypeOK
<1>1. CASE Submit(w)
  BY <1>1 DEF Submit
<1>2. ASSUME NEW rows, NEW S, Owns(w, catalog), Commit(w, rows, S)
      PROVE  \A m \in Net : lock'[m] = lock[m] \/ lock'[m] = Append(lock[m], w)
  BY <1>0, <1>2 DEF Commit, Enqueued
<1>3. ASSUME Write(w)
      PROVE  Owns(w, catalog) /\ \A m \in Net : lock'[m] = lock[m] \/ lock'[m] = Append(lock[m], w)
  <2>1. \E rows, S : Owns(w, catalog) /\ Commit(w, rows, S)
    BY <1>3 DEF Write, SetEnabled, Add, AddIfNotExists, Update, UpdateBootstrapPeers, Delete, Import, Replace,
                NotFound, Writing
  <2>. QED BY <1>2, <2>1
<1>4. ASSUME NEW n \in Net, Reconcile(w, n)
      PROVE  \A m \in Net : lock'[m] = lock[m] \/ (lock[m] # <<>> /\ lock'[m] = Tail(lock[m]))
  <2>1. \/ lock' = lock
        \/ lock[n] # <<>> /\ lock' = [lock EXCEPT ![n] = Tail(@)]
    BY <1>4 DEF Reconcile, ReconcileSettled, JoinRefused, JoinThrows, Join, Joined, Leave, LeaveThrows, Left,
                Settle, Abandon, Release, Turn, Owns
  <2>. QED BY <1>0, <2>1
<1>. QED BY <1>1, <1>3, <1>4

LEMMA ControllerLocks ==
  ASSUME TypeOK, NEW c \in Controller,
         StartCall(c) \/ StopCall(c) \/ Starting(c) \/ Stopping(c)
  PROVE  \/ lock' = lock /\ (pc[c] \in AtLock => pc'[c] \in AtLock)
         \/ /\ pc[c] \notin AtLock /\ pc'[c] \in AtLock
            /\ \E n \in Net : lock' = [lock EXCEPT ![n] = Append(@, c)]
         \/ /\ pc'[c] \notin AtLock
            /\ \E n \in Net : Owns(c, lock[n]) /\ lock' = [lock EXCEPT ![n] = Tail(@)]
<1>. USE DEF wrapperVars, flagVars, clientVars, lifeVars, netVars, AtLock
<1>0. pc \in [Proc -> Place] /\ c \in Proc
  BY DEF TypeOK, Proc
<1>00. start[c].todo \subseteq Net /\ start[c].mine \subseteq Net
  <2>1. start[c] \in Attempt
    BY DEF TypeOK
  <2>. QED BY <2>1 DEF Attempt
<1>. HIDE DEF TypeOK
<1>1. CASE StartCall(c) \/ StopCall(c) \/ StartRefused(c) \/ NodeStart(c) \/ NodeStarted(c) \/ NodeStartFailed(c)
  BY <1>0, <1>1 DEF StartCall, StopCall, StartRefused, NodeStart, NodeStarted, NodeStartFailed
<1>2. CASE StartJoining(c) \/ StartOvertaken(c)
  BY <1>0, <1>2 DEF StartJoining, StartOvertaken
<1>9. ASSUME StartNext(c) \/ StartUndo(c), lock' # lock
      PROVE  /\ pc[c] \notin AtLock /\ pc'[c] \in AtLock
             /\ \E n \in Net : lock' = [lock EXCEPT ![n] = Append(@, c)]
  <2>1. CASE StartNext(c)
    <3>1. PICK n \in Net : lock' = [lock EXCEPT ![n] = Append(@, c)] /\ pc' = [pc EXCEPT ![c] = "joining"]
      BY <1>00, <1>9, <2>1 DEF StartNext
    <3>. QED BY <1>0, <2>1, <3>1 DEF StartNext
  <2>2. CASE StartUndo(c)
    <3>1. PICK n \in Net : lock' = [lock EXCEPT ![n] = Append(@, c)] /\ pc' = [pc EXCEPT ![c] = "undoing"]
      BY <1>00, <1>9, <2>2 DEF StartUndo
    <3>. QED BY <1>0, <2>2, <3>1 DEF StartUndo
  <2>. QED BY <1>9, <2>1, <2>2
<1>10. ASSUME StartNext(c) \/ StartUndo(c), lock' = lock
       PROVE  pc[c] \notin AtLock
  BY <1>10 DEF StartNext, StartUndo
<1>3. ASSUME NEW n \in Net,
             \/ StartSkip(c, n) \/ StartJoin(c, n) \/ StartThrows(c, n)
             \/ StartUnjoinThrows(c, n) \/ StartUnjoined(c, n)
      PROVE  pc'[c] \notin AtLock /\ Owns(c, lock[n]) /\ lock' = [lock EXCEPT ![n] = Tail(@)]
  BY <1>0, <1>3 DEF StartSkip, StartJoin, StartThrows, StartUnjoinThrows, StartUnjoined, StartLock, ToLoop
<1>4. ASSUME NEW n \in Net, StartUnjoin(c, n)
      PROVE  lock' = lock /\ pc'[c] \in AtLock
  BY <1>0, <1>4 DEF StartUnjoin
<1>5. CASE StartFailed(c) \/ UndoStop(c) \/ UndoClear(c) \/ UndoEnd(c)
  BY <1>0, <1>5 DEF StartFailed, UndoStop, UndoClear, UndoEnd, NodeStop, NodeClear
<1>6. CASE StopClose(c) \/ StopDrained(c) \/ StopNode(c) \/ StopClear(c) \/ StopEnd(c)
  BY <1>0, <1>6 DEF StopClose, StopDrained, StopNode, StopClear, StopEnd, NodeStop, NodeClear
<1>. HIDE DEF AtLock
<1>. QED BY <1>1, <1>2, <1>3, <1>4, <1>5, <1>6, <1>9, <1>10 DEF Starting, Stopping

\* Where one finds somebody in a queue that grew or lost its head.
LEMMA QueuePlaces ==
  ASSUME NEW S, NEW q \in Seq(S), NEW p, NEW i \in Nat
  PROVE  /\ i \in 1..Len(Append(q, p)) =>
              \/ i \in 1..Len(q) /\ Append(q, p)[i] = q[i]
              \/ i = Len(q) + 1 /\ Append(q, p)[i] = p
         /\ q # <<>> /\ i \in 1..Len(Tail(q)) => i + 1 \in 1..Len(q) /\ Tail(q)[i] = q[i + 1]
OBVIOUS

\* Nobody turns up in a queue but by joining its end, and whoever is in it
\* moves up with the others.
LEMMA WaitsBefore ==
  ASSUME TypeOK, NEW c, NEW p, NEW m \in Net,
         \/ lock'[m] = lock[m]
         \/ lock[m] # <<>> /\ lock'[m] = Tail(lock[m])
         \/ c # p /\ lock'[m] = Append(lock[m], p)
  PROVE  \E d \in {0, 1} : \A i \in Nat : Waits(c, m, i)' => Waits(c, m, i + d)
<1>1. lock[m] \in Seq(Proc)
  BY DEF TypeOK
<1>2. CASE lock'[m] = lock[m]
  <2>1. \A i \in Nat : Waits(c, m, i)' => Waits(c, m, i + 0)
    BY <1>2 DEF Waits
  <2>. QED BY <2>1
<1>3. CASE lock[m] # <<>> /\ lock'[m] = Tail(lock[m])
  <2>1. \A i \in Nat : Waits(c, m, i)' => Waits(c, m, i + 1)
    BY <1>1, <1>3, QueuePlaces DEF Waits
  <2>. QED BY <2>1
<1>4. CASE c # p /\ lock'[m] = Append(lock[m], p)
  <2>1. \A i \in Nat : Waits(c, m, i)' => Waits(c, m, i + 0)
    BY <1>1, <1>4, QueuePlaces DEF Waits
  <2>. QED BY <2>1
<1>. QED BY <1>2, <1>3, <1>4

\* A controller whose own queue entries only moved up keeps its discipline.
LEMMA WaitsKept ==
  ASSUME TypeOK, LocksInside, OnePlace, NEW c \in Controller, NEW p, c # p,
         \A m \in Net : \/ lock'[m] = lock[m]
                        \/ lock[m] # <<>> /\ lock'[m] = Tail(lock[m])
                        \/ lock'[m] = Append(lock[m], p)
  PROVE  /\ \A m \in Net, i \in Nat : Waits(c, m, i)' => pc[c] \in AtLock
         /\ \A m, n \in Net, i, j \in Nat : Waits(c, m, i)' /\ Waits(c, n, j)' => m = n /\ i = j
<1>1. \A m \in Net : \E d \in {0, 1} : \A i \in Nat : Waits(c, m, i)' => Waits(c, m, i + d)
  BY WaitsBefore
<1>2. ASSUME NEW m \in Net, NEW i \in Nat, Waits(c, m, i)' PROVE pc[c] \in AtLock
  BY <1>1, <1>2 DEF LocksInside
<1>3. ASSUME NEW m \in Net, NEW n \in Net, NEW i \in Nat, NEW j \in Nat, Waits(c, m, i)', Waits(c, n, j)'
      PROVE  m = n /\ i = j
  <2>1. PICK d \in {0, 1} : \A x \in Nat : Waits(c, m, x)' => Waits(c, m, x + d)
    BY <1>1
  <2>2. PICK e \in {0, 1} : \A x \in Nat : Waits(c, n, x)' => Waits(c, n, x + e)
    BY <1>1
  <2>3. m = n
    BY <1>3, <2>1, <2>2 DEF OnePlace
  <2>4. i + d = j + d
    BY <1>3, <2>1, <2>3 DEF OnePlace
  <2>. QED BY <2>3, <2>4
<1>. QED BY <1>2, <1>3

LEMMA PlacesStep ==
  TypeOK /\ CatalogHeld /\ LifeHeld /\ LocksInside /\ OnePlace /\ [Next]_vars => LocksInside' /\ OnePlace'
<1>. SUFFICES ASSUME TypeOK, CatalogHeld, LifeHeld, LocksInside, OnePlace, [Next]_vars
              PROVE  LocksInside' /\ OnePlace'
  OBVIOUS
<1>0. lock \in [Net -> Seq(Proc)]
  BY DEF TypeOK
<1>1. CASE UNCHANGED <<lock, pc>>
  BY <1>1 DEF LocksInside, OnePlace, Waits
<1>2. ASSUME NEW w \in Writer, Submit(w) \/ Write(w) \/ \E n \in Net : Reconcile(w, n)
      PROVE  LocksInside' /\ OnePlace'
  <2>1. \A d \in Controller : d # w /\ pc'[d] = pc[d]
    BY <1>2, WriterSteps, ClientsAssumption
  <2>2. \A m \in Net : \/ lock'[m] = lock[m]
                       \/ lock[m] # <<>> /\ lock'[m] = Tail(lock[m])
                       \/ lock'[m] = Append(lock[m], w)
    BY <1>2, WriterLocks
  <2>. QED BY <2>1, <2>2, WaitsKept DEF LocksInside, OnePlace
<1>3. ASSUME NEW c \in Controller, StartCall(c) \/ StopCall(c) \/ Starting(c) \/ Stopping(c)
      PROVE  LocksInside' /\ OnePlace'
  <2>1. CASE lock' = lock /\ (pc[c] \in AtLock => pc'[c] \in AtLock)
    BY <1>3, <2>1, ControllerSteps DEF LocksInside, OnePlace, Waits
  <2>2. ASSUME NEW n \in Net, pc[c] \notin AtLock, pc'[c] \in AtLock, lock' = [lock EXCEPT ![n] = Append(@, c)]
        PROVE  LocksInside' /\ OnePlace'
    <3>1. \A d \in Controller \ {c} :
            /\ \A m \in Net, i \in Nat : Waits(d, m, i)' => pc'[d] \in AtLock
            /\ \A m, o \in Net, i, j \in Nat : Waits(d, m, i)' /\ Waits(d, o, j)' => m = o /\ i = j
      BY <1>0, <1>3, <2>2, ControllerSteps, WaitsKept
    <3>2. \A m \in Net, i \in Nat : ~Waits(c, m, i)
      BY <2>2 DEF LocksInside
    <3>3. ASSUME NEW m \in Net, NEW i \in Nat, Waits(c, m, i)' PROVE m = n /\ i = Len(lock[n]) + 1
      BY <1>0, <2>2, <3>2, <3>3, QueuePlaces DEF Waits
    <3>. QED BY <2>2, <3>1, <3>3 DEF LocksInside, OnePlace
  <2>3. ASSUME NEW n \in Net, pc'[c] \notin AtLock, Owns(c, lock[n]), lock' = [lock EXCEPT ![n] = Tail(@)]
        PROVE  LocksInside' /\ OnePlace'
    <3>1. \A d \in Controller \ {c} :
            /\ \A m \in Net, i \in Nat : Waits(d, m, i)' => pc'[d] \in AtLock
            /\ \A m, o \in Net, i, j \in Nat : Waits(d, m, i)' /\ Waits(d, o, j)' => m = o /\ i = j
      BY <1>0, <1>3, <2>3, ControllerSteps, WaitsKept DEF Owns
    <3>2. Waits(c, n, 1) /\ lock[n] # <<>>
      BY <1>0, <2>3 DEF Waits, Owns
    <3>3. ASSUME NEW m \in Net, NEW i \in Nat, Waits(c, m, i)' PROVE FALSE
      <4>1. CASE m = n
        <5>1. Waits(c, n, i + 1)
          BY <1>0, <2>3, <3>2, <3>3, <4>1, QueuePlaces DEF Waits
        <5>2. i = 0
          BY <3>2, <5>1 DEF OnePlace
        <5>. QED BY <3>3, <5>2 DEF Waits
      <4>2. CASE m # n
        <5>1. Waits(c, m, i)
          BY <1>0, <2>3, <3>3, <4>2 DEF Waits
        <5>. QED BY <3>2, <4>2, <5>1 DEF OnePlace
      <4>. QED BY <4>1, <4>2
    <3>. QED BY <3>1, <3>3 DEF LocksInside, OnePlace
  <2>. QED BY <1>3, <2>1, <2>2, <2>3, ControllerLocks
<1>4. ASSUME NEW n \in Net, NEW k \in Slot, Dialing(n, k)
      PROVE  UNCHANGED <<lock, pc>>
  BY <1>4, DialingSteps DEF clientVars
<1>5. CASE UNCHANGED vars
  BY <1>1, <1>5 DEF vars, clientVars
<1>. QED BY <1>1, <1>2, <1>3, <1>4, <1>5, NextCases

LEMMA ReservedShrinks ==
  ASSUME TypeOK, NEW n \in Net,
         \/ lock'[n] = lock[n]
         \/ lock[n] # <<>> /\ lock'[n] = Tail(lock[n])
         \/ \E c \in Controller : lock'[n] = Append(lock[n], c)
  PROVE  Reserved(n)' \subseteq Reserved(n)
<1>1. lock[n] \in Seq(Proc) /\ Controller \subseteq Proc
  BY DEF TypeOK, Proc
<1>2. ASSUME NEW w \in Writer, Queued(w, lock'[n]) PROVE Queued(w, lock[n])
  <2>1. CASE lock[n] # <<>> /\ lock'[n] = Tail(lock[n])
    <3>1. \A p : Queued(p, Tail(lock[n])) => Queued(p, lock[n])
      BY <1>1, <2>1, TailQueue
    <3>. QED BY <1>2, <2>1, <3>1
  <2>2. ASSUME NEW c \in Controller, lock'[n] = Append(lock[n], c) PROVE Queued(w, lock[n])
    <3>1. \A o : Queued(o, Append(lock[n], c)) => o = c \/ Queued(o, lock[n])
      BY <1>1, AppendQueue
    <3>. QED BY <1>2, <2>2, <3>1, ClientsAssumption
  <2>. QED BY <1>2, <2>1, <2>2
<1>. QED BY <1>2 DEF Reserved

LEMMA ReservedByController ==
  ASSUME TypeOK, NEW c \in Controller,
         StartCall(c) \/ StopCall(c) \/ Starting(c) \/ Stopping(c)
  PROVE  \A n \in Net : Reserved(n)' \subseteq Reserved(n)
<1>1. lock \in [Net -> Seq(Proc)]
  BY DEF TypeOK
<1>2. ASSUME NEW n \in Net
      PROVE  \/ lock'[n] = lock[n]
             \/ lock[n] # <<>> /\ lock'[n] = Tail(lock[n])
             \/ \E d \in Controller : lock'[n] = Append(lock[n], d)
  BY <1>1, ControllerLocks DEF Owns
<1>. QED BY <1>2, ReservedShrinks

\* A stop leaves its drain only when there is nothing left to wait for.
LEMMA StopArrives ==
  ASSUME TypeOK, NEW c \in Controller,
         StartCall(c) \/ StopCall(c) \/ Starting(c) \/ Stopping(c),
         pc'[c] \in {"stopLife", "stopClear", "stopEnd"}
  PROVE  \/ pc[c] \in {"stopLife", "stopClear"}
         \/ \A n \in Net : Reserved(n) = {}
<1>. USE DEF wrapperVars, flagVars, clientVars, lifeVars, netVars
<1>0. pc \in [Proc -> Place] /\ c \in Proc
  BY DEF TypeOK, Proc
<1>. HIDE DEF TypeOK
<1>1. ~StartCall(c) /\ ~StopCall(c) /\ ~StartRefused(c) /\ ~NodeStart(c) /\ ~NodeStarted(c) /\ ~NodeStartFailed(c)
  BY <1>0 DEF StartCall, StopCall, StartRefused, NodeStart, NodeStarted, NodeStartFailed
<1>2. ~StartJoining(c) /\ ~StartOvertaken(c) /\ ~StartNext(c) /\ ~StartUndo(c)
  <2>1. /\ StartJoining(c) => pc' = [pc EXCEPT ![c] = "loop"]
        /\ StartOvertaken(c) => pc' = [pc EXCEPT ![c] = "idle"]
        /\ StartNext(c) => pc' \in {[pc EXCEPT ![c] = "joining"], [pc EXCEPT ![c] = "idle"]}
        /\ StartUndo(c) => pc' \in {[pc EXCEPT ![c] = "undoing"], [pc EXCEPT ![c] = "failed"]}
    BY DEF StartJoining, StartOvertaken, StartNext, StartUndo
  <2>. QED BY <1>0, <2>1
<1>3. ASSUME NEW n \in Net
      PROVE  /\ ~StartSkip(c, n) /\ ~StartJoin(c, n) /\ ~StartThrows(c, n)
             /\ ~StartUnjoin(c, n) /\ ~StartUnjoinThrows(c, n) /\ ~StartUnjoined(c, n)
  BY <1>0 DEF StartSkip, StartJoin, StartThrows, StartUnjoin, StartUnjoinThrows, StartUnjoined, ToLoop
<1>4. ~StartFailed(c) /\ ~UndoClear(c) /\ ~UndoEnd(c)
  BY <1>0 DEF StartFailed, UndoClear, UndoEnd, NodeClear
<1>5. ~UndoStop(c)
  <2>1. UndoStop(c) => pc[c] = "undoLife" /\ pc' \in {[pc EXCEPT ![c] = "idle"], [pc EXCEPT ![c] = "undoClear"]}
    BY DEF UndoStop, NodeStop
  <2>. QED BY <1>0, <2>1
<1>6. CASE StopClose(c) \/ StopEnd(c)
  BY <1>0, <1>6 DEF StopClose, StopEnd
<1>7. CASE StopDrained(c)
  BY <1>7 DEF StopDrained
<1>8. CASE StopNode(c) \/ StopClear(c)
  BY <1>8 DEF StopNode, StopClear, NodeStop, NodeClear
<1>. QED BY <1>1, <1>2, <1>3, <1>4, <1>5, <1>6, <1>7, <1>8 DEF Starting, Stopping

LEMMA DrainedStep == TypeOK /\ CatalogHeld /\ LifeHeld /\ Drained /\ [Next]_vars => Drained'
<1>. SUFFICES ASSUME TypeOK, CatalogHeld, LifeHeld, Drained, [Next]_vars PROVE Drained'
  OBVIOUS
<1>1. CASE UNCHANGED <<lock, pc>>
  BY <1>1 DEF Drained, Reserved, Queued
<1>2. ASSUME NEW w \in Writer, Submit(w) \/ Write(w) \/ \E n \in Net : Reconcile(w, n)
      PROVE  Drained'
  <2>1. SUFFICES ASSUME NEW c \in Controller, NEW n \in Net, pc'[c] \in {"stopLife", "stopClear", "stopEnd"}
                 PROVE  Reserved(n)' = {}
    BY DEF Drained
  <2>2. Owns(c, catalog) /\ Reserved(n) = {}
    BY <1>2, <2>1, WriterSteps DEF CatalogHeld, Drained
  <2>3. ~Owns(w, catalog)
    BY <2>2, ClientsAssumption DEF Owns
  <2>. QED BY <1>2, <2>2, <2>3, WriterLocks, ReservedShrinks
<1>3. ASSUME NEW c \in Controller, StartCall(c) \/ StopCall(c) \/ Starting(c) \/ Stopping(c)
      PROVE  Drained'
  <2>1. SUFFICES ASSUME NEW d \in Controller, pc'[d] \in {"stopLife", "stopClear", "stopEnd"}
                 PROVE  \A n \in Net : Reserved(n) = {}
    BY <1>3, ReservedByController DEF Drained
  <2>2. CASE d = c
    BY <1>3, <2>1, <2>2, StopArrives DEF Drained
  <2>3. CASE d # c
    BY <1>3, <2>1, <2>3, ControllerSteps DEF Drained
  <2>. QED BY <2>2, <2>3
<1>4. ASSUME NEW n \in Net, NEW k \in Slot, Dialing(n, k)
      PROVE  UNCHANGED <<lock, pc>>
  BY <1>4, DialingSteps DEF clientVars
<1>5. CASE UNCHANGED vars
  BY <1>1, <1>5 DEF vars, clientVars
<1>. QED BY <1>1, <1>2, <1>3, <1>4, <1>5, NextCases

\* Nobody but a reserved writer or a controller inside its own catalog
\* section waits for a lock, and a stop past its drain rules out both.
LEMMA NobodyLeft ==
  ASSUME TypeOK, CatalogHeld, LocksInside, Drained
  PROVE  StopFindsNobody
<1>1. SUFFICES ASSUME NEW c \in Controller, pc[c] \in {"stopClear", "stopEnd"}, NEW n \in Net, lock[n] # <<>>
               PROVE  FALSE
  BY DEF StopFindsNobody
<1>2. lock[n] \in Seq(Proc) /\ Waits(lock[n][1], n, 1) /\ lock[n][1] \in Proc
  BY <1>1 DEF TypeOK, Waits
<1>3. CASE lock[n][1] \in Writer
  BY <1>1, <1>2, <1>3 DEF Drained, Reserved, Queued, Waits
<1>4. CASE lock[n][1] \in Controller
  <2>1. pc[lock[n][1]] \in AtLock
    BY <1>2, <1>4 DEF LocksInside
  <2>2. Owns(lock[n][1], catalog) /\ Owns(c, catalog)
    BY <1>1, <1>4, <2>1 DEF CatalogHeld, AtLock
  <2>. QED BY <1>1, <2>1, <2>2 DEF Owns, AtLock
<1>. QED BY <1>2, <1>3, <1>4 DEF Proc

\* The node is taken down with no join, leave or rollback in flight: the
\* promise of stopAllNetworks, which closes the catalog and then waits.
THEOREM StopIsAlone == Spec => []StopFindsNobody
<1>1. Init => LocksInside /\ OnePlace /\ Drained
  BY DEF Init, LocksInside, OnePlace, Waits, Drained, Proc
<1>. QED BY <1>1, PlacesStep, DrainedStep, NobodyLeft, HeldAlways, PTL DEF Spec

-----------------------------------------------------------------------------
(* What the observers of a lishnet were told *)

\* The lock of a lishnet whose reconcile has begun is owned by a writer.
PhaseOwned == \A n \in Net : phase[n] # "queued" => lock[n] # <<>> /\ lock[n][1] \in Writer

\* A rollback that leaves a lishnet owns its lock, and the membership has gone.
LeavingOwns == \A c \in Controller : pc[c] = "leaving" => \E n \in Net : Waits(c, n, 1) /\ n \notin joined

\* But for a lishnet whose transition is under way, what was announced is what is so.
Unsettled(n) == phase[n] # "queued" \/ \E c \in Controller : Waits(c, n, 1) /\ pc[c] = "leaving"
Told == \A n \in Net : Unsettled(n) \/ (announced[n] <=> n \in joined)

\* The owner of a queue is the first in it.
LEMMA FirstInQueue ==
  ASSUME NEW S, NEW q \in Seq(S), NEW p
  PROVE  /\ Owns(p, q) <=> q # <<>> /\ q[1] = p
         /\ q # <<>> <=> 1 \in 1..Len(q)
<1>1. q # <<>> <=> 1 \in 1..Len(q)
  <2>1. CASE q = <<>>
    BY <2>1
  <2>2. CASE q # <<>>
    BY <2>2
  <2>. QED BY <2>1, <2>2
<1>2. q # <<>> => Head(q) = q[1]
  OBVIOUS
<1>. QED BY <1>1, <1>2 DEF Owns

\* An arrival does not change who owns a queue.
LEMMA FirstStays ==
  ASSUME NEW S, NEW q \in Seq(S), NEW p \in S
  PROVE  /\ q # <<>> => Append(q, p)[1] = q[1]
         /\ q = <<>> => Append(q, p)[1] = p
         /\ Append(q, p) # <<>>
<1>1. /\ Append(q, p) \in Seq(S)
      /\ Len(Append(q, p)) = Len(q) + 1
      /\ \A i \in 1..(Len(q) + 1) : Append(q, p)[i] = IF i <= Len(q) THEN q[i] ELSE p
  OBVIOUS
<1>2. Len(q) \in Nat
  OBVIOUS
<1>3. q # <<>> => Append(q, p)[1] = q[1]
  BY <1>1, <1>2, FirstInQueue
<1>4. q = <<>> => Append(q, p)[1] = p
  <2>. SUFFICES ASSUME q = <<>> PROVE Append(q, p)[1] = p
    OBVIOUS
  <2>1. Len(q) = 0
    OBVIOUS
  <2>. QED BY <1>1, <2>1
<1>5. Append(q, p) # <<>>
  <2>. SUFFICES ASSUME Append(q, p) = <<>> PROVE FALSE
    OBVIOUS
  <2>1. Len(Append(q, p)) = 0
    OBVIOUS
  <2>. QED BY <1>1, <1>2, <2>1
<1>. QED BY <1>3, <1>4, <1>5

\* What a turn of a writer does to the membership, and to what is announced of it.
LEMMA TurnAnnounces ==
  ASSUME TypeOK, NEW w \in Writer, NEW n \in Net, Reconcile(w, n)
  PROVE  /\ Owns(w, lock[n])
         /\ \A m \in Net \ {n} : /\ announced'[m] = announced[m] /\ (m \in joined' <=> m \in joined)
                                 /\ phase'[m] = phase[m] /\ lock'[m] = lock[m]
         /\ \A c \in Controller : pc'[c] = pc[c]
         /\ \/ phase'[n] = "queued" /\ (announced'[n] <=> n \in joined')
            \/ /\ phase'[n] = "queued" /\ phase[n] = "queued" /\ joined' = joined
               /\ announced'[n] = announced[n] \/ (~announced'[n] /\ n \notin joined)
            \/ phase'[n] # "queued" /\ lock' = lock
<1>. USE DEF netVars, flagVars
<1>0. /\ pc \in [Proc -> Place] /\ lock \in [Net -> Seq(Proc)] /\ announced \in [Net -> BOOLEAN]
      /\ phase \in [Net -> {"queued", "dialing", "leaving"}] /\ applied \in [Net -> Entry]
      /\ \A c \in Controller : c \in Proc /\ c # w
  BY ClientsAssumption DEF TypeOK, Proc
<1>. HIDE DEF TypeOK
<1>1. Owns(w, lock[n])
  BY DEF Reconcile, ReconcileSettled, JoinRefused, JoinThrows, Join, Joined, Leave, LeaveThrows, Left, Turn
<1>2. ASSUME Release(w, n)
      PROVE  /\ \A m \in Net \ {n} : phase'[m] = phase[m] /\ lock'[m] = lock[m]
             /\ \A c \in Controller : pc'[c] = pc[c]
             /\ phase'[n] = "queued"
  BY <1>0, <1>2 DEF Release
<1>3. ASSUME NEW S, Settle(w, n, S)
      PROVE  /\ announced'[n] = (n \in S) /\ \A m \in Net \ {n} : announced'[m] = announced[m]
             /\ Release(w, n)
  BY <1>0, <1>3 DEF Settle
<1>4. ASSUME Abandon(w, n)
      PROVE  /\ announced'[n] = announced[n] \/ (~announced'[n] /\ n \notin joined)
             /\ \A m \in Net \ {n} : announced'[m] = announced[m]
             /\ Release(w, n)
  BY <1>0, <1>4 DEF Abandon, Forget
<1>5. CASE ReconcileSettled(w, n)
  <2>1. joined' = joined /\ Settle(w, n, joined)
    BY <1>5 DEF ReconcileSettled, SyncBootstrap
  <2>. QED BY <1>1, <1>2, <1>3, <2>1
<1>6. CASE JoinRefused(w, n) \/ Left(w, n)
  BY <1>1, <1>2, <1>3, <1>6 DEF JoinRefused, Left
<1>7. CASE JoinThrows(w, n) \/ LeaveThrows(w, n)
  BY <1>1, <1>2, <1>4, <1>7 DEF JoinThrows, LeaveThrows
<1>8. CASE Join(w, n)
  <2>1. CASE row[n].peers = {}
    BY <1>1, <1>2, <1>3, <1>8, <2>1 DEF Join
  <2>2. CASE row[n].peers # {}
    BY <1>0, <1>1, <1>8, <2>2 DEF Join
  <2>. QED BY <2>1, <2>2
<1>9. CASE Joined(w, n)
  <2>1. Settle(w, n, joined') /\ \A m \in Net \ {n} : m \in joined' <=> m \in joined
    BY <1>9 DEF Joined
  <2>. QED BY <1>1, <1>2, <1>3, <2>1
<1>10. CASE Leave(w, n)
  <2>1. phase' = [phase EXCEPT ![n] = "leaving"] /\ joined' = joined \ {n}
        /\ UNCHANGED <<announced, lock, pc>>
    BY <1>10 DEF Leave, LeaveTopic
  <2>. QED BY <1>0, <1>1, <2>1
<1>. QED BY <1>5, <1>6, <1>7, <1>8, <1>9, <1>10 DEF Reconcile

\* What a step of a controller does to them.
LEMMA ControllerAnnounces ==
  ASSUME TypeOK, NEW c \in Controller,
         StartCall(c) \/ StopCall(c) \/ Starting(c) \/ Stopping(c)
  PROVE  /\ phase' = phase
         /\ \/ UNCHANGED <<joined, announced>> /\ pc[c] # "leaving" /\ pc'[c] # "leaving"
            \/ /\ joined' = {} /\ \A n \in Net : ~announced'[n]
               /\ pc[c] # "leaving" /\ pc'[c] # "leaving"
            \/ \E n \in Net :
                 /\ Owns(c, lock[n]) /\ joined' = joined \cup {n}
                 /\ announced' = [announced EXCEPT ![n] = TRUE]
                 /\ pc[c] # "leaving" /\ pc'[c] # "leaving"
            \/ \E n \in Net :
                 /\ Owns(c, lock[n]) /\ lock' = lock /\ joined' = joined \ {n} /\ announced' = announced
                 /\ pc[c] # "leaving" /\ pc'[c] = "leaving"
            \/ \E n \in Net :
                 /\ Owns(c, lock[n]) /\ joined' = joined /\ announced' = [announced EXCEPT ![n] = FALSE]
                 /\ pc[c] = "leaving" /\ pc'[c] # "leaving"
<1>. USE DEF wrapperVars, flagVars, lifeVars, netVars
<1>0. pc \in [Proc -> Place] /\ c \in Proc
  BY DEF TypeOK, Proc
<1>. HIDE DEF TypeOK
<1>1. CASE StartCall(c) \/ StopCall(c) \/ StartRefused(c)
  BY <1>0, <1>1 DEF StartCall, StopCall, StartRefused
<1>2. CASE NodeStart(c) \/ NodeStarted(c) \/ NodeStartFailed(c)
  BY <1>0, <1>2 DEF NodeStart, NodeStarted, NodeStartFailed
<1>3. CASE StartJoining(c) \/ StartOvertaken(c)
  BY <1>0, <1>3 DEF StartJoining, StartOvertaken
<1>4. CASE StartNext(c)
  BY <1>0, <1>4 DEF StartNext
<1>5. CASE StartUndo(c)
  BY <1>0, <1>5 DEF StartUndo
<1>6. ASSUME NEW n \in Net, StartSkip(c, n) \/ StartThrows(c, n) \/ StartUnjoinThrows(c, n)
      PROVE  phase' = phase /\ UNCHANGED <<joined, announced>> /\ pc[c] # "leaving" /\ pc'[c] # "leaving"
  BY <1>0, <1>6 DEF StartSkip, StartThrows, StartUnjoinThrows, StartLock, ToLoop
<1>7. ASSUME NEW n \in Net, StartJoin(c, n)
      PROVE  /\ phase' = phase /\ Owns(c, lock[n]) /\ joined' = joined \cup {n}
             /\ announced' = [announced EXCEPT ![n] = TRUE]
             /\ pc[c] # "leaving" /\ pc'[c] # "leaving"
  BY <1>0, <1>7 DEF StartJoin, StartLock, ToLoop
<1>8. ASSUME NEW n \in Net, StartUnjoin(c, n)
      PROVE  /\ phase' = phase /\ Owns(c, lock[n]) /\ lock' = lock /\ joined' = joined \ {n}
             /\ announced' = announced /\ pc[c] # "leaving" /\ pc'[c] = "leaving"
  <2>1. joined' = joined \ {n}
    BY <1>8 DEF StartUnjoin, LeaveTopic
  <2>. QED BY <1>0, <1>8, <2>1 DEF StartUnjoin, StartLock
<1>9. ASSUME NEW n \in Net, StartUnjoined(c, n)
      PROVE  /\ phase' = phase /\ Owns(c, lock[n]) /\ joined' = joined
             /\ announced' = [announced EXCEPT ![n] = FALSE]
             /\ pc[c] = "leaving" /\ pc'[c] # "leaving"
  BY <1>0, <1>9 DEF StartUnjoined, StartLock, ToLoop
<1>10. CASE StartFailed(c)
  BY <1>0, <1>10 DEF StartFailed, ForgetMembership
<1>11. CASE UndoStop(c) \/ UndoClear(c) \/ StopNode(c) \/ StopClear(c)
  BY <1>0, <1>11 DEF UndoStop, UndoClear, StopNode, StopClear, NodeStop, NodeClear
<1>12. CASE UndoEnd(c) \/ StopEnd(c)
  BY <1>0, <1>12 DEF UndoEnd, StopEnd, ForgetMembership
<1>13. CASE StopClose(c) \/ StopDrained(c)
  BY <1>0, <1>13 DEF StopClose, StopDrained
<1>. QED BY <1>1, <1>2, <1>3, <1>4, <1>5, <1>6, <1>7, <1>8, <1>9, <1>10, <1>11, <1>12, <1>13
         DEF Starting, Stopping

\* Who else is leaving a lishnet is not disturbed.
LEMMA OthersLeave ==
  ASSUME TypeOK, LocksInside, OnePlace, LeavingOwns, NEW c \in Controller,
         StartCall(c) \/ StopCall(c) \/ Starting(c) \/ Stopping(c)
  PROVE  /\ \A d \in Controller \ {c}, m \in Net :
              pc[d] = "leaving" => (Waits(d, m, 1)' <=> Waits(d, m, 1))
         /\ \A m \in Net : lock[m] # <<>> /\ lock[m][1] # c => lock'[m] # <<>> /\ lock'[m][1] = lock[m][1]
<1>0. lock \in [Net -> Seq(Proc)]
  BY DEF TypeOK
<1>. HIDE DEF TypeOK
<1>1. CASE lock' = lock
  BY <1>1 DEF Waits
<1>2. ASSUME NEW n \in Net, lock' = [lock EXCEPT ![n] = Append(@, c)]
      PROVE  /\ \A d \in Controller \ {c}, m \in Net : Waits(d, m, 1)' <=> Waits(d, m, 1)
             /\ \A m \in Net : lock[m] # <<>> => lock'[m] # <<>> /\ lock'[m][1] = lock[m][1]
  BY <1>0, <1>2, FirstInQueue DEF Waits
<1>3. ASSUME NEW n \in Net, Owns(c, lock[n]), lock' = [lock EXCEPT ![n] = Tail(@)]
      PROVE  /\ \A d \in Controller \ {c}, m \in Net :
                  pc[d] = "leaving" => (Waits(d, m, 1)' <=> Waits(d, m, 1))
             /\ \A m \in Net : lock[m] # <<>> /\ lock[m][1] # c => lock'[m] # <<>> /\ lock'[m][1] = lock[m][1]
  <2>1. lock[n] # <<>> /\ lock[n][1] = c /\ \A m \in Net \ {n} : lock'[m] = lock[m]
    BY <1>0, <1>3, FirstInQueue
  <2>2. ASSUME NEW d \in Controller \ {c}, pc[d] = "leaving", Waits(d, n, 1)'
        PROVE  FALSE
    <3>1. Waits(d, n, 2)
      BY <1>0, <1>3, <2>1, <2>2, QueuePlaces DEF Waits
    <3>2. PICK m \in Net : Waits(d, m, 1)
      BY <2>2 DEF LeavingOwns
    <3>. QED BY <3>1, <3>2 DEF OnePlace
  <2>3. ASSUME NEW d \in Controller \ {c}, Waits(d, n, 1)
        PROVE  FALSE
    BY <2>1, <2>3 DEF Waits
  <2>4. ASSUME NEW d \in Controller \ {c}, NEW m \in Net \ {n}
        PROVE  Waits(d, m, 1)' <=> Waits(d, m, 1)
    BY <2>1 DEF Waits
  <2>. QED BY <2>1, <2>2, <2>3, <2>4
<1>. QED BY <1>1, <1>2, <1>3, ControllerLocks

LEMMA WriteAnnounces ==
  ASSUME TypeOK, NEW w \in Writer, Submit(w) \/ Write(w)
  PROVE  /\ UNCHANGED <<joined, phase>>
         /\ \A n \in Net : announced'[n] = announced[n] \/ (~announced'[n] /\ n \notin joined)
         /\ \A n \in Net : lock'[n] = lock[n] \/ lock'[n] = Append(lock[n], w)
<1>0. announced \in [Net -> BOOLEAN] /\ lock \in [Net -> Seq(Proc)]
  BY DEF TypeOK
<1>. HIDE DEF TypeOK
<1>1. CASE Submit(w)
  BY <1>1 DEF Submit, wrapperVars
<1>2. ASSUME NEW rows, NEW S, Commit(w, rows, S)
      PROVE  /\ UNCHANGED <<joined, phase>>
             /\ \A n \in Net : announced'[n] = announced[n] \/ (~announced'[n] /\ n \notin joined)
             /\ \A n \in Net : lock'[n] = lock[n] \/ lock'[n] = Append(lock[n], w)
  BY <1>0, <1>2 DEF Commit, Forget, Enqueued
<1>3. CASE Write(w)
  <2>1. \E rows, S : Commit(w, rows, S)
    BY <1>3 DEF Write, SetEnabled, Add, AddIfNotExists, Update, UpdateBootstrapPeers, Delete, Import, Replace,
                NotFound
  <2>. QED BY <1>2, <2>1
<1>. QED BY <1>1, <1>3

LEMMA ToldStep ==
  /\ TypeOK /\ CatalogHeld /\ LifeHeld /\ LocksInside /\ OnePlace
  /\ PhaseOwned /\ LeavingOwns /\ Told /\ [Next]_vars
  => PhaseOwned' /\ LeavingOwns' /\ Told'
<1>. SUFFICES ASSUME TypeOK, CatalogHeld, LifeHeld, LocksInside, OnePlace,
                     PhaseOwned, LeavingOwns, Told, [Next]_vars
              PROVE  PhaseOwned' /\ LeavingOwns' /\ Told'
  OBVIOUS
<1>0. lock \in [Net -> Seq(Proc)] /\ announced \in [Net -> BOOLEAN]
      /\ \A c \in Controller, w \in Writer : c # w
  BY ClientsAssumption DEF TypeOK
<1>1. CASE UNCHANGED <<lock, pc, phase, joined, announced>>
  BY <1>1 DEF PhaseOwned, LeavingOwns, Told, Unsettled, Waits
<1>2. ASSUME NEW w \in Writer, Submit(w) \/ Write(w)
      PROVE  PhaseOwned' /\ LeavingOwns' /\ Told'
  <2>1. \A c \in Controller : pc'[c] = pc[c]
    BY <1>2, WriterSteps
  <2>2. ASSUME NEW n \in Net
        PROVE  /\ \A c \in Controller : Waits(c, n, 1)' <=> Waits(c, n, 1)
               /\ lock[n] # <<>> => lock'[n] # <<>> /\ lock'[n][1] = lock[n][1]
    <3>1. w \in Proc /\ lock[n] \in Seq(Proc)
      BY <1>0 DEF Proc
    <3>2. lock'[n] = lock[n] \/ lock'[n] = Append(lock[n], w)
      BY <1>2, WriteAnnounces
    <3>3. CASE lock'[n] = lock[n]
      BY <3>3 DEF Waits
    <3>4. CASE lock'[n] = Append(lock[n], w)
      <4>1. /\ lock[n] # <<>> => lock'[n][1] = lock[n][1]
            /\ lock[n] = <<>> => lock'[n][1] = w
            /\ lock'[n] # <<>>
        BY <3>1, <3>4, FirstStays
      <4>2. /\ lock[n] # <<>> <=> 1 \in 1..Len(lock[n])
            /\ 1 \in 1..Len(lock'[n])
        BY <3>1, <3>4, <4>1, FirstInQueue
      <4>. QED BY <1>0, <4>1, <4>2 DEF Waits
    <3>. QED BY <3>2, <3>3, <3>4
  <2>3. PhaseOwned'
    BY <1>2, <2>2, WriteAnnounces DEF PhaseOwned
  <2>4. LeavingOwns'
    BY <1>2, <2>1, <2>2, WriteAnnounces DEF LeavingOwns
  <2>5. ASSUME NEW n \in Net PROVE Unsettled(n)' \/ (announced'[n] <=> n \in joined')
    <3>1. Unsettled(n) => Unsettled(n)'
      BY <1>2, <2>1, <2>2, WriteAnnounces DEF Unsettled
    <3>2. Unsettled(n) \/ (announced[n] <=> n \in joined)
      BY DEF Told
    <3>. QED BY <1>2, <3>1, <3>2, WriteAnnounces
  <2>. QED BY <2>3, <2>4, <2>5 DEF Told
<1>3. ASSUME NEW w \in Writer, NEW n \in Net, Reconcile(w, n)
      PROVE  PhaseOwned' /\ LeavingOwns' /\ Told'
  <2>1. lock[n] # <<>> /\ lock[n][1] = w /\ \A c \in Controller : ~Waits(c, n, 1)
    BY <1>0, <1>3, TurnAnnounces, FirstInQueue DEF Waits
  <2>2. \A m \in Net \ {n}, c \in Controller : Waits(c, m, 1)' <=> Waits(c, m, 1)
    BY <1>3, TurnAnnounces DEF Waits
  <2>3. PhaseOwned'
    BY <1>3, <2>1, TurnAnnounces DEF PhaseOwned
  <2>4. LeavingOwns'
    BY <1>3, <2>1, <2>2, TurnAnnounces DEF LeavingOwns
  <2>5. ASSUME NEW m \in Net \ {n} PROVE Unsettled(m)' \/ (announced'[m] <=> m \in joined')
    <3>1. Unsettled(m) => Unsettled(m)'
      BY <1>3, <2>2, TurnAnnounces DEF Unsettled
    <3>2. Unsettled(m) \/ (announced[m] <=> m \in joined)
      BY DEF Told
    <3>. QED BY <1>3, <3>1, <3>2, TurnAnnounces
  <2>6. Unsettled(n)' \/ (announced'[n] <=> n \in joined')
    <3>1. phase[n] = "queued" => (announced[n] <=> n \in joined)
      BY <2>1 DEF Told, Unsettled
    <3>2. phase'[n] # "queued" => Unsettled(n)'
      BY DEF Unsettled
    <3>. QED BY <1>3, <3>1, <3>2, TurnAnnounces
  <2>. QED BY <2>3, <2>4, <2>5, <2>6 DEF Told
<1>4. ASSUME NEW c \in Controller, StartCall(c) \/ StopCall(c) \/ Starting(c) \/ Stopping(c)
      PROVE  PhaseOwned' /\ LeavingOwns' /\ Told'
  <2>1. phase' = phase /\ \A d \in Controller \ {c} : pc'[d] = pc[d]
    BY <1>4, ControllerSteps, ControllerAnnounces
  <2>2. /\ \A d \in Controller \ {c}, m \in Net : pc[d] = "leaving" => (Waits(d, m, 1)' <=> Waits(d, m, 1))
        /\ \A m \in Net : lock[m] # <<>> /\ lock[m][1] # c => lock'[m] # <<>> /\ lock'[m][1] = lock[m][1]
    BY <1>4, OthersLeave
  <2>3. PhaseOwned'
    BY <1>0, <2>1, <2>2 DEF PhaseOwned
  <2>4. \A m \in Net : Owns(c, lock[m]) => Waits(c, m, 1) /\ \A d \in Controller \ {c} : ~Waits(d, m, 1)
    BY <1>0, FirstInQueue DEF Waits
  <2>5. \A m \in Net : pc[c] # "leaving" /\ Unsettled(m) => Unsettled(m)'
    BY <2>1, <2>2 DEF Unsettled
  <2>6. CASE /\ pc[c] # "leaving" /\ pc'[c] # "leaving"
             /\ \/ UNCHANGED <<joined, announced>>
                \/ joined' = {} /\ \A n \in Net : ~announced'[n]
    <3>1. LeavingOwns'
      BY <2>1, <2>2, <2>6 DEF LeavingOwns
    <3>. QED BY <2>3, <2>5, <2>6, <3>1 DEF Told
  <2>7. ASSUME NEW n \in Net, Owns(c, lock[n]), joined' = joined \cup {n},
               announced' = [announced EXCEPT ![n] = TRUE], pc[c] # "leaving", pc'[c] # "leaving"
        PROVE  PhaseOwned' /\ LeavingOwns' /\ Told'
    <3>1. LeavingOwns'
      BY <2>1, <2>2, <2>4, <2>7 DEF LeavingOwns
    <3>. QED BY <1>0, <2>3, <2>5, <2>7, <3>1 DEF Told
  <2>8. ASSUME NEW n \in Net, Owns(c, lock[n]), lock' = lock, joined' = joined \ {n}, announced' = announced,
               pc[c] # "leaving", pc'[c] = "leaving"
        PROVE  PhaseOwned' /\ LeavingOwns' /\ Told'
    <3>1. Waits(c, n, 1)'
      BY <2>4, <2>8 DEF Waits
    <3>2. LeavingOwns'
      BY <2>1, <2>2, <2>8, <3>1 DEF LeavingOwns
    <3>3. Unsettled(n)'
      BY <2>8, <3>1 DEF Unsettled
    <3>. QED BY <2>3, <2>5, <2>8, <3>2, <3>3 DEF Told
  <2>9. ASSUME NEW n \in Net, Owns(c, lock[n]), joined' = joined, announced' = [announced EXCEPT ![n] = FALSE],
               pc[c] = "leaving", pc'[c] # "leaving"
        PROVE  PhaseOwned' /\ LeavingOwns' /\ Told'
    <3>1. LeavingOwns'
      BY <2>1, <2>2, <2>9 DEF LeavingOwns
    <3>2. n \notin joined /\ \A m \in Net : Waits(c, m, 1) => m = n
      BY <2>4, <2>9 DEF LeavingOwns, OnePlace
    <3>3. \A m \in Net \ {n} : Unsettled(m) => Unsettled(m)'
      BY <2>1, <2>2, <3>2 DEF Unsettled
    <3>. QED BY <1>0, <2>3, <2>9, <3>1, <3>2, <3>3 DEF Told
  <2>. QED BY <1>4, <2>6, <2>7, <2>8, <2>9, ControllerAnnounces
<1>5. ASSUME NEW n \in Net, NEW k \in Slot, Dialing(n, k)
      PROVE  UNCHANGED <<lock, pc, phase, joined, announced>>
  BY <1>5, DialingSteps DEF clientVars
<1>6. CASE UNCHANGED vars
  BY <1>1, <1>6 DEF vars, clientVars, wrapperVars
<1>. QED BY <1>1, <1>2, <1>3, <1>4, <1>5, <1>6, NextCases

\* Who waits where, in every state.
LEMMA PlacesAlways == Spec => [](LocksInside /\ OnePlace)
<1>1. Init => LocksInside /\ OnePlace
  BY DEF Init, LocksInside, OnePlace, Waits, Proc
<1>. QED BY <1>1, PlacesStep, HeldAlways, PTL DEF Spec

\* Whenever no transition of a lishnet is under way, the higher layers were last told
\* what is true of it, across joins, leaves, failed and silent starts, rollbacks and
\* shutdowns (reconcileLocked, announce; startEnabledNetworks joins without announcing).
THEOREM ObserversHold == Spec => []ObserversAgree
<1>1. Init => PhaseOwned /\ LeavingOwns /\ Told
  BY DEF Init, PhaseOwned, LeavingOwns, Told, Proc
<1>2. TypeOK /\ PhaseOwned /\ Told => ObserversAgree
  <2>. SUFFICES ASSUME TypeOK, PhaseOwned, Told, NEW n \in Net, lock[n] = <<>>
                PROVE  announced[n] <=> n \in joined
    BY DEF ObserversAgree, SettledIsAnnounced
  <2>1. ~Unsettled(n)
    BY DEF PhaseOwned, Unsettled, Waits
  <2>. QED BY <2>1 DEF Told
<1>. QED BY <1>1, <1>2, ToldStep, PlacesAlways, HeldAlways, PTL DEF Spec

-----------------------------------------------------------------------------
(* The addresses a running node holds *)

\* Runs that still register addresses, and the phases in which the node has not been
\* asked to go down since it was last without a membership.
Live(n, k) == dial[n][k].state = "walking" /\ ~dial[n][k].superseded
Before == lifecycle \in {"stopped", "starting", "running"}
Quit == {"undoClear", "undoEnd", "stopClear", "stopEnd"}

\* What is recorded of a membership covers what the node holds for it and what its
\* runs will still register.
Covered(n) == /\ configuredIn[n] \subseteq applied[n].addrs
              /\ \A k \in Slot : Live(n, k) => dial[n][k].todo \subseteq applied[n].addrs

EmptyEntry == \A n \in Net : ~applied[n].present => applied[n].addrs = {}
StoppedByOne == \A c \in Controller : pc[c] \in Quit => lifecycle = "stopping"
Recorded == ~late /\ Before => \A n \in Net : Covered(n)
Stopped == ~late => /\ lifecycle = "stopping" => \A n \in Net, k \in Slot : ~Live(n, k)
                    /\ \A c \in Controller : pc[c] \in {"undoEnd", "stopEnd"} => \A n \in Net : configuredIn[n] = {}

\* A step that registers nothing for n and lets no run of n register more than it would have.
Sheds(n) == /\ configuredIn'[n] \subseteq configuredIn[n]
            /\ \A k \in Slot : Live(n, k)' => Live(n, k) /\ dial'[n][k].todo \subseteq dial[n][k].todo

\* A superseded run registers nothing more; the runs of other lishnets are as they were.
LEMMA SupersededRuns ==
  ASSUME TypeOK, NEW n \in Net
  PROVE  /\ \A k \in Slot : ~(Superseded(n)[n][k].state = "walking" /\ ~Superseded(n)[n][k].superseded)
         /\ \A m \in Net \ {n} : Superseded(n)[m] = dial[m]
         /\ \A m \in Net, k \in Slot : ~(AllSuperseded[m][k].state = "walking" /\ ~AllSuperseded[m][k].superseded)
<1>0. dial \in [Net -> [Slot -> Run]]
  BY DEF TypeOK
<1>. HIDE DEF TypeOK
<1>1. ASSUME NEW r \in Run
      PROVE  /\ [r EXCEPT !.superseded = TRUE].superseded = TRUE
             /\ [r EXCEPT !.superseded = TRUE].state = r.state
  BY DEF Run
<1>2. ASSUME NEW m \in Net, NEW k \in Slot
      PROVE  ~(Superseded(m)[m][k].state = "walking" /\ ~Superseded(m)[m][k].superseded)
  <2>1. dial[m][k] \in Run
    BY <1>0
  <2>2. Superseded(m)[m][k] = IF dial[m][k].state = "walking" THEN [dial[m][k] EXCEPT !.superseded = TRUE] ELSE dial[m][k]
    BY <1>0 DEF Superseded
  <2>. QED BY <1>1, <2>1, <2>2
<1>3. \A m \in Net \ {n} : Superseded(n)[m] = dial[m]
  BY <1>0 DEF Superseded
<1>4. \A m \in Net : AllSuperseded[m] = Superseded(m)[m]
  BY DEF AllSuperseded
<1>. QED BY <1>2, <1>3, <1>4

\* An installation records the list it registers addresses of.
LEMMA InstallRecords ==
  ASSUME TypeOK, NEW n \in Net, NEW peers \in SUBSET Addr, NEW awaited \in BOOLEAN,
         NEW runs \in [Net -> [Slot -> Run]], NEW conf, NEW confIn \in [Net -> SUBSET Addr],
         Install(n, peers, awaited, runs, conf, confIn),
         confIn[n] \subseteq peers,
         \A k \in Slot : runs[n][k].state = "walking" /\ ~runs[n][k].superseded => runs[n][k].todo \subseteq peers
  PROVE  Covered(n)' /\ applied'[n].present
<1>0. applied \in [Net -> Entry]
  BY DEF TypeOK
<1>. HIDE DEF TypeOK
<1>1. CASE peers = {} /\ applied' = [applied EXCEPT ![n] = [present |-> TRUE, addrs |-> {}, complete |-> TRUE, from |-> 0]]
           /\ dial' = runs /\ configured' = conf /\ configuredIn' = confIn
  BY <1>0, <1>1 DEF Covered, Live
<1>2. ASSUME NEW k \in Slot, NEW a \in peers, NEW dead \in BOOLEAN,
             applied' = [applied EXCEPT ![n] = [present |-> TRUE, addrs |-> peers, complete |-> FALSE, from |-> k]],
             dial' = [runs EXCEPT ![n][k] = [state |-> "walking", superseded |-> dead, awaited |-> awaited,
                                             todo |-> IF dead THEN peers ELSE peers \ {a}]],
             configuredIn' = IF dead THEN confIn ELSE [confIn EXCEPT ![n] = @ \cup {a}]
      PROVE  Covered(n)' /\ applied'[n].present
  <2>1. applied'[n].addrs = peers /\ applied'[n].present
    BY <1>0, <1>2
  <2>2. configuredIn'[n] \subseteq confIn[n] \cup {a}
    BY <1>2
  <2>3. /\ dial'[n][k].todo \subseteq peers
        /\ \A j \in Slot \ {k} : dial'[n][j] = runs[n][j]
    BY <1>2
  <2>. QED BY <2>1, <2>2, <2>3 DEF Covered, Live
<1>3. cancelled \in BOOLEAN /\ node \in BOOLEAN
  BY DEF TypeOK
<1>4. CASE \E k \in Slot, a \in peers :
             /\ applied' = [applied EXCEPT ![n] = [present |-> TRUE, addrs |-> peers, complete |-> FALSE, from |-> k]]
             /\ dial' = [runs EXCEPT ![n][k] = [state |-> "walking", superseded |-> cancelled \/ ~node, awaited |-> awaited,
                                                todo |-> IF cancelled \/ ~node THEN peers ELSE peers \ {a}]]
             /\ configuredIn' = IF cancelled \/ ~node THEN confIn ELSE [confIn EXCEPT ![n] = @ \cup {a}]
  BY <1>2, <1>3, <1>4
<1>. QED BY <1>1, <1>4 DEF Install

\* A membership that goes takes what was recorded of it along, and its runs with it.
LEMMA LeaveTopicSheds ==
  ASSUME TypeOK, NEW n \in Net, LeaveTopic(n)
  PROVE  /\ \A m \in Net : Sheds(m)
         /\ Covered(n)' /\ applied'[n] = NoEntry
         /\ \A m \in Net \ {n} : applied'[m] = applied[m]
<1>0. applied \in [Net -> Entry] /\ dial \in [Net -> [Slot -> Run]] /\ configuredIn \in [Net -> SUBSET Addr]
  BY DEF TypeOK
<1>1. /\ applied' = [applied EXCEPT ![n] = NoEntry]
      /\ dial' = Superseded(n)
      /\ configuredIn'[n] = {} /\ \A m \in Net : configuredIn'[m] \subseteq configuredIn[m]
  BY <1>0 DEF LeaveTopic, Unconfigure
<1>2. /\ \A k \in Slot : ~(Superseded(n)[n][k].state = "walking" /\ ~Superseded(n)[n][k].superseded)
      /\ \A m \in Net \ {n} : Superseded(n)[m] = dial[m]
  BY SupersededRuns
<1>3. \A k \in Slot : ~Live(n, k)'
  BY <1>1, <1>2 DEF Live
<1>4. \A m \in Net \ {n}, k \in Slot : dial'[m][k] = dial[m][k]
  BY <1>1, <1>2
<1>5. \A m \in Net : Sheds(m)
  BY <1>1, <1>3, <1>4 DEF Sheds, Live
<1>. QED BY <1>0, <1>1, <1>3, <1>5 DEF Covered

\* A run that reports neither makes nor changes a list.
LEMMA FinishedAddrs ==
  ASSUME TypeOK, NEW n \in Net, NEW k \in Slot
  PROVE  Finished(n, k).addrs = applied[n].addrs /\ Finished(n, k).present = applied[n].present
<1>1. applied[n] \in Entry
  BY DEF TypeOK
<1>. QED BY <1>1 DEF Finished, Entry

LEMMA FreedRun ==
  ASSUME TypeOK, NEW n \in Net, NEW k \in Slot, dial' = [dial EXCEPT ![n][k] = FreeRun], configuredIn' = configuredIn
  PROVE  \A m \in Net : Sheds(m)
<1>0. dial \in [Net -> [Slot -> Run]]
  BY DEF TypeOK
<1>1. /\ \A j \in Slot \ {k} : dial'[n][j] = dial[n][j]
      /\ \A m \in Net \ {n} : dial'[m] = dial[m]
      /\ dial'[n][k].state = "free"
  BY <1>0 DEF FreeRun
<1>. QED BY <1>1 DEF Sheds, Live

\* What is shed stays covered by an unchanged list.
LEMMA ShedsCovered ==
  ASSUME NEW n \in Net, Sheds(n), applied'[n].addrs = applied[n].addrs, Covered(n)
  PROVE  Covered(n)'
BY DEF Sheds, Covered

\* A turn of a writer on a node that is up, not there yet or half way down.
LEMMA TurnRecords ==
  ASSUME TypeOK, EntryIffJoined, NodeAgrees, EmptyEntry, NEW w \in Writer, NEW n \in Net, Reconcile(w, n)
  PROVE  /\ lifecycle' = lifecycle /\ EmptyEntry'
         /\ late => late'
         /\ (late' <=> late) \/ lifecycle = "stopping"
         /\ late' \/ lifecycle # "stopping" \/ \A m \in Net : Sheds(m)
         /\ Before /\ (\A m \in Net : Covered(m)) => \A m \in Net : Covered(m)'
<1>. USE DEF netVars, flagVars, lifeVars
<1>0. applied \in [Net -> Entry] /\ dial \in [Net -> [Slot -> Run]] /\ configuredIn \in [Net -> SUBSET Addr]
      /\ row[n].peers \in SUBSET Addr
  BY RowPeers DEF TypeOK
<1>1. ASSUME UNCHANGED <<applied, dial, configuredIn>>
      PROVE  /\ EmptyEntry' /\ \A m \in Net : Sheds(m)
             /\ (\A m \in Net : Covered(m)) => \A m \in Net : Covered(m)'
  BY <1>1 DEF EmptyEntry, Sheds, Covered, Live
<1>2. CASE JoinRefused(w, n) \/ JoinThrows(w, n) \/ LeaveThrows(w, n) \/ Left(w, n)
  BY <1>1, <1>2 DEF JoinRefused, JoinThrows, LeaveThrows, Left
<1>3. CASE ReconcileSettled(w, n)
  <2>1. lifecycle' = lifecycle
    BY <1>3 DEF ReconcileSettled
  <2>2. CASE UNCHANGED <<applied, dial, configuredIn, late>>
    BY <1>1, <2>1, <2>2
  <2>3. CASE n \in joined /\ SyncBootstrap(n) /\ late' = (late \/ lifecycle = "stopping")
    <3>. DEFINE gone == (applied[n].addrs \ row[n].peers) \ ConfiguredElsewhere(n)
                confIn == [m \in Net |-> IF m = n THEN row[n].peers ELSE configuredIn[m] \ gone]
    <3>1. /\ \A k \in Slot : ~(Superseded(n)[n][k].state = "walking" /\ ~Superseded(n)[n][k].superseded)
          /\ \A m \in Net \ {n} : Superseded(n)[m] = dial[m]
      BY SupersededRuns
    <3>2. Superseded(n) \in [Net -> [Slot -> Run]]
      BY <1>0, SupersededType
    <3>3. confIn \in [Net -> SUBSET Addr] /\ confIn[n] \subseteq row[n].peers
          /\ \A m \in Net \ {n} : confIn[m] \subseteq configuredIn[m]
      BY <1>0
    <3>4. Install(n, row[n].peers, FALSE, Superseded(n), configured \ gone, confIn)
      BY <2>3 DEF SyncBootstrap
    <3>. HIDE DEF gone, confIn
    <3>5. /\ Covered(n)' /\ applied'[n].present
          /\ \A m \in Net \ {n} : applied'[m] = applied[m] /\ dial'[m] = Superseded(n)[m] /\ configuredIn'[m] = confIn[m]
      <4>1. \A k \in Slot : Superseded(n)[n][k].state = "walking" /\ ~Superseded(n)[n][k].superseded
                             => Superseded(n)[n][k].todo \subseteq row[n].peers
        BY <3>1
      <4>2. FALSE \in BOOLEAN
        OBVIOUS
      <4>3. Covered(n)' /\ applied'[n].present
        BY <1>0, <3>2, <3>3, <3>4, <4>1, <4>2, InstallRecords
      <4>4. ASSUME NEW m \in Net \ {n}
            PROVE  applied'[m] = applied[m] /\ dial'[m] = Superseded(n)[m] /\ configuredIn'[m] = confIn[m]
        BY <1>0, <3>2, <3>3, <3>4 DEF Install
      <4>. QED BY <4>3, <4>4
    <3>6. \A m \in Net \ {n} : Sheds(m)
      BY <3>1, <3>3, <3>5 DEF Sheds, Live
    <3>7. \A m \in Net \ {n} : Covered(m) => Covered(m)'
      BY <3>5, <3>6, ShedsCovered
    <3>8. EmptyEntry'
      BY <3>5 DEF EmptyEntry
    <3>. QED BY <2>1, <2>3, <3>5, <3>7, <3>8
  <2>. QED BY <1>3, <2>2, <2>3 DEF ReconcileSettled
<1>4. CASE Join(w, n)
  <2>1. /\ n \notin joined /\ lifecycle = "running" /\ UNCHANGED <<lifecycle, late>>
        /\ Install(n, row[n].peers, TRUE, dial, configured, configuredIn)
    BY <1>4 DEF Join, CanJoin, IsRunning
  <2>2. applied[n].addrs = {}
    BY <2>1 DEF EntryIffJoined, EmptyEntry
  <2>3. ASSUME \A m \in Net : Covered(m)
        PROVE  EmptyEntry' /\ \A m \in Net : Covered(m)'
    <3>1. configuredIn[n] \subseteq row[n].peers
          /\ \A k \in Slot : dial[n][k].state = "walking" /\ ~dial[n][k].superseded => dial[n][k].todo \subseteq row[n].peers
      BY <2>2, <2>3 DEF Covered, Live
    <3>2. /\ Covered(n)' /\ applied'[n].present
          /\ \A m \in Net \ {n} : applied'[m] = applied[m] /\ dial'[m] = dial[m] /\ configuredIn'[m] = configuredIn[m]
      <4>1. TRUE \in BOOLEAN
        OBVIOUS
      <4>2. Covered(n)' /\ applied'[n].present
        BY <1>0, <2>1, <3>1, <4>1, InstallRecords
      <4>3. ASSUME NEW m \in Net \ {n}
            PROVE  applied'[m] = applied[m] /\ dial'[m] = dial[m] /\ configuredIn'[m] = configuredIn[m]
        BY <1>0, <2>1 DEF Install
      <4>. QED BY <4>2, <4>3
    <3>. QED BY <2>3, <3>2 DEF EmptyEntry, Covered, Live
  <2>4. EmptyEntry'
    BY <2>1, InstallEntry DEF EmptyEntry
  <2>. QED BY <2>1, <2>3, <2>4
<1>5. CASE Joined(w, n)
  <2>1. UNCHANGED <<lifecycle, late, configuredIn>>
    BY <1>5 DEF Joined
  <2>2. PICK k \in Slot :
          /\ dial' = [dial EXCEPT ![n][k] = FreeRun]
          /\ IF IsRunning
               THEN applied' = [applied EXCEPT ![n] = Finished(n, k)]
               ELSE applied' = [applied EXCEPT ![n] = NoEntry]
    BY <1>5 DEF Joined
  <2>3. \A m \in Net : Sheds(m)
    BY <2>1, <2>2, FreedRun
  <2>4. \A m \in Net \ {n} : applied'[m] = applied[m]
    BY <1>0, <2>2
  <2>5. CASE IsRunning
    <3>1. applied'[n].addrs = applied[n].addrs /\ applied'[n].present = applied[n].present
      BY <1>0, <2>2, <2>5, FinishedAddrs
    <3>. QED BY <2>1, <2>3, <2>4, <3>1, ShedsCovered DEF EmptyEntry
  <2>6. CASE ~IsRunning
    <3>1. applied'[n] = NoEntry
      BY <1>0, <2>2, <2>6
    <3>2. EmptyEntry'
      BY <2>4, <3>1 DEF EmptyEntry, NoEntry
    <3>3. Before => applied[n].addrs = {}
      BY <2>6 DEF Before, IsRunning, NodeAgrees, EntryIffJoined, EmptyEntry
    <3>4. Before => \A m \in Net : applied'[m].addrs = applied[m].addrs
      BY <2>4, <3>1, <3>3 DEF NoEntry
    <3>. QED BY <2>1, <2>3, <3>2, <3>4, ShedsCovered
  <2>. QED BY <2>5, <2>6
<1>6. CASE Leave(w, n)
  <2>1. LeaveTopic(n) /\ UNCHANGED <<lifecycle, late>>
    BY <1>6 DEF Leave
  <2>2. /\ \A m \in Net : Sheds(m)
        /\ Covered(n)' /\ applied'[n] = NoEntry
        /\ \A m \in Net \ {n} : applied'[m] = applied[m]
    BY <2>1, LeaveTopicSheds
  <2>. QED BY <2>1, <2>2, ShedsCovered DEF EmptyEntry, NoEntry
<1>. QED BY <1>2, <1>3, <1>4, <1>5, <1>6 DEF Reconcile

\* A step of a bootstrap run registers what it still had to.
LEMMA DialRecords ==
  ASSUME TypeOK, EmptyEntry, NEW n \in Net, NEW k \in Slot, Dialing(n, k)
  PROVE  /\ EmptyEntry'
         /\ (\A m \in Net : Covered(m)) => \A m \in Net : Covered(m)'
         /\ (\A m \in Net : Sheds(m)) \/ Live(n, k)
         /\ \A m \in Net, j \in Slot : Live(m, j)' => Live(m, j)
<1>0. applied \in [Net -> Entry] /\ dial \in [Net -> [Slot -> Run]] /\ configuredIn \in [Net -> SUBSET Addr]
  BY DEF TypeOK
<1>1. CASE DialNext(n, k)
  <2>1. applied' = applied /\ Live(n, k)
    BY <1>1 DEF DialNext, wrapperVars, Live
  <2>2. PICK a \in dial[n][k].todo :
          /\ dial' = [dial EXCEPT ![n][k].todo = @ \ {a}]
          /\ configuredIn' = [configuredIn EXCEPT ![n] = @ \cup {a}]
    BY <1>1 DEF DialNext
  <2>3. dial[n][k] \in Run
    BY <1>0
  <2>4. /\ \A m \in Net \ {n} : dial'[m] = dial[m] /\ configuredIn'[m] = configuredIn[m]
        /\ \A j \in Slot \ {k} : dial'[n][j] = dial[n][j]
        /\ dial'[n][k] = [dial[n][k] EXCEPT !.todo = @ \ {a}]
        /\ configuredIn'[n] = configuredIn[n] \cup {a}
    BY <1>0, <2>2
  <2>5. /\ dial'[n][k].state = dial[n][k].state /\ dial'[n][k].superseded = dial[n][k].superseded
        /\ dial'[n][k].todo = dial[n][k].todo \ {a}
    BY <2>3, <2>4 DEF Run
  <2>6. /\ \A m \in Net, j \in Slot : Live(m, j)' => Live(m, j) /\ dial'[m][j].todo \subseteq dial[m][j].todo
        /\ \A m \in Net \ {n} : configuredIn'[m] = configuredIn[m]
        /\ configuredIn'[n] \subseteq configuredIn[n] \cup dial[n][k].todo
    BY <2>1, <2>4, <2>5 DEF Live
  <2>. QED BY <2>1, <2>6 DEF EmptyEntry, Covered
<1>2. CASE DialEnd(n, k)
  <2>1. applied' = applied /\ configuredIn' = configuredIn
    BY <1>2 DEF DialEnd, wrapperVars
  <2>2. PICK result \in {"completed", "incomplete"} :
          dial' = [dial EXCEPT ![n][k] = [FreeRun EXCEPT !.state = result, !.awaited = dial[n][k].awaited]]
    BY <1>2 DEF DialEnd
  <2>3. /\ \A m \in Net \ {n} : dial'[m] = dial[m]
        /\ \A j \in Slot \ {k} : dial'[n][j] = dial[n][j]
        /\ dial'[n][k].state = result
    BY <1>0, <2>2 DEF FreeRun
  <2>4. \A m \in Net : Sheds(m)
    BY <2>1, <2>3 DEF Sheds, Live
  <2>. QED BY <2>1, <2>4, ShedsCovered DEF EmptyEntry, Sheds
<1>3. CASE DialReported(n, k)
  <2>1. /\ applied' = [applied EXCEPT ![n] = Finished(n, k)]
        /\ dial' = [dial EXCEPT ![n][k] = FreeRun] /\ configuredIn' = configuredIn
    BY <1>3 DEF DialReported
  <2>2. \A m \in Net : Sheds(m)
    BY <2>1, FreedRun
  <2>3. \A m \in Net : applied'[m].addrs = applied[m].addrs /\ applied'[m].present = applied[m].present
    BY <1>0, <2>1, FinishedAddrs
  <2>. QED BY <2>2, <2>3, ShedsCovered DEF EmptyEntry, Sheds
<1>. QED BY <1>1, <1>2, <1>3 DEF Dialing

\* A step of a controller that neither moves the node nor touches a list, and one that
\* leaves or takes up a membership on a node whose phase it does not move.
LEMMA LoopRecords ==
  ASSUME TypeOK, EntryIffJoined, NodeAgrees, EmptyEntry, NEW c \in Controller,
         \/ StartCall(c) \/ StopCall(c) \/ StartRefused(c) \/ StartJoining(c) \/ StartOvertaken(c) \/ StartNext(c)
         \/ StartUndo(c) \/ StopClose(c) \/ StopDrained(c) \/ StartFailed(c)
         \/ \E n \in Net : \/ StartSkip(c, n) \/ StartJoin(c, n) \/ StartThrows(c, n)
                           \/ StartUnjoin(c, n) \/ StartUnjoinThrows(c, n) \/ StartUnjoined(c, n)
  PROVE  /\ lifecycle' = lifecycle /\ late' = late /\ EmptyEntry'
         /\ pc'[c] \notin Quit
         /\ lifecycle # "stopping" \/ \A m \in Net : Sheds(m)
         /\ Before /\ (\A m \in Net : Covered(m)) => \A m \in Net : Covered(m)'
<1>. USE DEF netVars, flagVars, lifeVars, wrapperVars
<1>0. /\ applied \in [Net -> Entry] /\ dial \in [Net -> [Slot -> Run]] /\ configuredIn \in [Net -> SUBSET Addr]
      /\ pc \in [Proc -> Place] /\ c \in Proc
  BY DEF TypeOK, Proc
<1>1. ASSUME UNCHANGED <<applied, dial, configuredIn>>
      PROVE  /\ EmptyEntry' /\ \A m \in Net : Sheds(m)
             /\ (\A m \in Net : Covered(m)) => \A m \in Net : Covered(m)'
  BY <1>1 DEF EmptyEntry, Sheds, Covered, Live
<1>2. CASE \/ StartCall(c) \/ StopCall(c) \/ StartRefused(c) \/ StartJoining(c) \/ StartOvertaken(c) \/ StartNext(c)
           \/ StartUndo(c) \/ StopDrained(c)
  <2>1. UNCHANGED <<applied, dial, configuredIn, lifecycle, late>>
    BY <1>2 DEF StartCall, StopCall, StartRefused, StartJoining, StartOvertaken, StartNext, StartUndo, StopDrained
  <2>2. pc'[c] \notin Quit
    BY <1>0, <1>2 DEF StartCall, StopCall, StartRefused, StartJoining, StartOvertaken, StartNext, StartUndo, StopDrained, Quit
  <2>. QED BY <1>1, <2>1, <2>2
<1>3. ASSUME NEW n \in Net, StartSkip(c, n) \/ StartThrows(c, n) \/ StartUnjoinThrows(c, n) \/ StartUnjoined(c, n)
      PROVE  UNCHANGED <<applied, dial, configuredIn, lifecycle, late>> /\ pc'[c] \notin Quit
  BY <1>0, <1>3 DEF StartSkip, StartThrows, StartUnjoinThrows, StartUnjoined, ToLoop, Quit
<1>4. CASE StopClose(c)
  <2>1. UNCHANGED <<applied, configuredIn, lifecycle, late>> /\ dial' = AllSuperseded /\ pc'[c] \notin Quit
    BY <1>0, <1>4 DEF StopClose, Quit
  <2>2. \A m \in Net, k \in Slot : ~Live(m, k)'
    BY <2>1, SupersededRuns DEF Live
  <2>3. \A m \in Net : Sheds(m)
    BY <2>1, <2>2 DEF Sheds
  <2>. QED BY <2>1, <2>3, ShedsCovered DEF EmptyEntry
<1>5. CASE StartFailed(c)
  <2>1. UNCHANGED <<dial, configuredIn, lifecycle, late>> /\ pc'[c] \notin Quit
    BY <1>0, <1>5 DEF StartFailed, Quit
  <2>2. CASE UNCHANGED applied
    BY <1>1, <2>1, <2>2
  <2>3. CASE ~IsRunning /\ ForgetMembership
    <3>1. \A m \in Net : applied'[m] = NoEntry
      BY <2>3 DEF ForgetMembership
    <3>2. Before => \A m \in Net : applied[m].addrs = {}
      BY <2>3 DEF Before, IsRunning, NodeAgrees, EntryIffJoined, EmptyEntry
    <3>3. \A m \in Net : Sheds(m)
      BY <2>1 DEF Sheds, Live
    <3>4. Before => \A m \in Net : applied'[m].addrs = applied[m].addrs
      <4>1. NoEntry.addrs = {}
        BY DEF NoEntry
      <4>. QED BY <3>1, <3>2, <4>1
    <3>5. EmptyEntry'
      BY <3>1 DEF EmptyEntry, NoEntry
    <3>. QED BY <2>1, <3>3, <3>4, <3>5, ShedsCovered
  <2>. QED BY <1>5, <2>2, <2>3 DEF StartFailed
<1>6. ASSUME NEW n \in Net, StartUnjoin(c, n)
      PROVE  /\ lifecycle' = lifecycle /\ late' = late /\ EmptyEntry'
             /\ pc'[c] \notin Quit
             /\ \A m \in Net : Sheds(m)
             /\ (\A m \in Net : Covered(m)) => \A m \in Net : Covered(m)'
  <2>1. UNCHANGED <<lifecycle, late>> /\ pc'[c] \notin Quit
    BY <1>0, <1>6 DEF StartUnjoin, StartLock, Quit
  <2>2. CASE UNCHANGED <<applied, dial, configuredIn>>
    BY <1>1, <2>1, <2>2
  <2>3. CASE LeaveTopic(n)
    <3>1. /\ \A m \in Net : Sheds(m)
          /\ Covered(n)' /\ applied'[n] = NoEntry
          /\ \A m \in Net \ {n} : applied'[m] = applied[m]
      BY <2>3, LeaveTopicSheds
    <3>. QED BY <2>1, <3>1, ShedsCovered DEF EmptyEntry, NoEntry
  <2>. QED BY <1>6, <2>2, <2>3 DEF StartUnjoin
<1>7. ASSUME NEW n \in Net, StartJoin(c, n)
      PROVE  /\ lifecycle' = lifecycle /\ late' = late /\ EmptyEntry'
             /\ pc'[c] \notin Quit /\ lifecycle # "stopping"
             /\ (\A m \in Net : Covered(m)) => \A m \in Net : Covered(m)'
  <2>1. /\ n \notin joined /\ lifecycle = "running" /\ UNCHANGED <<lifecycle, late>> /\ pc'[c] \notin Quit
        /\ Install(n, row[n].peers, FALSE, dial, configured, configuredIn)
    BY <1>0, <1>7 DEF StartJoin, CanJoin, IsRunning, ToLoop, Quit
  <2>2. applied[n].addrs = {}
    BY <2>1 DEF EntryIffJoined, EmptyEntry
  <2>3. ASSUME \A m \in Net : Covered(m)
        PROVE  \A m \in Net : Covered(m)'
    <3>1. configuredIn[n] \subseteq row[n].peers
          /\ \A k \in Slot : dial[n][k].state = "walking" /\ ~dial[n][k].superseded => dial[n][k].todo \subseteq row[n].peers
      BY <2>2, <2>3 DEF Covered, Live
    <3>2. FALSE \in BOOLEAN
      OBVIOUS
    <3>3. Covered(n)' /\ applied'[n].present
      BY <1>0, <2>1, <3>1, <3>2, RowPeers, InstallRecords
    <3>4. ASSUME NEW m \in Net \ {n}
          PROVE  applied'[m] = applied[m] /\ dial'[m] = dial[m] /\ configuredIn'[m] = configuredIn[m]
      BY <1>0, <2>1 DEF Install
    <3>. QED BY <2>3, <3>3, <3>4 DEF Covered, Live
  <2>4. EmptyEntry'
    BY <2>1, InstallEntry DEF EmptyEntry
  <2>. QED BY <2>1, <2>3, <2>4
<1>. QED BY <1>1, <1>2, <1>3, <1>4, <1>5, <1>6, <1>7

\* A step of the call that holds the lifecycle mutex moves the node: nobody else is
\* taking it down.
LEMMA NodeRecords ==
  ASSUME TypeOK, LifeHeld, BuiltByOne, EmptyEntry, StoppedByOne, Recorded, Stopped, NEW c \in Controller,
         \/ NodeStart(c) \/ NodeStarted(c) \/ NodeStartFailed(c) \/ UndoStop(c) \/ UndoClear(c) \/ UndoEnd(c)
         \/ StopNode(c) \/ StopClear(c) \/ StopEnd(c),
         \A d \in Controller \ {c} : pc'[d] = pc[d]
  PROVE  EmptyEntry' /\ StoppedByOne' /\ Recorded' /\ Stopped'
<1>. USE DEF netVars, flagVars, lifeVars, wrapperVars
<1>0. /\ applied \in [Net -> Entry] /\ dial \in [Net -> [Slot -> Run]] /\ configuredIn \in [Net -> SUBSET Addr]
      /\ pc \in [Proc -> Place] /\ c \in Proc /\ lifeMutex \in Seq(Controller)
  BY DEF TypeOK, Proc
<1>a. ASSUME dial' = AllSuperseded PROVE \A m \in Net, k \in Slot : ~Live(m, k)'
  BY <1>a, SupersededRuns DEF Live
<1>. HIDE DEF TypeOK
<1>1. Owns(c, lifeMutex)
  BY DEF NodeStart, NodeStarted, NodeStartFailed, UndoStop, UndoClear, UndoEnd, StopNode, StopClear, StopEnd,
         NodeStop, NodeClear, LifeHeld
<1>2. \A d \in Controller \ {c} : pc'[d] \notin Quit
  <2>1. \A d : Owns(d, lifeMutex) => d = c
    BY <1>0, <1>1, OwnsQueue
  <2>. QED BY <2>1 DEF LifeHeld, Quit
<1>3. CASE NodeStart(c) \/ NodeStarted(c)
  <2>1. /\ Before /\ lifecycle' \in {"starting", "running"} /\ pc'[c] \notin Quit
        /\ UNCHANGED <<applied, dial, configuredIn, late>>
    BY <1>0, <1>3 DEF NodeStart, NodeStarted, BuiltByOne, Before, Quit
  <2>. QED BY <1>2, <2>1 DEF EmptyEntry, StoppedByOne, Recorded, Stopped, Covered, Live, Before, Quit
<1>4. CASE NodeStartFailed(c)
  <2>1. /\ Before /\ lifecycle' \in {"stopped", "failed"} /\ pc'[c] \notin Quit
        /\ UNCHANGED <<applied, configuredIn, late>> /\ dial' = AllSuperseded
    BY <1>0, <1>4 DEF NodeStartFailed, TornDown, StoreStuck, BuiltByOne, Before, Quit
  <2>. QED BY <1>a, <1>2, <2>1 DEF EmptyEntry, StoppedByOne, Recorded, Stopped, Covered, Quit
<1>5. CASE UndoStop(c) \/ StopNode(c)
  <2>1. UNCHANGED <<applied, configuredIn>>
    BY <1>5 DEF UndoStop, StopNode, NodeStop
  <2>2. CASE terminal
    <3>1. UNCHANGED <<lifecycle, dial, late>> /\ pc'[c] \notin Quit
      BY <1>0, <1>5, <2>2 DEF UndoStop, StopNode, NodeStop, Quit
    <3>. QED BY <1>2, <2>1, <3>1 DEF EmptyEntry, StoppedByOne, Recorded, Stopped, Covered, Live, Before, Quit
  <2>3. CASE ~terminal
    <3>1. lifecycle' = "stopping" /\ dial' = AllSuperseded /\ pc'[c] \in {"undoClear", "stopClear"}
      BY <1>0, <1>5, <2>3 DEF UndoStop, StopNode, NodeStop
    <3>. QED BY <1>a, <1>2, <2>1, <3>1 DEF EmptyEntry, StoppedByOne, Recorded, Stopped, Before, Quit
  <2>. QED BY <2>2, <2>3
<1>6. CASE UndoClear(c) \/ StopClear(c)
  <2>1. /\ lifecycle = "stopping" /\ UNCHANGED <<applied, dial, lifecycle, late>>
        /\ \A n \in Net : configuredIn'[n] = {}
    BY <1>6 DEF UndoClear, StopClear, NodeClear, StoppedByOne, Quit
  <2>. QED BY <2>1 DEF EmptyEntry, StoppedByOne, Recorded, Stopped, Live, Before
<1>7. CASE UndoEnd(c) \/ StopEnd(c)
  <2>1. /\ pc[c] \in {"undoEnd", "stopEnd"} /\ pc'[c] \notin Quit
        /\ UNCHANGED <<dial, configuredIn, late>>
        /\ \/ lifecycle' = "failed" /\ applied' = applied
           \/ lifecycle' = "stopped" /\ ForgetMembership
    BY <1>0, <1>7 DEF UndoEnd, StopEnd, TornDown, NodeStuck, StoreStuck, Quit
  <2>2. ~late => (\A n \in Net : configuredIn[n] = {}) /\ \A n \in Net, k \in Slot : ~Live(n, k)
    BY <2>1 DEF Stopped, StoppedByOne, Quit
  <2>3. CASE lifecycle' = "failed" /\ applied' = applied
    BY <1>2, <2>1, <2>3 DEF EmptyEntry, StoppedByOne, Recorded, Stopped, Before, Quit
  <2>4. CASE lifecycle' = "stopped" /\ ForgetMembership
    <3>1. \A n \in Net : applied'[n] = NoEntry
      BY <2>4 DEF ForgetMembership
    <3>. QED BY <1>2, <2>1, <2>2, <2>4, <3>1 DEF EmptyEntry, StoppedByOne, Recorded, Stopped, Covered, Live, NoEntry, Quit
  <2>. QED BY <2>1, <2>3, <2>4
<1>. QED BY <1>3, <1>4, <1>5, <1>6, <1>7

LEMMA RecordedStep ==
  TypeOK /\ CatalogHeld /\ LifeHeld /\ EntryIffJoined /\ NodeAgrees /\ BuiltByOne
    /\ EmptyEntry /\ StoppedByOne /\ Recorded /\ Stopped /\ [Next]_vars
    => EmptyEntry' /\ StoppedByOne' /\ Recorded' /\ Stopped'
<1>. SUFFICES ASSUME TypeOK, CatalogHeld, LifeHeld, EntryIffJoined, NodeAgrees, BuiltByOne,
                     EmptyEntry, StoppedByOne, Recorded, Stopped, [Next]_vars
              PROVE  EmptyEntry' /\ StoppedByOne' /\ Recorded' /\ Stopped'
  OBVIOUS
<1>1. ASSUME UNCHANGED <<applied, dial, configuredIn, lifecycle, late>>, \A c \in Controller : pc'[c] = pc[c]
      PROVE  EmptyEntry' /\ StoppedByOne' /\ Recorded' /\ Stopped'
  BY <1>1 DEF EmptyEntry, StoppedByOne, Recorded, Stopped, Covered, Live, Before
<1>2. CASE UNCHANGED vars
  BY <1>1, <1>2 DEF vars, clientVars, wrapperVars, flagVars, lifeVars, netVars
<1>3. ASSUME NEW w \in Writer, Submit(w) \/ Write(w)
      PROVE  EmptyEntry' /\ StoppedByOne' /\ Recorded' /\ Stopped'
  <2>1. UNCHANGED <<applied, dial, configuredIn, lifecycle, late>>
    BY <1>3 DEF Submit, Write, SetEnabled, Add, AddIfNotExists, Update, UpdateBootstrapPeers, Delete, Import, Replace,
                NotFound, Commit, wrapperVars, flagVars, lifeVars, netVars
  <2>. QED BY <1>1, <1>3, <2>1, WriterSteps
<1>4. ASSUME lifecycle' = lifecycle, \A c \in Controller : pc'[c] = pc[c] \/ pc'[c] \notin Quit,
             (late' <=> late) \/ lifecycle = "stopping", late => late',
             late' \/ lifecycle # "stopping" \/ \A m \in Net : Sheds(m),
             Before /\ (\A m \in Net : Covered(m)) => \A m \in Net : Covered(m)'
      PROVE  StoppedByOne' /\ Recorded' /\ Stopped'
  <2>1. StoppedByOne'
    BY <1>4 DEF StoppedByOne
  <2>2. Recorded'
    BY <1>4 DEF Recorded, Before
  <2>3. Stopped'
    <3>. SUFFICES ASSUME ~late'
                  PROVE  /\ lifecycle = "stopping" => \A n \in Net, k \in Slot : ~Live(n, k)'
                         /\ \A c \in Controller : pc'[c] \in {"undoEnd", "stopEnd"}
                              => \A n \in Net : configuredIn'[n] = {}
      BY <1>4 DEF Stopped
    <3>1. CASE lifecycle = "stopping"
      <4>1. \A m \in Net : Sheds(m)
        BY <1>4, <3>1
      <4>. QED BY <1>4, <3>1, <4>1 DEF Stopped, Sheds, Quit
    <3>2. CASE lifecycle # "stopping"
      BY <1>4, <2>1, <3>2 DEF StoppedByOne, Quit
    <3>. QED BY <3>1, <3>2
  <2>. QED BY <2>1, <2>2, <2>3
<1>5. ASSUME NEW w \in Writer, NEW n \in Net, Reconcile(w, n)
      PROVE  EmptyEntry' /\ StoppedByOne' /\ Recorded' /\ Stopped'
  <2>1. \A c \in Controller : pc'[c] = pc[c]
    BY <1>5, WriterSteps
  <2>. QED BY <1>4, <1>5, <2>1, TurnRecords
<1>6. ASSUME NEW c \in Controller, StartCall(c) \/ StopCall(c) \/ Starting(c) \/ Stopping(c)
      PROVE  EmptyEntry' /\ StoppedByOne' /\ Recorded' /\ Stopped'
  <2>1. \A d \in Controller \ {c} : pc'[d] = pc[d]
    BY <1>6, ControllerSteps
  <2>2. CASE \/ NodeStart(c) \/ NodeStarted(c) \/ NodeStartFailed(c) \/ UndoStop(c) \/ UndoClear(c) \/ UndoEnd(c)
             \/ StopNode(c) \/ StopClear(c) \/ StopEnd(c)
    BY <2>1, <2>2, NodeRecords
  <2>3. CASE \/ StartCall(c) \/ StopCall(c) \/ StartRefused(c) \/ StartJoining(c) \/ StartOvertaken(c) \/ StartNext(c)
             \/ StartUndo(c) \/ StopClose(c) \/ StopDrained(c) \/ StartFailed(c)
             \/ \E n \in Net : \/ StartSkip(c, n) \/ StartJoin(c, n) \/ StartThrows(c, n)
                               \/ StartUnjoin(c, n) \/ StartUnjoinThrows(c, n) \/ StartUnjoined(c, n)
    BY <1>4, <2>1, <2>3, LoopRecords
  <2>. QED BY <1>6, <2>2, <2>3 DEF Starting, Stopping
<1>7. ASSUME NEW n \in Net, NEW k \in Slot, Dialing(n, k)
      PROVE  EmptyEntry' /\ StoppedByOne' /\ Recorded' /\ Stopped'
  <2>1. UNCHANGED <<lifecycle, late, pc>>
    BY <1>7, DialingSteps DEF flagVars, clientVars, lifeVars
  <2>2. late \/ lifecycle # "stopping" \/ \A m \in Net : Sheds(m)
    BY <1>7, DialRecords DEF Stopped
  <2>. QED BY <1>4, <1>7, <2>1, <2>2, DialRecords
<1>. QED BY <1>2, <1>3, <1>5, <1>6, <1>7, NextCases

\* What a running node holds for a lishnet is part of the list recorded for its
\* membership: replaced lists, rolled back joins and runs that were overtaken leave
\* nothing behind, unless a list was installed while an earlier node was going down
\* (syncBootstrapRuntime, pruneBootstrapStatus, addBootstrapPeers).
THEOREM NothingResurrected == Spec => []NoResurrectedAddress
<1>1. Init => /\ EmptyEntry /\ StoppedByOne /\ Recorded /\ Stopped
              /\ EntryIffJoined /\ NodeAgrees /\ BuiltByOne
  BY DEF Init, EmptyEntry, StoppedByOne, Recorded, Stopped, Covered, Live, NoEntry, FreeRun, Proc, Quit,
         EntryIffJoined, NodeAgrees, BuiltByOne, IsRunning
<1>2. Recorded => NoResurrectedAddress
  BY DEF Recorded, NoResurrectedAddress, IsRunning, Before, Covered
<1>. QED BY <1>1, <1>2, RecordedStep, NodeStep, EntryStep, HeldAlways, PTL DEF Spec
=============================================================================
