----------------------------- MODULE FactoryReset ----------------------------
(***************************************************************************)
(* The factory reset (factory-reset-orchestrator.ts, factory-reset.ts): it *)
(* stops the transfers and the node behind three admission gates, wipes    *)
(* what was asked for and starts again what is left.  The gate of the      *)
(* lishnets is NetworkMutationGate; those of the transfers and of the      *)
(* LISHs are a flag and the calls inside, as Transfer and LishStore show   *)
(* them in detail.                                                         *)
(***************************************************************************)
EXTENDS NetworkMutationGate, Sequences

CONSTANTS Selections   \* what a caller may ask to wipe: sets of categories

Category == {"downloads", "networks", "peers", "identity", "settings"}
ASSUME SelectionsAssumption == Selections \subseteq SUBSET Category

AdmissionGate == {"transfers", "lishs"}

VARIABLES
  reset,       \* per caller: where it is, what is left to wipe, and the locals of the call
  mutex,       \* resetMutex: the callers in order, the first of them inside
  closed,      \* gates that are closed
  inside,      \* gates with calls inside
  transfers,   \* "running", "cleared", or "unsure" when clearing failed half way
  node,        \* "up", "down", or "unsure"
  touched      \* categories wiped while something still ran

resetVars == <<reset, mutex, closed, inside, transfers, node, touched>>

Idle == [at |-> "idle", wipes |-> {}, shut |-> FALSE, safe |-> TRUE, prepared |-> FALSE, failed |-> FALSE]

ResetInit ==
  /\ reset = [m \in Maintainer |-> Idle] /\ mutex = <<>> /\ closed = {} /\ inside = {}
  /\ transfers = "running" /\ node = "up" /\ touched = {}

At(m, at) == reset[m].at = at
Goes(m, at) == reset' = [reset EXCEPT ![m].at = at]
\* A phase throws: prepare leaves the lishnets alone and wipes nothing.
PrepareFails(m, safe) == reset' = [reset EXCEPT ![m].at = "finally", ![m].safe = safe, ![m].failed = TRUE]

Ask(m, wipes) ==
  /\ At(m, "idle") /\ reset' = [reset EXCEPT ![m] = [Idle EXCEPT !.at = "waiting", !.wipes = wipes]]
  /\ mutex' = Append(mutex, m) /\ UNCHANGED <<vars, closed, inside, transfers, node, touched>>

\* Mutant: an empty reset leaves the mutex locked.
LockedKept(m) ==
  /\ At(m, "waiting") /\ Head(mutex) = m
  /\ IF reset[m].wipes = {} THEN Goes(m, "idle") /\ UNCHANGED vars
     ELSE Prepare(m) /\ Goes(m, "leased")
  /\ UNCHANGED <<mutex, closed, inside, transfers, node, touched>>

\* Nothing selected is an answer at once; else the lishnet writes are shut out.
Locked(m) ==
  /\ At(m, "waiting") /\ Head(mutex) = m
  /\ IF reset[m].wipes = {} THEN Goes(m, "idle") /\ mutex' = Tail(mutex) /\ UNCHANGED vars
     ELSE Prepare(m) /\ Goes(m, "leased") /\ UNCHANGED mutex
  /\ UNCHANGED <<closed, inside, transfers, node, touched>>

\* Both gates are closed before the first await.
ClosesGates(m) ==
  /\ At(m, "leased") /\ closed' = AdmissionGate
  /\ reset' = [reset EXCEPT ![m].at = "pausing", ![m].shut = TRUE]
  /\ UNCHANGED <<vars, mutex, inside, transfers, node, touched>>

\* Mutant: the calls under way are not waited for.
PausedEarly(m) == At(m, "pausing") /\ Goes(m, "clearing") /\ UNCHANGED <<vars, mutex, closed, inside, transfers, node, touched>>

Paused(m) ==
  /\ At(m, "pausing") /\ inside = {} /\ Goes(m, "clearing")
  /\ UNCHANGED <<vars, mutex, closed, inside, transfers, node, touched>>

\* clearAllTransfers: a failure may have put back what it had stopped.
Cleared(m) ==
  /\ At(m, "clearing")
  /\ \/ /\ transfers' = "cleared" /\ reset' = [reset EXCEPT ![m].at = "draining", ![m].safe = FALSE]
     \/ transfers = "running" /\ PrepareFails(m, TRUE) /\ UNCHANGED transfers
     \/ transfers' = "unsure" /\ PrepareFails(m, FALSE)
  /\ UNCHANGED <<vars, mutex, closed, inside, node, touched>>

\* The lishnet writes are cancelled and waited for.
Drains(m) ==
  /\ At(m, "draining")
  /\ IF mpc[m] = "exclusive" THEN Goes(m, "stopping") /\ UNCHANGED vars
     ELSE (Drain(m) \/ Drained(m)) /\ UNCHANGED reset
  /\ UNCHANGED <<mutex, closed, inside, transfers, node, touched>>

NodeStopped(m) ==
  /\ At(m, "stopping")
  /\ \/ node' = "down" /\ reset' = [reset EXCEPT ![m].at = "wiping", ![m].prepared = TRUE]
     \/ node' = "unsure" /\ PrepareFails(m, FALSE)
  /\ UNCHANGED <<vars, mutex, closed, inside, transfers, touched>>

Runs == inside # {} \/ transfers # "cleared" \/ node # "down" \/ \E w \in Writer : wpc[w] = "inside"

\* One category after the other, whatever became of those before.
Wipes(m, c) ==
  /\ At(m, "wiping") /\ c \in reset[m].wipes
  /\ \E fails \in BOOLEAN : /\ reset' = [reset EXCEPT ![m].wipes = @ \ {c}, ![m].failed = @ \/ fails]
                            /\ touched' = IF ~fails /\ Runs THEN touched \cup {c} ELSE touched
  /\ UNCHANGED <<vars, mutex, closed, inside, transfers, node>>

\* The node starts over what is left, then the transfers: what cannot be brought back keeps
\* the gates closed.
NodeStarted(m) ==
  /\ At(m, "wiping") /\ reset[m].wipes = {}
  /\ \/ node' = "up" /\ Goes(m, "restoring")
     \/ node' = "unsure" /\ PrepareFails(m, FALSE)
  /\ UNCHANGED <<vars, mutex, closed, inside, transfers, touched>>
Restored(m) ==
  /\ At(m, "restoring")
  /\ \/ transfers' = "running" /\ reset' = [reset EXCEPT ![m].at = "finally", ![m].safe = TRUE]
     \/ transfers' = "unsure" /\ PrepareFails(m, FALSE)
  /\ UNCHANGED <<vars, mutex, closed, inside, node, touched>>

\* Mutant: the gates are opened whatever happened.
EndsOpen(m) ==
  /\ At(m, "finally") /\ Release(m) /\ mutex' = Tail(mutex) /\ Goes(m, "idle")
  /\ closed' = {} /\ UNCHANGED <<inside, transfers, node, touched>>

\* finally: the gates reopen over a runtime known to be whole; the lease is always given back.
Ends(m) ==
  /\ At(m, "finally") /\ Release(m) /\ mutex' = Tail(mutex) /\ Goes(m, "idle")
  /\ closed' = IF reset[m].shut /\ reset[m].safe THEN {} ELSE closed
  /\ UNCHANGED <<inside, transfers, node, touched>>

-----------------------------------------------------------------------------
(* Calls that come through the gates meanwhile.                            *)

CallEnters(g) == g \notin closed /\ g \notin inside /\ inside' = inside \cup {g}
                 /\ UNCHANGED <<vars, reset, mutex, closed, transfers, node, touched>>
CallLeaves(g) == g \in inside /\ inside' = inside \ {g}
                 /\ UNCHANGED <<vars, reset, mutex, closed, transfers, node, touched>>
WriteMoves == /\ \E w \in Writer : Enter(w) \/ EnterAgain(w) \/ Leave(w)
              /\ UNCHANGED resetVars

ResetStep(m) ==
  \/ Locked(m) \/ ClosesGates(m) \/ Paused(m) \/ Cleared(m) \/ Drains(m) \/ NodeStopped(m)
  \/ NodeStarted(m) \/ Restored(m) \/ Ends(m) \/ \E c \in Category : Wipes(m, c)
ResetNext ==
  \/ \E m \in Maintainer : ResetStep(m) \/ \E s \in Selections : Ask(m, s)
  \/ \E g \in AdmissionGate : CallEnters(g) \/ CallLeaves(g)
  \/ WriteMoves

allResetVars == <<vars, resetVars>>
ResetSpec == Init /\ ResetInit /\ [][ResetNext]_allResetVars

-----------------------------------------------------------------------------
\* What is wiped belongs to nobody: no transfer runs, no call or lishnet write is inside and
\* the node is down, whatever failed on the way and however many resets were asked for.
WipedIsQuiet == touched = {}

\* Calls are let in only over a runtime that is whole: a reset that leaves the node or the
\* transfers half way keeps the gates shut, and only one that brought them back opens them.
OpenIsWhole == closed # AdmissionGate => node = "up" /\ transfers = "running"

\* A factory reset wipes only what has stopped, and the gates open again over
\* a program that runs (factory-reset-orchestrator.ts, prepare and its handler).
ResetIsWhole == WipedIsQuiet /\ OpenIsWhole

\* A reset that was asked for comes to its end, ...
ResetEnds(m) == At(m, "waiting") ~> At(m, "idle")
\* ... and the lishnet writes it held up go on.
WriteGoesOn(w) == wpc[w] = "parked" ~> wpc[w] # "parked"
=============================================================================
