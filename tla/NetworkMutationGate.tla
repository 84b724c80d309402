------------------------- MODULE NetworkMutationGate -------------------------
(***************************************************************************)
(* The admission gate of the lishnet layer (lishnets.ts).                  *)
(*                                                                         *)
(* Ordinary lishnet writes run concurrently: each enters the gate, runs    *)
(* and leaves.  A maintenance pass (the factory reset) takes a lease that  *)
(* closes the gate, may wait until every write that had entered is done,   *)
(* and reopens the gate when it releases the lease.                        *)
(*                                                                         *)
(* A promise that has been resolved and a continuation that has run are    *)
(* two different moments in JavaScript, so a caller that was parked is     *)
(* first "woken" and looks at the gate again in a step of its own.         *)
(***************************************************************************)
EXTENDS Integers, FiniteSets

CONSTANTS Writer,      \* callers of enter(): one lishnet write each
          Maintainer   \* callers of prepareMaintenance()

ASSUME CallersAssumption == /\ IsFiniteSet(Writer)
                            /\ Writer \cap Maintainer = {}

VARIABLES maintenance,   \* the gate is closed
          active,        \* number of writes inside, as the code counts them
          drainWaiters,  \* maintainers parked in drain()
          openWaiters,   \* callers parked until the gate opens
          wpc,           \* where each write is
          mpc            \* where each maintenance pass is

vars == <<maintenance, active, drainWaiters, openWaiters, wpc, mpc>>

WriterPC == {"outside", "parked", "woken", "inside"}
MaintainerPC == {"outside", "parked", "woken", "leased", "draining", "drainWoken", "exclusive"}

\* The maintainers that own a lease not released yet.
Leaseholders == {m \in Maintainer : mpc[m] \in {"leased", "draining", "drainWoken", "exclusive"}}

TypeOK == /\ maintenance \in BOOLEAN
          /\ active \in Nat
          /\ drainWaiters \subseteq Maintainer
          /\ openWaiters \subseteq Writer \cup Maintainer
          /\ wpc \in [Writer -> WriterPC]
          /\ mpc \in [Maintainer -> MaintainerPC]

Init == /\ maintenance = FALSE
        /\ active = 0
        /\ drainWaiters = {}
        /\ openWaiters = {}
        /\ wpc = [w \in Writer |-> "outside"]
        /\ mpc = [m \in Maintainer |-> "outside"]

-----------------------------------------------------------------------------
(* Writes *)

\* Mutant: the gate is not looked at.
TakeUnchecked(w) == /\ active' = active + 1
                    /\ wpc' = [wpc EXCEPT ![w] = "inside"]
                    /\ UNCHANGED <<maintenance, drainWaiters, openWaiters, mpc>>

\* take(): count the write in.
Take(w) == /\ ~maintenance
           /\ active' = active + 1
           /\ wpc' = [wpc EXCEPT ![w] = "inside"]
           /\ UNCHANGED <<maintenance, drainWaiters, openWaiters, mpc>>

\* Wait for the gate: on the first call, and again after a wake-up that came
\* too late.
Park(w) == /\ maintenance
           /\ openWaiters' = openWaiters \cup {w}
           /\ wpc' = [wpc EXCEPT ![w] = "parked"]
           /\ UNCHANGED <<maintenance, active, drainWaiters, mpc>>

\* enter(): straight in while the gate is open, otherwise the slow path.
Enter(w) == wpc[w] = "outside" /\ (Take(w) \/ Park(w))

\* Mutant: a woken write enters without looking at the gate again.
EnterAgainBlindly(w) == wpc[w] = "woken" /\ TakeUnchecked(w)

\* enterAfterMaintenance(): the loop looks at the gate again.
EnterAgain(w) == wpc[w] = "woken" /\ (Take(w) \/ Park(w))

\* Mutant: without the "left" flag a write can be counted out twice.
LeaveTwice(w) ==
  /\ wpc[w] \in {"inside", "outside"}
  /\ active > -2
  /\ wpc' = [wpc EXCEPT ![w] = "outside"]
  /\ active' = active - 1
  /\ UNCHANGED <<maintenance, openWaiters, drainWaiters, mpc>>

\* Mutant: the last write out wakes nobody.
LeaveSilently(w) ==
  /\ wpc[w] = "inside"
  /\ wpc' = [wpc EXCEPT ![w] = "outside"]
  /\ active' = active - 1
  /\ UNCHANGED <<maintenance, openWaiters, drainWaiters, mpc>>

\* The function take() returned: the last write out wakes those who drain.
Leave(w) ==
  /\ wpc[w] = "inside"
  /\ wpc' = [wpc EXCEPT ![w] = "outside"]
  /\ active' = active - 1
  /\ IF active - 1 = 0
       THEN /\ drainWaiters' = {}
            /\ mpc' = [m \in Maintainer |-> IF m \in drainWaiters THEN "drainWoken" ELSE mpc[m]]
       ELSE UNCHANGED <<drainWaiters, mpc>>
  /\ UNCHANGED <<maintenance, openWaiters>>

-----------------------------------------------------------------------------
(* Maintenance *)

\* prepareMaintenance(): close the gate, or wait for the pass that closed it.
Prepare(m) ==
  /\ mpc[m] \in {"outside", "woken"}
  /\ IF maintenance
       THEN /\ openWaiters' = openWaiters \cup {m}
            /\ mpc' = [mpc EXCEPT ![m] = "parked"]
            /\ UNCHANGED maintenance
       ELSE /\ maintenance' = TRUE
            /\ mpc' = [mpc EXCEPT ![m] = "leased"]
            /\ UNCHANGED openWaiters
  /\ UNCHANGED <<active, drainWaiters, wpc>>

\* lease.drain(): nothing to wait for, or park until the last write leaves.
Drain(m) ==
  /\ mpc[m] = "leased"
  /\ IF active = 0
       THEN mpc' = [mpc EXCEPT ![m] = "exclusive"] /\ UNCHANGED drainWaiters
       ELSE /\ mpc' = [mpc EXCEPT ![m] = "draining"]
            /\ drainWaiters' = drainWaiters \cup {m}
  /\ UNCHANGED <<maintenance, active, openWaiters, wpc>>

\* The awaited drain promise was resolved; the code does not look again.
Drained(m) ==
  /\ mpc[m] = "drainWoken"
  /\ mpc' = [mpc EXCEPT ![m] = "exclusive"]
  /\ UNCHANGED <<maintenance, active, drainWaiters, openWaiters, wpc>>

\* lease.release(): after the exclusive work, or at once when the preparation
\* of the reset failed.  Everyone parked is woken.
Release(m) ==
  /\ mpc[m] \in {"leased", "exclusive"}
  /\ maintenance' = FALSE
  /\ openWaiters' = {}
  /\ wpc' = [w \in Writer |-> IF w \in openWaiters THEN "woken" ELSE wpc[w]]
  /\ mpc' = [o \in Maintainer |-> IF o = m THEN "outside"
                                  ELSE IF o \in openWaiters THEN "woken" ELSE mpc[o]]
  /\ UNCHANGED <<active, drainWaiters>>

-----------------------------------------------------------------------------

Next == \/ \E w \in Writer : Enter(w) \/ EnterAgain(w) \/ Leave(w)
        \/ \E m \in Maintainer : Prepare(m) \/ Drain(m) \/ Drained(m) \/ Release(m)

Spec == Init /\ [][Next]_vars

\* Continuations of resolved promises run; a write that is inside ends (its
\* convergence is cancelled by the reset if need be); a lease is released in
\* the reset's finally block.
Fairness == /\ \A w \in Writer : WF_vars(EnterAgain(w)) /\ WF_vars(Leave(w))
            /\ \A m \in Maintainer : /\ WF_vars(mpc[m] = "woken" /\ Prepare(m))
                                     /\ WF_vars(Drained(m))
                                     /\ WF_vars(Release(m))

FairSpec == Spec /\ Fairness

-----------------------------------------------------------------------------
(* Properties *)

\* A maintenance pass that has drained works alone: no lishnet write is inside
\* the gate and no other pass holds a lease, until it releases its own.
Exclusion ==
  \A m \in Maintainer : mpc[m] = "exclusive" =>
    /\ \A w \in Writer : wpc[w] # "inside"
    /\ Leaseholders = {m}

\* A write that was counted in before the gate closed is never thrown out, and
\* while the gate is closed nothing new gets in.
NothingEntersClosedGate ==
  [][\A w \in Writer : (wpc[w] # "inside" /\ wpc'[w] = "inside") => Leaseholders' = {}]_vars

\* A pass that asked to drain gets its exclusive turn.
DrainEnds(m) == mpc[m] = "draining" ~> mpc[m] = "exclusive"
=============================================================================
