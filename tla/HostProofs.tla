------------------------------ MODULE HostProofs ------------------------------
(***************************************************************************)
(* What the backend keeps for the whole host: the lishnet mutation gate,   *)
(* for any finite set of writes and any set of maintenance passes; over it *)
(* the factory reset, which wipes only what has stopped and opens its      *)
(* gates over a program that runs; the settings; and the volume; for any   *)
(* number of resets, calls and changes at the mixer.                       *)
(***************************************************************************)
EXTENDS MCReset, FiniteSetTheorems, SequenceTheorems, TLAPS

-----------------------------------------------------------------------------
(* The gate.  Exclusion is not inductive: that nobody is inside when a     *)
(* pass has been woken from its drain depends on the counter being exact,  *)
(* on the flag being up exactly while a lease is held, and on there being  *)
(* one lease.                                                              *)

Inside == {w \in Writer : wpc[w] = "inside"}

\* The counter is the number of writes inside.
CountExact == active = Cardinality(Inside)

\* The flag is up exactly while a pass holds a lease.
FlagIsLease == maintenance <=> Leaseholders # {}

\* At most one pass holds a lease.
OneLease == \A m, n \in Leaseholders : m = n

\* A pass whose drain ended has the gate to itself.
DrainedIsEmpty == \A m \in Maintainer : mpc[m] \in {"drainWoken", "exclusive"} => Inside = {}

\* Those parked in drain are the drain waiters.
DrainWaitersParked == drainWaiters = {m \in Maintainer : mpc[m] = "draining"}

\* Those registered to be woken when the gate opens are parked.
OpenWaitersParked ==
  /\ \A w \in Writer : w \in openWaiters => wpc[w] = "parked"
  /\ \A m \in Maintainer : m \in openWaiters => mpc[m] = "parked"

IInv == /\ TypeOK
        /\ CountExact
        /\ FlagIsLease
        /\ OneLease
        /\ DrainedIsEmpty
        /\ DrainWaitersParked
        /\ OpenWaitersParked

-----------------------------------------------------------------------------

\* Any set of writes is finite, so its cardinality is zero exactly when it is
\* empty.
LEMMA WritesFinite ==
  ASSUME NEW S \in SUBSET Writer
  PROVE  /\ IsFiniteSet(S)
         /\ Cardinality(S) \in Nat
         /\ (Cardinality(S) = 0 <=> S = {})
<1>1. IsFiniteSet(S)
  BY FS_Subset, CallersAssumption
<1> QED
  BY <1>1, FS_CardinalityType, FS_EmptySet

\* One more write inside is one more in the count.
LEMMA InsideGrows ==
  ASSUME TypeOK, CountExact, NEW w \in Writer, wpc[w] # "inside",
         wpc' = [wpc EXCEPT ![w] = "inside"], active' = active + 1
  PROVE  CountExact'
<1>1. Inside' = Inside \cup {w} /\ w \notin Inside
  BY DEF Inside, TypeOK
<1>2. IsFiniteSet(Inside)
  BY WritesFinite DEF Inside
<1>3. Cardinality(Inside') = Cardinality(Inside) + 1
  BY <1>1, <1>2, FS_AddElement
<1> QED
  BY <1>3 DEF CountExact

\* One write less inside is one less in the count.
LEMMA InsideShrinks ==
  ASSUME TypeOK, CountExact, NEW w \in Writer, wpc[w] = "inside",
         wpc' = [wpc EXCEPT ![w] = "outside"], active' = active - 1
  PROVE  CountExact'
<1>1. Inside' = Inside \ {w} /\ w \in Inside
  BY DEF Inside, TypeOK
<1>2. IsFiniteSet(Inside)
  BY WritesFinite DEF Inside
<1>3. Cardinality(Inside') = Cardinality(Inside) - 1
  BY <1>1, <1>2, FS_RemoveElement
<1> QED
  BY <1>3 DEF CountExact

-----------------------------------------------------------------------------

LEMMA InitIInv == Init => IInv
<1> SUFFICES ASSUME Init PROVE IInv
  OBVIOUS
<1>1. Inside = {}
  BY DEF Init, Inside
<1>2. Leaseholders = {}
  BY DEF Init, Leaseholders
<1>3. TypeOK
  BY DEF Init, TypeOK, WriterPC, MaintainerPC
<1>4. CountExact
  BY <1>1, FS_EmptySet DEF Init, CountExact
<1> QED
  BY <1>1, <1>2, <1>3, <1>4
  DEF Init, IInv, FlagIsLease, OneLease, DrainedIsEmpty, DrainWaitersParked, OpenWaitersParked

\* A write goes in only while no pass holds a lease.
LEMMA TakeIInv ==
  ASSUME IInv, NEW w \in Writer, wpc[w] \in {"outside", "woken"}, Take(w)
  PROVE  IInv'
<1> USE DEF IInv, Take
<1>1. Leaseholders' = {}
  BY DEF FlagIsLease, Leaseholders
<1>2. TypeOK'
  BY DEF TypeOK, WriterPC
<1>3. CountExact'
  BY InsideGrows
<1>4. DrainedIsEmpty'
  BY <1>1 DEF DrainedIsEmpty, Leaseholders
<1>5. OpenWaitersParked'
  BY DEF OpenWaitersParked, TypeOK
<1> QED
  BY <1>1, <1>2, <1>3, <1>4, <1>5 DEF FlagIsLease, OneLease, DrainWaitersParked

\* A write that waits changes nothing the passes look at.
LEMMA ParkIInv ==
  ASSUME IInv, NEW w \in Writer, wpc[w] \in {"outside", "woken"}, Park(w)
  PROVE  IInv'
<1> USE DEF IInv, Park
<1>1. TypeOK'
  BY DEF TypeOK, WriterPC
<1>2. Inside' = Inside
  BY DEF TypeOK, Inside
<1>3. Leaseholders' = Leaseholders
  BY DEF Leaseholders
<1>4. OpenWaitersParked'
  BY CallersAssumption DEF OpenWaitersParked, TypeOK
<1> QED
  BY <1>1, <1>2, <1>3, <1>4
  DEF CountExact, FlagIsLease, OneLease, DrainedIsEmpty, DrainWaitersParked

\* The last write out leaves the gate empty for those it wakes.
LEMMA LeaveIInv ==
  ASSUME IInv, NEW w \in Writer, Leave(w)
  PROVE  IInv'
<1> USE DEF IInv
<1>1. CountExact'
  BY InsideShrinks DEF Leave
<1>2. wpc' \in [Writer -> WriterPC]
  BY DEF Leave, TypeOK, WriterPC
<1>3. active' = Cardinality(Inside') /\ active' \in Nat
  BY <1>1, WritesFinite DEF CountExact, Inside
<1>4. Inside' \subseteq Inside
  BY DEF Leave, TypeOK, Inside
<1>5. CASE active - 1 = 0
  <2>1. Inside' = {}
    <3>1. active' = 0
      BY <1>5 DEF Leave
    <3>2. Cardinality(Inside') = 0 <=> Inside' = {}
      BY WritesFinite DEF Inside
    <3> QED
      BY <3>1, <3>2, <1>3
  <2>2. /\ drainWaiters' = {}
        /\ mpc' = [m \in Maintainer |-> IF m \in drainWaiters THEN "drainWoken" ELSE mpc[m]]
        /\ UNCHANGED <<maintenance, openWaiters>>
    BY <1>5 DEF Leave
  <2>3. Leaseholders' = Leaseholders
    BY <2>2 DEF Leaseholders, DrainWaitersParked, TypeOK
  <2>4. TypeOK'
    BY <1>2, <1>3, <2>2 DEF TypeOK, MaintainerPC
  <2>5. DrainWaitersParked' /\ OpenWaitersParked'
    BY <2>2 DEF Leave, DrainWaitersParked, OpenWaitersParked, TypeOK
  <2> QED
    BY <1>1, <2>1, <2>2, <2>3, <2>4, <2>5 DEF FlagIsLease, OneLease, DrainedIsEmpty
<1>6. CASE active - 1 # 0
  <2>1. UNCHANGED <<maintenance, openWaiters, drainWaiters, mpc>>
    BY <1>6 DEF Leave
  <2>2. Leaseholders' = Leaseholders
    BY <2>1 DEF Leaseholders
  <2>3. TypeOK'
    BY <1>2, <1>3, <2>1 DEF TypeOK
  <2>4. OpenWaitersParked'
    BY <2>1 DEF Leave, OpenWaitersParked, TypeOK
  <2> QED
    BY <1>1, <1>4, <2>1, <2>2, <2>3, <2>4
    DEF FlagIsLease, OneLease, DrainedIsEmpty, DrainWaitersParked
<1> QED
  BY <1>5, <1>6

-----------------------------------------------------------------------------

\* A pass takes the lease only when no other holds one.
LEMMA PrepareIInv ==
  ASSUME IInv, NEW m \in Maintainer, Prepare(m)
  PROVE  IInv'
<1> USE DEF IInv
<1>0. Inside' = Inside
  BY DEF Prepare, Inside
<1>1. CASE maintenance
  <2>1. /\ openWaiters' = openWaiters \cup {m}
        /\ mpc' = [mpc EXCEPT ![m] = "parked"]
        /\ UNCHANGED <<maintenance, active, drainWaiters, wpc>>
    BY <1>1 DEF Prepare
  <2>2. TypeOK'
    BY <2>1 DEF TypeOK, MaintainerPC
  <2>3. Leaseholders' = Leaseholders
    BY <2>1 DEF Leaseholders, TypeOK, Prepare
  <2>4. DrainWaitersParked'
    BY <2>1 DEF DrainWaitersParked, TypeOK, Prepare
  <2>5. OpenWaitersParked' /\ DrainedIsEmpty'
    BY <1>0, <2>1, CallersAssumption DEF OpenWaitersParked, DrainedIsEmpty, TypeOK
  <2> QED
    BY <1>0, <2>1, <2>2, <2>3, <2>4, <2>5 DEF CountExact, FlagIsLease, OneLease
<1>2. CASE ~maintenance
  <2>1. /\ maintenance' = TRUE
        /\ mpc' = [mpc EXCEPT ![m] = "leased"]
        /\ UNCHANGED <<active, drainWaiters, openWaiters, wpc>>
    BY <1>2 DEF Prepare
  <2>2. TypeOK'
    BY <2>1 DEF TypeOK, MaintainerPC
  <2>3. Leaseholders' = {m}
    BY <1>2, <2>1 DEF Leaseholders, FlagIsLease, TypeOK
  <2>4. DrainWaitersParked' /\ OpenWaitersParked' /\ DrainedIsEmpty'
    BY <1>0, <2>1 DEF DrainWaitersParked, OpenWaitersParked, DrainedIsEmpty, TypeOK, Prepare
  <2> QED
    BY <1>0, <2>1, <2>2, <2>3, <2>4 DEF CountExact, FlagIsLease, OneLease
<1> QED
  BY <1>1, <1>2

\* drain() goes straight through only when the counter says nobody is inside.
LEMMA DrainIInv ==
  ASSUME IInv, NEW m \in Maintainer, Drain(m)
  PROVE  IInv'
<1> USE DEF IInv
<1>0. Inside' = Inside /\ UNCHANGED <<maintenance, active, openWaiters, wpc>>
  BY DEF Drain, Inside
<1>1. Leaseholders' = Leaseholders
  BY DEF Drain, Leaseholders, TypeOK
<1>2. CASE active = 0
  <2>1. mpc' = [mpc EXCEPT ![m] = "exclusive"] /\ UNCHANGED drainWaiters
    BY <1>2 DEF Drain
  <2>2. Inside = {}
    BY <1>2, WritesFinite DEF CountExact, Inside
  <2>3. TypeOK'
    BY <1>0, <2>1 DEF TypeOK, MaintainerPC
  <2>4. DrainWaitersParked' /\ OpenWaitersParked'
    BY <1>0, <2>1 DEF DrainWaitersParked, OpenWaitersParked, TypeOK, Drain
  <2> QED
    BY <1>0, <1>1, <2>2, <2>3, <2>4 DEF CountExact, FlagIsLease, OneLease, DrainedIsEmpty
<1>3. CASE active # 0
  <2>1. /\ mpc' = [mpc EXCEPT ![m] = "draining"]
        /\ drainWaiters' = drainWaiters \cup {m}
    BY <1>3 DEF Drain
  <2>2. TypeOK'
    BY <1>0, <2>1 DEF TypeOK, MaintainerPC
  <2>3. DrainWaitersParked'
    BY <2>1 DEF DrainWaitersParked, TypeOK
  <2>4. OpenWaitersParked' /\ DrainedIsEmpty'
    BY <1>0, <2>1 DEF OpenWaitersParked, DrainedIsEmpty, TypeOK, Drain
  <2> QED
    BY <1>0, <1>1, <2>2, <2>3, <2>4 DEF CountExact, FlagIsLease, OneLease
<1> QED
  BY <1>2, <1>3

LEMMA DrainedIInv ==
  ASSUME IInv, NEW m \in Maintainer, Drained(m)
  PROVE  IInv'
<1> USE DEF IInv, Drained
<1>1. Inside' = Inside
  BY DEF Inside
<1>2. Leaseholders' = Leaseholders
  BY DEF Leaseholders, TypeOK
<1>3. TypeOK'
  BY DEF TypeOK, MaintainerPC
<1>4. DrainWaitersParked' /\ OpenWaitersParked' /\ DrainedIsEmpty'
  BY <1>1 DEF DrainWaitersParked, OpenWaitersParked, DrainedIsEmpty, TypeOK
<1> QED
  BY <1>1, <1>2, <1>3, <1>4 DEF CountExact, FlagIsLease, OneLease

\* Releasing the only lease leaves nobody holding one; waking a parked write
\* or pass puts nobody inside.
LEMMA ReleaseIInv ==
  ASSUME IInv, NEW m \in Maintainer, Release(m)
  PROVE  IInv'
<1> USE DEF IInv
<1>1. m \in Leaseholders
  BY DEF Release, Leaseholders
<1>2. Leaseholders' = {}
  BY <1>1 DEF Release, Leaseholders, OneLease, OpenWaitersParked, TypeOK
<1>3. TypeOK'
  BY DEF Release, TypeOK, WriterPC, MaintainerPC
<1>4. Inside' = Inside
  BY DEF Release, Inside, TypeOK, OpenWaitersParked
<1>5. DrainWaitersParked' /\ OpenWaitersParked'
  BY DEF Release, DrainWaitersParked, OpenWaitersParked, TypeOK
<1> QED
  BY <1>2, <1>3, <1>4, <1>5
  DEF Release, CountExact, FlagIsLease, OneLease, DrainedIsEmpty, Leaseholders

-----------------------------------------------------------------------------

LEMMA StutterIInv == IInv /\ UNCHANGED vars => IInv'
  BY DEF vars, IInv, TypeOK, CountExact, Inside, FlagIsLease, OneLease, Leaseholders,
         DrainedIsEmpty, DrainWaitersParked, OpenWaitersParked

\* Every step of the gate preserves the strengthened invariant.
LEMMA NextIInv == IInv /\ [Next]_vars => IInv'
<1> SUFFICES ASSUME IInv, [Next]_vars PROVE IInv'
  OBVIOUS
<1>1. CASE \E w \in Writer : Enter(w) \/ EnterAgain(w) \/ Leave(w)
  <2>1. PICK w \in Writer : Enter(w) \/ EnterAgain(w) \/ Leave(w)
    BY <1>1
  <2>2. CASE Leave(w)
    BY <2>2, LeaveIInv
  <2>3. CASE Enter(w) \/ EnterAgain(w)
    <3>1. wpc[w] \in {"outside", "woken"} /\ (Take(w) \/ Park(w))
      BY <2>3 DEF Enter, EnterAgain
    <3> QED
      BY <3>1, TakeIInv, ParkIInv
  <2> QED
    BY <2>1, <2>2, <2>3
<1>2. CASE \E m \in Maintainer : Prepare(m) \/ Drain(m) \/ Drained(m) \/ Release(m)
  BY <1>2, PrepareIInv, DrainIInv, DrainedIInv, ReleaseIInv
<1>3. CASE UNCHANGED vars
  BY <1>3, StutterIInv
<1> QED
  BY <1>1, <1>2, <1>3 DEF Next

\* The gate's state is well formed in every behaviour, and the strengthened
\* invariant holds throughout.
THEOREM InvariantHolds == Spec => []IInv
<1> QED
  BY InitIInv, NextIInv, PTL DEF Spec

\* Type correctness, which includes that the counter of lishnet writes never
\* goes below zero.
THEOREM TypeCorrect == Spec => []TypeOK
<1>1. IInv => TypeOK
  BY DEF IInv
<1> QED
  BY <1>1, InvariantHolds, PTL

\* A drained maintenance pass (the factory reset that is about to stop the node
\* and wipe tables) works alone, however many writes and passes there are.
THEOREM ExclusionHolds == Spec => []Exclusion
<1>1. IInv => Exclusion
  <2> SUFFICES ASSUME IInv, NEW m \in Maintainer, mpc[m] = "exclusive"
               PROVE  (\A w \in Writer : wpc[w] # "inside") /\ Leaseholders = {m}
    BY DEF Exclusion
  <2>1. Inside = {}
    BY DEF IInv, DrainedIsEmpty
  <2>2. m \in Leaseholders
    BY DEF Leaseholders
  <2> QED
    BY <2>1, <2>2 DEF IInv, OneLease, Inside
<1> QED
  BY <1>1, InvariantHolds, PTL

\* No write gets in while a pass holds the lease.
THEOREM ClosedGateHolds == Spec => NothingEntersClosedGate
<1>1. IInv /\ [Next]_vars =>
        [\A w \in Writer : (wpc[w] # "inside" /\ wpc'[w] = "inside") => Leaseholders' = {}]_vars
  <2> SUFFICES ASSUME IInv, Next, NEW w \in Writer, wpc[w] # "inside", wpc'[w] = "inside"
               PROVE  Leaseholders' = {}
    BY DEF vars
  <2>1. CASE \E v \in Writer : Take(v)
    BY <2>1 DEF Take, IInv, FlagIsLease, Leaseholders
  <2>2. CASE \E v \in Writer : Park(v) \/ Leave(v)
    BY <2>2 DEF Park, Leave, IInv, TypeOK
  <2>3. CASE \E m \in Maintainer : Prepare(m) \/ Drain(m) \/ Drained(m) \/ Release(m)
    BY <2>3 DEF Prepare, Drain, Drained, Release, IInv, TypeOK
  <2> QED
    BY <2>1, <2>2, <2>3 DEF Next, Enter, EnterAgain
<1> QED
  BY <1>1, InvariantHolds, PTL DEF Spec, NothingEntersClosedGate

-----------------------------------------------------------------------------
(* The reset.  Neither half is inductive.  That nothing runs when a        *)
(* category is wiped is what the phases before established (Settled), it   *)
(* stays true because the gates are shut (Shut) and the lease of the       *)
(* lishnet gate is held (Lease, with the gate's own invariant), and all    *)
(* three because only the head of the mutex is past waiting (Queue).  That *)
(* the gates open over a whole program needs that transfers run only over  *)
(* a node that is up, and that a reset calls itself safe only when they    *)
(* run (Whole).                                                            *)

Phase == {"idle", "waiting", "leased", "pausing", "clearing", "draining", "stopping",
          "wiping", "restoring", "finally"}

Call == [at : Phase, wipes : SUBSET Category, shut : BOOLEAN, safe : BOOLEAN,
         prepared : BOOLEAN, failed : BOOLEAN]

ResetTypes ==
  /\ reset \in [Maintainer -> Call]
  /\ mutex \in Seq(Maintainer)
  /\ closed \subseteq AdmissionGate
  /\ inside \subseteq AdmissionGate
  /\ transfers \in {"running", "cleared", "unsure"}
  /\ node \in {"up", "down", "unsure"}

\* Who waits is in the mutex; who is past waiting is the first in it.
Queue ==
  \A m \in Maintainer :
    /\ At(m, "waiting") => \E i \in 1..Len(mutex) : mutex[i] = m
    /\ ~At(m, "idle") /\ ~At(m, "waiting") => mutex # <<>> /\ mutex[1] = m

\* What each phase holds of the lishnet gate.
Lease ==
  \A m \in Maintainer :
    /\ At(m, "idle") \/ At(m, "waiting") => mpc[m] = "outside"
    /\ At(m, "leased") \/ At(m, "pausing") \/ At(m, "clearing") => mpc[m] = "leased"
    /\ At(m, "draining") => mpc[m] \in {"leased", "draining", "drainWoken", "exclusive"}
    /\ At(m, "stopping") \/ At(m, "wiping") \/ At(m, "restoring") => mpc[m] = "exclusive"
    /\ At(m, "finally") => mpc[m] \in {"leased", "exclusive"}

\* The phases that run behind closed gates.
Behind(m) == ~At(m, "idle") /\ ~At(m, "waiting") /\ ~At(m, "leased")

Shut == \A m \in Maintainer : Behind(m) => closed = AdmissionGate /\ reset[m].shut

\* What the phases so far have brought to a stop.
Settled ==
  \A m \in Maintainer :
    /\ Behind(m) /\ ~At(m, "pausing") /\ ~At(m, "finally") => inside = {}
    /\ At(m, "draining") \/ At(m, "stopping") \/ At(m, "wiping") \/ At(m, "restoring")
         => transfers = "cleared"
    /\ At(m, "wiping") => node = "down"
    /\ At(m, "restoring") => node = "up"

\* Transfers run only over a node that is up; a reset that calls itself safe left them running.
Whole ==
  /\ transfers = "running" => node = "up"
  /\ \A m \in Maintainer : At(m, "finally") /\ reset[m].safe => transfers = "running"

ResetInv == IInv /\ ResetTypes /\ Queue /\ Lease /\ Shut /\ Settled /\ Whole /\ ResetIsWhole

-----------------------------------------------------------------------------
(* The resets move the lishnet gate as its callers do. *)

LEMMA ResetMovesGate == [ResetNext]_allResetVars => [Next]_vars
<1>. SUFFICES ASSUME [ResetNext]_allResetVars PROVE [Next]_vars
  OBVIOUS
<1>1. CASE \E m \in Maintainer : ResetStep(m)
  <2>1. PICK m \in Maintainer : ResetStep(m)
    BY <1>1
  <2>2. Prepare(m) \/ Drain(m) \/ Drained(m) \/ Release(m) \/ UNCHANGED vars
    BY <2>1 DEF ResetStep, Locked, ClosesGates, Paused, Cleared, Drains, NodeStopped, NodeStarted,
       Restored, Ends, Wipes
  <2>. QED BY <2>2 DEF Next
<1>2. CASE \E m \in Maintainer : \E s \in Selections : Ask(m, s)
  BY <1>2 DEF Ask
<1>3. CASE \E g \in AdmissionGate : CallEnters(g) \/ CallLeaves(g)
  BY <1>3 DEF CallEnters, CallLeaves
<1>4. CASE WriteMoves
  BY <1>4 DEF WriteMoves, Next
<1>5. CASE UNCHANGED allResetVars
  BY <1>5 DEF allResetVars
<1>. QED BY <1>1, <1>2, <1>3, <1>4, <1>5 DEF ResetNext

LEMMA ResetIInv == IInv /\ [ResetNext]_allResetVars => IInv'
  BY ResetMovesGate, NextIInv

\* A prepare finds the gate open while nobody holds a lease, and takes it.
LEMMA LeaseTaken ==
  ASSUME IInv, NEW m \in Maintainer, Prepare(m), \A n \in Maintainer : mpc[n] = "outside"
  PROVE  mpc' = [mpc EXCEPT ![m] = "leased"]
<1>1. Leaseholders = {}
  BY DEF Leaseholders
<1>2. ~maintenance
  BY <1>1 DEF IInv, FlagIsLease
<1>. QED BY <1>2 DEF Prepare

\* A release touches no other pass, unless it is parked.
LEMMA LeaseReleased ==
  ASSUME IInv, NEW m \in Maintainer, Release(m), \A n \in Maintainer : mpc[n] # "parked"
  PROVE  mpc' = [mpc EXCEPT ![m] = "outside"]
<1>1. \A n \in Maintainer : n \notin openWaiters
  BY DEF IInv, OpenWaitersParked
<1>2. mpc' = [n \in Maintainer |-> IF n = m THEN "outside" ELSE mpc[n]]
  BY <1>1 DEF Release
<1>3. DOMAIN mpc = Maintainer /\ mpc = [n \in Maintainer |-> mpc[n]]
  BY DEF IInv, TypeOK
<1>. QED BY <1>2, <1>3

\* A drain goes on by itself.
LEMMA DrainMoves ==
  ASSUME IInv, NEW m \in Maintainer, Drain(m) \/ Drained(m)
  PROVE  \E pc \in {"draining", "drainWoken", "exclusive"} : mpc' = [mpc EXCEPT ![m] = pc]
  BY DEF Drain, Drained

\* A write changes nothing for a pass, but that it may wake one that drains.
LEMMA WriteWakes ==
  ASSUME IInv, WriteMoves, NEW m \in Maintainer
  PROVE  mpc'[m] = mpc[m] \/ (mpc[m] = "draining" /\ mpc'[m] = "drainWoken")
<1>1. PICK w \in Writer : Enter(w) \/ EnterAgain(w) \/ Leave(w)
  BY DEF WriteMoves
<1>2. CASE Enter(w) \/ EnterAgain(w)
  BY <1>2 DEF Enter, EnterAgain, Take, Park
<1>3. CASE Leave(w)
  BY <1>3 DEF Leave, IInv, DrainWaitersParked
<1>. QED BY <1>1, <1>2, <1>3

-----------------------------------------------------------------------------
(* The calls. *)

LEMMA CallFields ==
  ASSUME NEW r \in Call
  PROVE  /\ r.at \in Phase /\ r.wipes \subseteq Category /\ r.shut \in BOOLEAN /\ r.safe \in BOOLEAN
         /\ \A at \in Phase : [r EXCEPT !.at = at] \in Call
         /\ \A at \in Phase : [r EXCEPT !.at = at, !.shut = TRUE] \in Call
         /\ \A at \in Phase : \A b \in BOOLEAN : [r EXCEPT !.at = at, !.safe = b] \in Call
         /\ \A at \in Phase : \A b \in BOOLEAN : [r EXCEPT !.at = at, !.safe = b, !.failed = TRUE] \in Call
         /\ \A at \in Phase : [r EXCEPT !.at = at, !.prepared = TRUE] \in Call
         /\ \A at \in Phase : \A w \in SUBSET Category : [Idle EXCEPT !.at = at, !.wipes = w] \in Call
         /\ \A w \in SUBSET Category : \A f \in BOOLEAN : [r EXCEPT !.wipes = w, !.failed = f] \in Call
<1>. USE DEF Call
<1>1. r.at \in Phase /\ r.wipes \subseteq Category /\ r.shut \in BOOLEAN /\ r.safe \in BOOLEAN
  OBVIOUS
<1>2. \A at \in Phase : [r EXCEPT !.at = at] \in Call
  OBVIOUS
<1>3. \A at \in Phase : [r EXCEPT !.at = at, !.shut = TRUE] \in Call
  OBVIOUS
<1>4. \A at \in Phase : \A b \in BOOLEAN : [r EXCEPT !.at = at, !.safe = b] \in Call
  OBVIOUS
<1>5. \A at \in Phase : \A b \in BOOLEAN : [r EXCEPT !.at = at, !.safe = b, !.failed = TRUE] \in Call
  OBVIOUS
<1>6. \A at \in Phase : [r EXCEPT !.at = at, !.prepared = TRUE] \in Call
  OBVIOUS
<1>7. \A at \in Phase : \A w \in SUBSET Category : [Idle EXCEPT !.at = at, !.wipes = w] \in Call
  BY DEF Idle
<1>8. \A w \in SUBSET Category : \A f \in BOOLEAN : [r EXCEPT !.wipes = w, !.failed = f] \in Call
  OBVIOUS
<1>. QED BY <1>1, <1>2, <1>3, <1>4, <1>5, <1>6, <1>7, <1>8


-----------------------------------------------------------------------------
(* The parts of the invariant, over each step. *)

\* Who is past waiting, or is let in, is alone there.
LEMMA OneInside ==
  ASSUME ResetTypes, Queue, NEW m \in Maintainer, NEW n \in Maintainer, m # n,
         (~At(m, "idle") /\ ~At(m, "waiting")) \/ (At(m, "waiting") /\ Head(mutex) = m)
  PROVE  At(n, "idle") \/ At(n, "waiting")
<1>1. mutex # <<>> /\ mutex[1] = m
  BY DEF Queue, At, ResetTypes
<1>. QED BY <1>1 DEF Queue, At

\* A call that goes on, or gives up, is still a call.
LEMMA GoesCalls ==
  ASSUME ResetTypes, NEW m \in Maintainer, NEW at \in Phase, Goes(m, at)
  PROVE  reset' \in [Maintainer -> Call]
<1>1. [reset[m] EXCEPT !.at = at] \in Call
  BY CallFields DEF ResetTypes
<1>. QED BY <1>1 DEF Goes, ResetTypes

LEMMA FailsCalls ==
  ASSUME ResetTypes, NEW m \in Maintainer, NEW safe \in BOOLEAN, PrepareFails(m, safe)
  PROVE  reset' \in [Maintainer -> Call]
<1>0. "finally" \in Phase
  BY DEF Phase
<1>1. [reset[m] EXCEPT !.at = "finally", !.safe = safe, !.failed = TRUE] \in Call
  BY <1>0, CallFields DEF ResetTypes
<1>. QED BY <1>1 DEF PrepareFails, ResetTypes

LEMMA PhaseNames ==
  /\ "idle" \in Phase /\ "waiting" \in Phase /\ "leased" \in Phase /\ "pausing" \in Phase
  /\ "clearing" \in Phase /\ "draining" \in Phase /\ "stopping" \in Phase /\ "wiping" \in Phase
  /\ "restoring" \in Phase /\ "finally" \in Phase
  BY DEF Phase

\* The records and sets keep their form.
LEMMA TypesHold == ResetTypes /\ Queue /\ [ResetNext]_allResetVars => ResetTypes'
<1>. SUFFICES ASSUME ResetTypes, Queue, [ResetNext]_allResetVars PROVE ResetTypes'
  OBVIOUS
<1>. USE DEF resetVars, allResetVars
<1>1. ASSUME NEW m \in Maintainer, Locked(m) PROVE ResetTypes'
  <2>2. reset' \in [Maintainer -> Call]
    BY <1>1, GoesCalls, PhaseNames DEF Locked
  <2>3. mutex # <<>>
    BY <1>1 DEF Queue, Locked, At, ResetTypes
  <2>4. mutex' \in Seq(Maintainer)
    BY <2>3, <1>1 DEF Locked, ResetTypes
  <2>. QED BY <2>2, <2>4, <1>1 DEF Locked, ResetTypes
<1>2. ASSUME NEW m \in Maintainer, ClosesGates(m) PROVE ResetTypes'
  <2>1. [reset[m] EXCEPT !.at = "pausing", !.shut = TRUE] \in Call
    BY PhaseNames, CallFields DEF ResetTypes
  <2>2. ASSUME reset' = [reset EXCEPT ![m] = [reset[m] EXCEPT !.at = "pausing", !.shut = TRUE]]
        PROVE  reset' \in [Maintainer -> Call]
    BY <2>1, <2>2 DEF ResetTypes
  <2>. QED BY <2>2, <1>2 DEF ClosesGates, ResetTypes
<1>3. ASSUME NEW m \in Maintainer, Paused(m) PROVE ResetTypes'
  BY <1>3, GoesCalls, PhaseNames DEF Paused, ResetTypes
<1>4. ASSUME NEW m \in Maintainer, Cleared(m) PROVE ResetTypes'
  <2>1. [reset[m] EXCEPT !.at = "draining", !.safe = FALSE] \in Call
    BY PhaseNames, CallFields DEF ResetTypes
  <2>2. ASSUME reset' = [reset EXCEPT ![m] = [reset[m] EXCEPT !.at = "draining", !.safe = FALSE]]
        PROVE  reset' \in [Maintainer -> Call]
    BY <2>1, <2>2 DEF ResetTypes
  <2>3. reset' \in [Maintainer -> Call]
    BY <2>2, <1>4, FailsCalls DEF Cleared
  <2>. QED BY <2>3, <1>4 DEF Cleared, ResetTypes
<1>5. ASSUME NEW m \in Maintainer, Drains(m) PROVE ResetTypes'
  <2>1. reset' \in [Maintainer -> Call]
    BY <1>5, GoesCalls, PhaseNames DEF Drains, ResetTypes
  <2>. QED BY <2>1, <1>5 DEF Drains, ResetTypes
<1>6. ASSUME NEW m \in Maintainer, NodeStopped(m) PROVE ResetTypes'
  <2>1. [reset[m] EXCEPT !.at = "wiping", !.prepared = TRUE] \in Call
    BY PhaseNames, CallFields DEF ResetTypes
  <2>2. ASSUME reset' = [reset EXCEPT ![m] = [reset[m] EXCEPT !.at = "wiping", !.prepared = TRUE]]
        PROVE  reset' \in [Maintainer -> Call]
    BY <2>1, <2>2 DEF ResetTypes
  <2>3. reset' \in [Maintainer -> Call]
    BY <2>2, <1>6, FailsCalls DEF NodeStopped
  <2>. QED BY <2>3, <1>6 DEF NodeStopped, ResetTypes
<1>7. ASSUME NEW m \in Maintainer, NodeStarted(m) PROVE ResetTypes'
  <2>3. reset' \in [Maintainer -> Call]
    BY <1>7, GoesCalls, FailsCalls, PhaseNames DEF NodeStarted
  <2>. QED BY <2>3, <1>7 DEF NodeStarted, ResetTypes
<1>8. ASSUME NEW m \in Maintainer, Restored(m) PROVE ResetTypes'
  <2>1. [reset[m] EXCEPT !.at = "finally", !.safe = TRUE] \in Call
    BY PhaseNames, CallFields DEF ResetTypes
  <2>2. ASSUME reset' = [reset EXCEPT ![m] = [reset[m] EXCEPT !.at = "finally", !.safe = TRUE]]
        PROVE  reset' \in [Maintainer -> Call]
    BY <2>1, <2>2 DEF ResetTypes
  <2>3. reset' \in [Maintainer -> Call]
    BY <2>2, <1>8, FailsCalls DEF Restored
  <2>. QED BY <2>3, <1>8 DEF Restored, ResetTypes
<1>9. ASSUME NEW m \in Maintainer, Ends(m) PROVE ResetTypes'
  <2>2. reset' \in [Maintainer -> Call]
    BY <1>9, GoesCalls, PhaseNames DEF Ends
  <2>3. mutex # <<>>
    BY <1>9 DEF Queue, Ends, At, ResetTypes
  <2>4. mutex' \in Seq(Maintainer)
    BY <2>3, <1>9 DEF Ends, ResetTypes
  <2>. QED BY <2>2, <2>4, <1>9 DEF Ends, ResetTypes
<1>10. ASSUME NEW m \in Maintainer, NEW c \in Category, Wipes(m, c) PROVE ResetTypes'
  <2>1. reset[m] \in Call
    BY DEF ResetTypes
  <2>2. PICK fails \in BOOLEAN :
          reset' = [reset EXCEPT ![m].wipes = @ \ {c}, ![m].failed = @ \/ fails]
    BY <1>10 DEF Wipes
  <2>3. /\ reset[m].wipes \ {c} \in SUBSET Category
        /\ (reset[m].failed \/ fails) \in BOOLEAN
    BY <2>1, CallFields
  <2>4. [reset[m] EXCEPT !.wipes = reset[m].wipes \ {c}, !.failed = reset[m].failed \/ fails] \in Call
    BY <2>1, <2>3, CallFields
  <2>5. reset' \in [Maintainer -> Call]
    BY <2>2, <2>4 DEF ResetTypes
  <2>. QED BY <2>5, <1>10 DEF Wipes, ResetTypes
<1>11. ASSUME NEW m \in Maintainer, NEW s \in Selections, Ask(m, s) PROVE ResetTypes'
  <2>1. s \in SUBSET Category
    BY SelectionsAssumption
  <2>2. reset[m] \in Call
    BY DEF ResetTypes
  <2>3. [Idle EXCEPT !.at = "waiting", !.wipes = s] \in Call
    BY <2>1, <2>2, CallFields DEF Phase
  <2>4. reset' \in [Maintainer -> Call]
    BY <2>3, <1>11 DEF Ask, ResetTypes
  <2>. QED BY <2>4, <1>11 DEF Ask, ResetTypes
<1>12. ASSUME NEW g \in AdmissionGate, CallEnters(g) PROVE ResetTypes'
  BY <1>12 DEF CallEnters, ResetTypes
<1>13. ASSUME NEW g \in AdmissionGate, CallLeaves(g) PROVE ResetTypes'
  BY <1>13 DEF CallLeaves, ResetTypes
<1>14. CASE WriteMoves
  BY <1>14 DEF WriteMoves, ResetTypes
<1>15. CASE UNCHANGED allResetVars
  BY <1>15 DEF ResetTypes
<1>. QED BY <1>1, <1>2, <1>3, <1>4, <1>5, <1>6, <1>7, <1>8, <1>9, <1>10, <1>11, <1>12, <1>13, <1>14,
          <1>15
       DEF ResetNext, ResetStep

\* Appending keeps everybody in the queue; the head alone leaves it.
LEMMA QueueAppend ==
  ASSUME mutex \in Seq(Maintainer), NEW m \in Maintainer, mutex' = Append(mutex, m)
  PROVE  /\ \A i \in 1..Len(mutex) : i \in 1..Len(mutex') /\ mutex'[i] = mutex[i]
         /\ Len(mutex') \in 1..Len(mutex') /\ mutex'[Len(mutex')] = m
         /\ mutex # <<>> => mutex' # <<>> /\ mutex'[1] = mutex[1]
  OBVIOUS

LEMMA QueueTail ==
  ASSUME mutex \in Seq(Maintainer), mutex # <<>>, NEW n \in Maintainer, mutex[1] # n, mutex' = Tail(mutex),
         \E i \in 1..Len(mutex) : mutex[i] = n
  PROVE  \E i \in 1..Len(mutex') : mutex'[i] = n
<1>1. PICK i \in 1..Len(mutex) : mutex[i] = n
  OBVIOUS
<1>2. i # 1
  BY <1>1
<1>3. i - 1 \in 1..Len(mutex') /\ mutex'[i - 1] = mutex[i]
  BY <1>2
<1>. QED BY <1>1, <1>3

-----------------------------------------------------------------------------
(* What a step says of the call that makes it. *)

LEMMA Goings ==
  ASSUME ResetTypes, NEW m \in Maintainer, NEW at, Goes(m, at)
  PROVE  /\ reset'[m].at = at /\ reset'[m].shut = reset[m].shut /\ reset'[m].safe = reset[m].safe
         /\ \A n \in Maintainer : n # m => reset'[n] = reset[n]
<1>1. reset[m] \in Call
  BY DEF ResetTypes
<1>2. reset'[m] = [reset[m] EXCEPT !.at = at]
  BY DEF Goes, ResetTypes
<1>. QED BY <1>1, <1>2 DEF Goes, ResetTypes, Call

LEMMA Failings ==
  ASSUME ResetTypes, NEW m \in Maintainer, NEW safe \in BOOLEAN, PrepareFails(m, safe)
  PROVE  /\ reset'[m].at = "finally" /\ reset'[m].shut = reset[m].shut /\ reset'[m].safe = safe
         /\ \A n \in Maintainer : n # m => reset'[n] = reset[n]
<1>1. reset[m] \in Call
  BY DEF ResetTypes
<1>2. reset'[m] = [reset[m] EXCEPT !.at = "finally", !.safe = safe, !.failed = TRUE]
  BY DEF PrepareFails, ResetTypes
<1>. QED BY <1>1, <1>2 DEF PrepareFails, ResetTypes, Call

LEMMA LockedMoves ==
  ASSUME ResetTypes, NEW m \in Maintainer, Locked(m)
  PROVE  /\ reset[m].at = "waiting" /\ reset'[m].shut = reset[m].shut
         /\ \A n \in Maintainer : n # m => reset'[n] = reset[n]
         /\ \/ reset[m].wipes = {} /\ reset'[m].at = "idle" /\ UNCHANGED vars /\ mutex' = Tail(mutex)
            \/ reset[m].wipes # {} /\ reset'[m].at = "leased" /\ Prepare(m) /\ mutex' = mutex
  BY Goings DEF Locked, At

LEMMA ClosesGatesMoves ==
  ASSUME ResetTypes, NEW m \in Maintainer, ClosesGates(m)
  PROVE  /\ reset[m].at = "leased" /\ reset'[m].shut = TRUE
         /\ \A n \in Maintainer : n # m => reset'[n] = reset[n]
         /\ reset'[m].at = "pausing"
<1>1. reset[m] \in Call
  BY DEF ResetTypes
<1>2. reset'[m] = [reset[m] EXCEPT !.at = "pausing", !.shut = TRUE]
  BY DEF ClosesGates, ResetTypes
<1>3. reset'[m].at = "pausing" /\ reset'[m].shut = TRUE
  BY <1>1, <1>2 DEF Call
<1>4. \A n \in Maintainer : n # m => reset'[n] = reset[n]
  BY DEF ClosesGates, ResetTypes
<1>. QED BY <1>3, <1>4 DEF ClosesGates, At

LEMMA PausedMoves ==
  ASSUME ResetTypes, NEW m \in Maintainer, Paused(m)
  PROVE  /\ reset[m].at = "pausing" /\ reset'[m].shut = reset[m].shut
         /\ \A n \in Maintainer : n # m => reset'[n] = reset[n]
         /\ reset'[m].at = "clearing"
  BY Goings DEF Paused, At

LEMMA ClearedMoves ==
  ASSUME ResetTypes, NEW m \in Maintainer, Cleared(m)
  PROVE  /\ reset[m].at = "clearing" /\ reset'[m].shut = reset[m].shut
         /\ \A n \in Maintainer : n # m => reset'[n] = reset[n]
         /\ \/ reset'[m].at = "draining" /\ transfers' = "cleared"
            \/ reset'[m].at = "finally" /\ transfers' = "running" /\ transfers = "running"
            \/ reset'[m].at = "finally" /\ ~reset'[m].safe /\ transfers' = "unsure"
<1>1. reset[m] \in Call
  BY DEF ResetTypes
<1>2. ASSUME reset' = [reset EXCEPT ![m] = [reset[m] EXCEPT !.at = "draining", !.safe = FALSE]]
      PROVE  /\ reset'[m] = [reset[m] EXCEPT !.at = "draining", !.safe = FALSE]
             /\ \A n \in Maintainer : n # m => reset'[n] = reset[n]
  BY <1>2 DEF ResetTypes
<1>. QED BY <1>1, <1>2, Failings DEF Cleared, At, Call

LEMMA DrainsMoves ==
  ASSUME ResetTypes, NEW m \in Maintainer, Drains(m)
  PROVE  /\ reset[m].at = "draining" /\ reset'[m].shut = reset[m].shut
         /\ \A n \in Maintainer : n # m => reset'[n] = reset[n]
         /\ \/ reset'[m].at = "stopping" /\ mpc[m] = "exclusive" /\ UNCHANGED vars
            \/ reset'[m] = reset[m] /\ (Drain(m) \/ Drained(m))
  BY Goings DEF Drains, At

LEMMA NodeStoppedMoves ==
  ASSUME ResetTypes, NEW m \in Maintainer, NodeStopped(m)
  PROVE  /\ reset[m].at = "stopping" /\ reset'[m].shut = reset[m].shut
         /\ \A n \in Maintainer : n # m => reset'[n] = reset[n]
         /\ \/ reset'[m].at = "wiping" /\ node' = "down"
            \/ reset'[m].at = "finally" /\ ~reset'[m].safe /\ node' = "unsure"
<1>1. reset[m] \in Call
  BY DEF ResetTypes
<1>2. ASSUME reset' = [reset EXCEPT ![m] = [reset[m] EXCEPT !.at = "wiping", !.prepared = TRUE]]
      PROVE  /\ reset'[m] = [reset[m] EXCEPT !.at = "wiping", !.prepared = TRUE]
             /\ \A n \in Maintainer : n # m => reset'[n] = reset[n]
  BY <1>2 DEF ResetTypes
<1>. QED BY <1>1, <1>2, Failings DEF NodeStopped, At, Call

LEMMA NodeStartedMoves ==
  ASSUME ResetTypes, NEW m \in Maintainer, NodeStarted(m)
  PROVE  /\ reset[m].at = "wiping" /\ reset'[m].shut = reset[m].shut
         /\ \A n \in Maintainer : n # m => reset'[n] = reset[n]
         /\ \/ reset'[m].at = "restoring" /\ node' = "up"
            \/ reset'[m].at = "finally" /\ ~reset'[m].safe /\ node' = "unsure"
  BY Goings, Failings DEF NodeStarted, At

LEMMA RestoredMoves ==
  ASSUME ResetTypes, NEW m \in Maintainer, Restored(m)
  PROVE  /\ reset[m].at = "restoring" /\ reset'[m].shut = reset[m].shut
         /\ \A n \in Maintainer : n # m => reset'[n] = reset[n]
         /\ \/ reset'[m].at = "finally" /\ transfers' = "running"
            \/ reset'[m].at = "finally" /\ ~reset'[m].safe /\ transfers' = "unsure"
<1>1. reset[m] \in Call
  BY DEF ResetTypes
<1>2. ASSUME reset' = [reset EXCEPT ![m] = [reset[m] EXCEPT !.at = "finally", !.safe = TRUE]]
      PROVE  /\ reset'[m] = [reset[m] EXCEPT !.at = "finally", !.safe = TRUE]
             /\ \A n \in Maintainer : n # m => reset'[n] = reset[n]
  BY <1>2 DEF ResetTypes
<1>. QED BY <1>1, <1>2, Failings DEF Restored, At, Call

LEMMA EndsMoves ==
  ASSUME ResetTypes, NEW m \in Maintainer, Ends(m)
  PROVE  /\ reset[m].at = "finally" /\ reset'[m].shut = reset[m].shut
         /\ \A n \in Maintainer : n # m => reset'[n] = reset[n]
         /\ reset'[m].at = "idle" /\ reset'[m].safe = reset[m].safe
  BY Goings DEF Ends, At

LEMMA WipesMoves ==
  ASSUME ResetTypes, NEW m \in Maintainer, NEW c \in Category, Wipes(m, c)
  PROVE  /\ reset[m].at = "wiping"
         /\ \A n \in Maintainer : reset'[n].at = reset[n].at /\ reset'[n].shut = reset[n].shut
<1>1. \A n \in Maintainer : reset[n] \in Call
  BY DEF ResetTypes
<1>2. PICK fails \in BOOLEAN :
        reset' = [reset EXCEPT ![m].wipes = @ \ {c}, ![m].failed = @ \/ fails]
  BY DEF Wipes
<1>3. reset'[m] = [reset[m] EXCEPT !.wipes = reset[m].wipes \ {c}, !.failed = reset[m].failed \/ fails]
  BY <1>2 DEF ResetTypes
<1>4. reset'[m].at = reset[m].at /\ reset'[m].shut = reset[m].shut
  BY <1>1, <1>3 DEF Call
<1>5. \A n \in Maintainer : n # m => reset'[n] = reset[n]
  BY <1>2 DEF ResetTypes
<1>. QED BY <1>4, <1>5 DEF Wipes, At

LEMMA AskMoves ==
  ASSUME ResetTypes, NEW m \in Maintainer, NEW s \in Selections, Ask(m, s)
  PROVE  /\ reset[m].at = "idle" /\ reset'[m].at = "waiting"
         /\ \A n \in Maintainer : n # m => reset'[n] = reset[n]
<1>1. reset'[m] = [Idle EXCEPT !.at = "waiting", !.wipes = s]
  BY DEF Ask, ResetTypes
<1>. QED BY <1>1 DEF Ask, ResetTypes, At, Idle

\* A call that is past waiting, and stays so or is done, leaves the queue right.
LEMMA QueueStays ==
  ASSUME Queue, NEW m \in Maintainer, mutex' = mutex,
         reset[m].at \notin {"idle", "waiting"}, reset'[m].at # "waiting",
         \A n \in Maintainer : n # m => reset'[n] = reset[n]
  PROVE  Queue'
<1>1. mutex # <<>> /\ mutex[1] = m
  BY DEF Queue, At
<1>2. ASSUME NEW n \in Maintainer
      PROVE  /\ reset'[n].at = "waiting" => \E i \in 1..Len(mutex) : mutex[i] = n
             /\ reset'[n].at # "idle" /\ reset'[n].at # "waiting" => mutex # <<>> /\ mutex[1] = n
  BY <1>1 DEF Queue, At
<1>. QED BY <1>2 DEF Queue, At

LEMMA QueueHolds == ResetTypes /\ Queue /\ [ResetNext]_allResetVars => Queue'
<1>. SUFFICES ASSUME ResetTypes, Queue, [ResetNext]_allResetVars PROVE Queue'
  OBVIOUS
<1>. USE DEF At, resetVars, allResetVars, Queue
<1>1. ASSUME NEW m \in Maintainer, Locked(m) PROVE Queue'
  <2>1. At(m, "waiting") /\ Head(mutex) = m /\ mutex # <<>> /\ mutex[1] = m
    BY <1>1 DEF Locked, ResetTypes
  <2>2. \A n \in Maintainer : n # m => reset'[n] = reset[n]
    BY <1>1, LockedMoves
  <2>3. \A n \in Maintainer : n # m => At(n, "idle") \/ At(n, "waiting")
    BY <2>1, OneInside DEF Queue
  <2>4. (reset'[m].at = "idle" /\ mutex' = Tail(mutex)) \/ (reset'[m].at = "leased" /\ mutex' = mutex)
    BY <1>1, LockedMoves
  <2>5. CASE reset'[m].at = "idle" /\ mutex' = Tail(mutex)
    BY <2>1, <2>2, <2>3, <2>5, QueueTail DEF ResetTypes
  <2>6. CASE reset'[m].at = "leased" /\ mutex' = mutex
    BY <2>1, <2>2, <2>6
  <2>. QED BY <2>4, <2>5, <2>6
<1>2. ASSUME NEW m \in Maintainer, ClosesGates(m) PROVE Queue'
  <2>1. mutex' = mutex
    BY <1>2 DEF ClosesGates
  <2>. QED BY <2>1, <1>2, ClosesGatesMoves, QueueStays
<1>3. ASSUME NEW m \in Maintainer, Paused(m) PROVE Queue'
  <2>1. mutex' = mutex
    BY <1>3 DEF Paused
  <2>. QED BY <2>1, <1>3, PausedMoves, QueueStays
<1>4. ASSUME NEW m \in Maintainer, Cleared(m) PROVE Queue'
  <2>1. mutex' = mutex
    BY <1>4 DEF Cleared
  <2>. QED BY <2>1, <1>4, ClearedMoves, QueueStays
<1>5. ASSUME NEW m \in Maintainer, Drains(m) PROVE Queue'
  BY <1>5, DrainsMoves DEF Drains
<1>6. ASSUME NEW m \in Maintainer, NodeStopped(m) PROVE Queue'
  <2>1. mutex' = mutex
    BY <1>6 DEF NodeStopped
  <2>. QED BY <2>1, <1>6, NodeStoppedMoves, QueueStays
<1>7. ASSUME NEW m \in Maintainer, NodeStarted(m) PROVE Queue'
  <2>1. mutex' = mutex
    BY <1>7 DEF NodeStarted
  <2>. QED BY <2>1, <1>7, NodeStartedMoves, QueueStays
<1>8. ASSUME NEW m \in Maintainer, Restored(m) PROVE Queue'
  <2>1. mutex' = mutex
    BY <1>8 DEF Restored
  <2>. QED BY <2>1, <1>8, RestoredMoves, QueueStays
<1>9. ASSUME NEW m \in Maintainer, Ends(m) PROVE Queue'
  <2>1. mutex # <<>> /\ mutex[1] = m
    BY <1>9 DEF Ends
  <2>2. \A n \in Maintainer : n # m => reset'[n] = reset[n]
    BY <1>9, EndsMoves
  <2>3. \A n \in Maintainer : n # m => At(n, "idle") \/ At(n, "waiting")
    BY <1>9, OneInside DEF Ends, Queue
  <2>4. reset'[m].at = "idle" /\ mutex' = Tail(mutex)
    BY <1>9, EndsMoves DEF Ends
  <2>. QED BY <2>1, <2>2, <2>3, <2>4, QueueTail DEF ResetTypes
<1>10. ASSUME NEW m \in Maintainer, NEW c \in Category, Wipes(m, c) PROVE Queue'
  <2>1. \A n \in Maintainer : reset'[n].at = reset[n].at
    BY <1>10, WipesMoves
  <2>. QED BY <2>1, <1>10 DEF Wipes
<1>11. ASSUME NEW m \in Maintainer, NEW s \in Selections, Ask(m, s) PROVE Queue'
  <2>1. reset'[m].at = "waiting" /\ \A n \in Maintainer : n # m => reset'[n] = reset[n]
    BY <1>11 DEF Ask, ResetTypes, Call, Idle
  <2>. QED BY <2>1, <1>11, QueueAppend DEF Ask, ResetTypes
<1>12. ASSUME NEW g \in AdmissionGate, CallEnters(g) PROVE Queue'
  BY <1>12 DEF CallEnters
<1>13. ASSUME NEW g \in AdmissionGate, CallLeaves(g) PROVE Queue'
  BY <1>13 DEF CallLeaves
<1>14. CASE WriteMoves
  BY <1>14 DEF WriteMoves
<1>15. CASE UNCHANGED allResetVars
  BY <1>15
<1>. QED BY <1>1, <1>2, <1>3, <1>4, <1>5, <1>6, <1>7, <1>8, <1>9, <1>10, <1>11, <1>12, <1>13, <1>14,
          <1>15
       DEF ResetNext, ResetStep

LEMMA LeaseHolds == IInv /\ ResetTypes /\ Queue /\ Lease /\ [ResetNext]_allResetVars => Lease'
<1>. SUFFICES ASSUME IInv, ResetTypes, Queue, Lease, [ResetNext]_allResetVars PROVE Lease'
  OBVIOUS
<1>. USE DEF At, resetVars, allResetVars, Lease
<1>1. ASSUME NEW m \in Maintainer, Locked(m) PROVE Lease'
  <2>1. \A n \in Maintainer : n # m => At(n, "idle") \/ At(n, "waiting")
    BY <1>1, OneInside DEF Locked
  <2>2. \A n \in Maintainer : mpc[n] = "outside"
    BY <2>1, <1>1, LockedMoves
  <2>3. CASE reset[m].wipes = {}
    BY <2>2, <2>3, <1>1, LockedMoves DEF vars
  <2>4. CASE reset[m].wipes # {}
    <3>1. mpc' = [mpc EXCEPT ![m] = "leased"]
      BY <2>2, <2>4, <1>1, LeaseTaken, LockedMoves
    <3>. QED BY <2>1, <2>2, <2>4, <3>1, <1>1, LockedMoves DEF IInv, TypeOK
  <2>. QED BY <2>3, <2>4
<1>2. ASSUME NEW m \in Maintainer, ClosesGates(m) PROVE Lease'
  <2>1. mpc' = mpc
    BY <1>2 DEF ClosesGates, vars
  <2>2. /\ reset[m].at = "leased" /\ reset'[m].at = "pausing"
        /\ \A n \in Maintainer : n # m => reset'[n] = reset[n]
    BY <1>2, ClosesGatesMoves
  <2>. QED BY <2>1, <2>2
<1>3. ASSUME NEW m \in Maintainer, Paused(m) PROVE Lease'
  <2>1. mpc' = mpc
    BY <1>3 DEF Paused, vars
  <2>. QED BY <2>1, <1>3, PausedMoves
<1>4. ASSUME NEW m \in Maintainer, Cleared(m) PROVE Lease'
  <2>1. mpc' = mpc
    BY <1>4 DEF Cleared, vars
  <2>. QED BY <2>1, <1>4, ClearedMoves
<1>5. ASSUME NEW m \in Maintainer, Drains(m) PROVE Lease'
  <2>1. CASE mpc[m] = "exclusive" /\ UNCHANGED vars /\ reset'[m].at = "stopping"
    BY <2>1, <1>5, DrainsMoves DEF vars
  <2>2. CASE reset'[m] = reset[m] /\ (Drain(m) \/ Drained(m))
    <3>1. PICK pc \in {"draining", "drainWoken", "exclusive"} : mpc' = [mpc EXCEPT ![m] = pc]
      BY <2>2, DrainMoves
    <3>. QED BY <2>2, <3>1, <1>5, DrainsMoves DEF IInv, TypeOK
  <2>. QED BY <2>1, <2>2, <1>5, DrainsMoves
<1>6. ASSUME NEW m \in Maintainer, NodeStopped(m) PROVE Lease'
  <2>1. mpc' = mpc
    BY <1>6 DEF NodeStopped, vars
  <2>. QED BY <2>1, <1>6, NodeStoppedMoves
<1>7. ASSUME NEW m \in Maintainer, NodeStarted(m) PROVE Lease'
  <2>1. mpc' = mpc
    BY <1>7 DEF NodeStarted, vars
  <2>. QED BY <2>1, <1>7, NodeStartedMoves
<1>8. ASSUME NEW m \in Maintainer, Restored(m) PROVE Lease'
  <2>1. mpc' = mpc
    BY <1>8 DEF Restored, vars
  <2>. QED BY <2>1, <1>8, RestoredMoves
<1>9. ASSUME NEW m \in Maintainer, Ends(m) PROVE Lease'
  <2>1. \A n \in Maintainer : mpc[n] # "parked"
    BY PhaseNames, CallFields DEF ResetTypes, Phase
  <2>2. mpc' = [mpc EXCEPT ![m] = "outside"]
    BY <2>1, <1>9, LeaseReleased DEF Ends
  <2>. QED BY <2>2, <1>9, EndsMoves DEF IInv, TypeOK
<1>10. ASSUME NEW m \in Maintainer, NEW c \in Category, Wipes(m, c) PROVE Lease'
  <2>1. mpc' = mpc
    BY <1>10 DEF Wipes, vars
  <2>. QED BY <2>1, <1>10, WipesMoves
<1>11. ASSUME NEW m \in Maintainer, NEW s \in Selections, Ask(m, s) PROVE Lease'
  <2>1. mpc' = mpc
    BY <1>11 DEF Ask, vars
  <2>. QED BY <2>1, <1>11, AskMoves
<1>12. ASSUME NEW g \in AdmissionGate, CallEnters(g) PROVE Lease'
  BY <1>12 DEF CallEnters, vars
<1>13. ASSUME NEW g \in AdmissionGate, CallLeaves(g) PROVE Lease'
  BY <1>13 DEF CallLeaves, vars
<1>14. CASE WriteMoves
  <2>1. reset' = reset
    BY <1>14 DEF WriteMoves
  <2>2. \A n \in Maintainer : mpc'[n] = mpc[n] \/ (mpc[n] = "draining" /\ mpc'[n] = "drainWoken")
    BY <1>14, WriteWakes
  <2>. QED BY <2>1, <2>2
<1>15. CASE UNCHANGED allResetVars
  BY <1>15 DEF vars
<1>. QED BY <1>1, <1>2, <1>3, <1>4, <1>5, <1>6, <1>7, <1>8, <1>9, <1>10, <1>11, <1>12, <1>13, <1>14,
          <1>15
       DEF ResetNext, ResetStep

LEMMA ShutHolds == ResetTypes /\ Queue /\ Shut /\ [ResetNext]_allResetVars => Shut'
<1>. SUFFICES ASSUME ResetTypes, Queue, Shut, [ResetNext]_allResetVars PROVE Shut'
  OBVIOUS
<1>. USE DEF At, resetVars, allResetVars, Shut, Behind
<1>1. ASSUME NEW m \in Maintainer, Locked(m) PROVE Shut'
  <2>1. \A n \in Maintainer : n # m => At(n, "idle") \/ At(n, "waiting")
    BY <1>1, OneInside DEF Locked
  <2>. QED BY <2>1, <1>1, LockedMoves DEF Locked
<1>2. ASSUME NEW m \in Maintainer, ClosesGates(m) PROVE Shut'
  <2>1. \A n \in Maintainer : n # m => At(n, "idle") \/ At(n, "waiting")
    BY <1>2, OneInside DEF ClosesGates
  <2>. QED BY <2>1, <1>2, ClosesGatesMoves DEF ClosesGates
<1>3. ASSUME NEW m \in Maintainer, Paused(m) PROVE Shut'
  <2>1. \A n \in Maintainer : n # m => At(n, "idle") \/ At(n, "waiting")
    BY <1>3, OneInside DEF Paused
  <2>. QED BY <2>1, <1>3, PausedMoves DEF Paused
<1>4. ASSUME NEW m \in Maintainer, Cleared(m) PROVE Shut'
  <2>1. \A n \in Maintainer : n # m => At(n, "idle") \/ At(n, "waiting")
    BY <1>4, OneInside DEF Cleared
  <2>. QED BY <2>1, <1>4, ClearedMoves DEF Cleared
<1>5. ASSUME NEW m \in Maintainer, Drains(m) PROVE Shut'
  <2>1. \A n \in Maintainer : n # m => At(n, "idle") \/ At(n, "waiting")
    BY <1>5, OneInside DEF Drains
  <2>. QED BY <2>1, <1>5, DrainsMoves DEF Drains
<1>6. ASSUME NEW m \in Maintainer, NodeStopped(m) PROVE Shut'
  <2>1. \A n \in Maintainer : n # m => At(n, "idle") \/ At(n, "waiting")
    BY <1>6, OneInside DEF NodeStopped
  <2>. QED BY <2>1, <1>6, NodeStoppedMoves DEF NodeStopped
<1>7. ASSUME NEW m \in Maintainer, NodeStarted(m) PROVE Shut'
  <2>1. \A n \in Maintainer : n # m => At(n, "idle") \/ At(n, "waiting")
    BY <1>7, OneInside DEF NodeStarted
  <2>. QED BY <2>1, <1>7, NodeStartedMoves DEF NodeStarted
<1>8. ASSUME NEW m \in Maintainer, Restored(m) PROVE Shut'
  <2>1. \A n \in Maintainer : n # m => At(n, "idle") \/ At(n, "waiting")
    BY <1>8, OneInside DEF Restored
  <2>. QED BY <2>1, <1>8, RestoredMoves DEF Restored
<1>9. ASSUME NEW m \in Maintainer, Ends(m) PROVE Shut'
  <2>1. \A n \in Maintainer : n # m => At(n, "idle") \/ At(n, "waiting")
    BY <1>9, OneInside DEF Ends
  <2>. QED BY <2>1, <1>9, EndsMoves DEF Ends
<1>10. ASSUME NEW m \in Maintainer, NEW c \in Category, Wipes(m, c) PROVE Shut'
  <2>1. \A n \in Maintainer : n # m => At(n, "idle") \/ At(n, "waiting")
    BY <1>10, OneInside DEF Wipes
  <2>. QED BY <2>1, <1>10, WipesMoves DEF Wipes
<1>11. ASSUME NEW m \in Maintainer, NEW s \in Selections, Ask(m, s) PROVE Shut'
  BY <1>11, AskMoves DEF Ask
<1>12. ASSUME NEW g \in AdmissionGate, CallEnters(g) PROVE Shut'
  BY <1>12 DEF CallEnters
<1>13. ASSUME NEW g \in AdmissionGate, CallLeaves(g) PROVE Shut'
  BY <1>13 DEF CallLeaves
<1>14. CASE WriteMoves
  BY <1>14 DEF WriteMoves
<1>15. CASE UNCHANGED allResetVars
  BY <1>15
<1>. QED BY <1>1, <1>2, <1>3, <1>4, <1>5, <1>6, <1>7, <1>8, <1>9, <1>10, <1>11, <1>12, <1>13, <1>14,
          <1>15
       DEF ResetNext, ResetStep

LEMMA SettledHolds == ResetTypes /\ Queue /\ Shut /\ Settled /\ [ResetNext]_allResetVars => Settled'
<1>. SUFFICES ASSUME ResetTypes, Queue, Shut, Settled, [ResetNext]_allResetVars PROVE Settled'
  OBVIOUS
<1>. USE DEF At, resetVars, allResetVars, Shut, Behind, Settled
<1>1. ASSUME NEW m \in Maintainer, Locked(m) PROVE Settled'
  <2>1. \A n \in Maintainer : n # m => At(n, "idle") \/ At(n, "waiting")
    BY <1>1, OneInside DEF Locked
  <2>. QED BY <2>1, <1>1, LockedMoves DEF Locked
<1>2. ASSUME NEW m \in Maintainer, ClosesGates(m) PROVE Settled'
  <2>1. \A n \in Maintainer : n # m => At(n, "idle") \/ At(n, "waiting")
    BY <1>2, OneInside DEF ClosesGates
  <2>2. closed' = AdmissionGate /\ UNCHANGED <<vars, mutex, inside, transfers, node, touched>>
    BY <1>2 DEF ClosesGates
  <2>. QED BY <2>1, <2>2, <1>2, ClosesGatesMoves
<1>3. ASSUME NEW m \in Maintainer, Paused(m) PROVE Settled'
  <2>1. \A n \in Maintainer : n # m => At(n, "idle") \/ At(n, "waiting")
    BY <1>3, OneInside DEF Paused
  <2>. QED BY <2>1, <1>3, PausedMoves DEF Paused
<1>4. ASSUME NEW m \in Maintainer, Cleared(m) PROVE Settled'
  <2>1. \A n \in Maintainer : n # m => At(n, "idle") \/ At(n, "waiting")
    BY <1>4, OneInside DEF Cleared
  <2>. QED BY <2>1, <1>4, ClearedMoves DEF Cleared
<1>5. ASSUME NEW m \in Maintainer, Drains(m) PROVE Settled'
  <2>1. \A n \in Maintainer : n # m => At(n, "idle") \/ At(n, "waiting")
    BY <1>5, OneInside DEF Drains
  <2>. QED BY <2>1, <1>5, DrainsMoves DEF Drains
<1>6. ASSUME NEW m \in Maintainer, NodeStopped(m) PROVE Settled'
  <2>1. \A n \in Maintainer : n # m => At(n, "idle") \/ At(n, "waiting")
    BY <1>6, OneInside DEF NodeStopped
  <2>. QED BY <2>1, <1>6, NodeStoppedMoves DEF NodeStopped
<1>7. ASSUME NEW m \in Maintainer, NodeStarted(m) PROVE Settled'
  <2>1. \A n \in Maintainer : n # m => At(n, "idle") \/ At(n, "waiting")
    BY <1>7, OneInside DEF NodeStarted
  <2>. QED BY <2>1, <1>7, NodeStartedMoves DEF NodeStarted
<1>8. ASSUME NEW m \in Maintainer, Restored(m) PROVE Settled'
  <2>1. \A n \in Maintainer : n # m => At(n, "idle") \/ At(n, "waiting")
    BY <1>8, OneInside DEF Restored
  <2>. QED BY <2>1, <1>8, RestoredMoves DEF Restored
<1>9. ASSUME NEW m \in Maintainer, Ends(m) PROVE Settled'
  <2>1. \A n \in Maintainer : n # m => At(n, "idle") \/ At(n, "waiting")
    BY <1>9, OneInside DEF Ends
  <2>. QED BY <2>1, <1>9, EndsMoves DEF Ends
<1>10. ASSUME NEW m \in Maintainer, NEW c \in Category, Wipes(m, c) PROVE Settled'
  <2>1. \A n \in Maintainer : n # m => At(n, "idle") \/ At(n, "waiting")
    BY <1>10, OneInside DEF Wipes
  <2>. QED BY <2>1, <1>10, WipesMoves DEF Wipes
<1>11. ASSUME NEW m \in Maintainer, NEW s \in Selections, Ask(m, s) PROVE Settled'
  <2>1. UNCHANGED <<vars, closed, inside, transfers, node, touched>>
    BY <1>11 DEF Ask
  <2>. QED BY <2>1, <1>11, AskMoves
<1>12. ASSUME NEW g \in AdmissionGate, CallEnters(g) PROVE Settled'
  BY <1>12 DEF CallEnters
<1>13. ASSUME NEW g \in AdmissionGate, CallLeaves(g) PROVE Settled'
  BY <1>13 DEF CallLeaves
<1>14. CASE WriteMoves
  BY <1>14 DEF WriteMoves
<1>15. CASE UNCHANGED allResetVars
  BY <1>15
<1>. QED BY <1>1, <1>2, <1>3, <1>4, <1>5, <1>6, <1>7, <1>8, <1>9, <1>10, <1>11, <1>12, <1>13, <1>14,
          <1>15
       DEF ResetNext, ResetStep

LEMMA WholeHolds == ResetTypes /\ Queue /\ Settled /\ Whole /\ [ResetNext]_allResetVars => Whole'
<1>. SUFFICES ASSUME ResetTypes, Queue, Settled, Whole, [ResetNext]_allResetVars PROVE Whole'
  OBVIOUS
<1>. USE DEF At, resetVars, allResetVars, Behind, Settled, Whole
<1>1. ASSUME NEW m \in Maintainer, Locked(m) PROVE Whole'
  <2>1. \A n \in Maintainer : n # m => At(n, "idle") \/ At(n, "waiting")
    BY <1>1, OneInside DEF Locked
  <2>. QED BY <2>1, <1>1, LockedMoves DEF Locked
<1>2. ASSUME NEW m \in Maintainer, ClosesGates(m) PROVE Whole'
  <2>1. \A n \in Maintainer : n # m => At(n, "idle") \/ At(n, "waiting")
    BY <1>2, OneInside DEF ClosesGates
  <2>2. closed' = AdmissionGate /\ UNCHANGED <<vars, mutex, inside, transfers, node, touched>>
    BY <1>2 DEF ClosesGates
  <2>. QED BY <2>1, <2>2, <1>2, ClosesGatesMoves
<1>3. ASSUME NEW m \in Maintainer, Paused(m) PROVE Whole'
  <2>1. \A n \in Maintainer : n # m => At(n, "idle") \/ At(n, "waiting")
    BY <1>3, OneInside DEF Paused
  <2>. QED BY <2>1, <1>3, PausedMoves DEF Paused
<1>4. ASSUME NEW m \in Maintainer, Cleared(m) PROVE Whole'
  <2>1. \A n \in Maintainer : n # m => At(n, "idle") \/ At(n, "waiting")
    BY <1>4, OneInside DEF Cleared
  <2>. QED BY <2>1, <1>4, ClearedMoves DEF Cleared
<1>5. ASSUME NEW m \in Maintainer, Drains(m) PROVE Whole'
  <2>1. \A n \in Maintainer : n # m => At(n, "idle") \/ At(n, "waiting")
    BY <1>5, OneInside DEF Drains
  <2>. QED BY <2>1, <1>5, DrainsMoves DEF Drains
<1>6. ASSUME NEW m \in Maintainer, NodeStopped(m) PROVE Whole'
  <2>1. \A n \in Maintainer : n # m => At(n, "idle") \/ At(n, "waiting")
    BY <1>6, OneInside DEF NodeStopped
  <2>. QED BY <2>1, <1>6, NodeStoppedMoves DEF NodeStopped
<1>7. ASSUME NEW m \in Maintainer, NodeStarted(m) PROVE Whole'
  <2>1. \A n \in Maintainer : n # m => At(n, "idle") \/ At(n, "waiting")
    BY <1>7, OneInside DEF NodeStarted
  <2>. QED BY <2>1, <1>7, NodeStartedMoves DEF NodeStarted
<1>8. ASSUME NEW m \in Maintainer, Restored(m) PROVE Whole'
  <2>1. \A n \in Maintainer : n # m => At(n, "idle") \/ At(n, "waiting")
    BY <1>8, OneInside DEF Restored
  <2>. QED BY <2>1, <1>8, RestoredMoves DEF Restored
<1>9. ASSUME NEW m \in Maintainer, Ends(m) PROVE Whole'
  <2>1. \A n \in Maintainer : n # m => At(n, "idle") \/ At(n, "waiting")
    BY <1>9, OneInside DEF Ends
  <2>. QED BY <2>1, <1>9, EndsMoves DEF Ends
<1>10. ASSUME NEW m \in Maintainer, NEW c \in Category, Wipes(m, c) PROVE Whole'
  <2>1. \A n \in Maintainer : n # m => At(n, "idle") \/ At(n, "waiting")
    BY <1>10, OneInside DEF Wipes
  <2>. QED BY <2>1, <1>10, WipesMoves DEF Wipes
<1>11. ASSUME NEW m \in Maintainer, NEW s \in Selections, Ask(m, s) PROVE Whole'
  <2>1. UNCHANGED <<vars, closed, inside, transfers, node, touched>>
    BY <1>11 DEF Ask
  <2>. QED BY <2>1, <1>11, AskMoves
<1>12. ASSUME NEW g \in AdmissionGate, CallEnters(g) PROVE Whole'
  BY <1>12 DEF CallEnters
<1>13. ASSUME NEW g \in AdmissionGate, CallLeaves(g) PROVE Whole'
  BY <1>13 DEF CallLeaves
<1>14. CASE WriteMoves
  BY <1>14 DEF WriteMoves
<1>15. CASE UNCHANGED allResetVars
  BY <1>15
<1>. QED BY <1>1, <1>2, <1>3, <1>4, <1>5, <1>6, <1>7, <1>8, <1>9, <1>10, <1>11, <1>12, <1>13, <1>14,
          <1>15
       DEF ResetNext, ResetStep

LEMMA OpenHolds == ResetTypes /\ Queue /\ Shut /\ Whole /\ OpenIsWhole /\ [ResetNext]_allResetVars => OpenIsWhole'
<1>. SUFFICES ASSUME ResetTypes, Queue, Shut, Whole, OpenIsWhole, [ResetNext]_allResetVars PROVE OpenIsWhole'
  OBVIOUS
<1>. USE DEF At, resetVars, allResetVars, Behind, Shut, Whole, OpenIsWhole
<1>1. ASSUME NEW m \in Maintainer, Locked(m) PROVE OpenIsWhole'
  <2>1. \A n \in Maintainer : n # m => At(n, "idle") \/ At(n, "waiting")
    BY <1>1, OneInside DEF Locked
  <2>. QED BY <2>1, <1>1, LockedMoves DEF Locked
<1>2. ASSUME NEW m \in Maintainer, ClosesGates(m) PROVE OpenIsWhole'
  <2>1. \A n \in Maintainer : n # m => At(n, "idle") \/ At(n, "waiting")
    BY <1>2, OneInside DEF ClosesGates
  <2>2. closed' = AdmissionGate /\ UNCHANGED <<vars, mutex, inside, transfers, node, touched>>
    BY <1>2 DEF ClosesGates
  <2>. QED BY <2>1, <2>2, <1>2, ClosesGatesMoves
<1>3. ASSUME NEW m \in Maintainer, Paused(m) PROVE OpenIsWhole'
  <2>1. \A n \in Maintainer : n # m => At(n, "idle") \/ At(n, "waiting")
    BY <1>3, OneInside DEF Paused
  <2>. QED BY <2>1, <1>3, PausedMoves DEF Paused
<1>4. ASSUME NEW m \in Maintainer, Cleared(m) PROVE OpenIsWhole'
  <2>1. \A n \in Maintainer : n # m => At(n, "idle") \/ At(n, "waiting")
    BY <1>4, OneInside DEF Cleared
  <2>. QED BY <2>1, <1>4, ClearedMoves DEF Cleared
<1>5. ASSUME NEW m \in Maintainer, Drains(m) PROVE OpenIsWhole'
  <2>1. \A n \in Maintainer : n # m => At(n, "idle") \/ At(n, "waiting")
    BY <1>5, OneInside DEF Drains
  <2>. QED BY <2>1, <1>5, DrainsMoves DEF Drains
<1>6. ASSUME NEW m \in Maintainer, NodeStopped(m) PROVE OpenIsWhole'
  <2>1. \A n \in Maintainer : n # m => At(n, "idle") \/ At(n, "waiting")
    BY <1>6, OneInside DEF NodeStopped
  <2>. QED BY <2>1, <1>6, NodeStoppedMoves DEF NodeStopped
<1>7. ASSUME NEW m \in Maintainer, NodeStarted(m) PROVE OpenIsWhole'
  <2>1. \A n \in Maintainer : n # m => At(n, "idle") \/ At(n, "waiting")
    BY <1>7, OneInside DEF NodeStarted
  <2>. QED BY <2>1, <1>7, NodeStartedMoves DEF NodeStarted
<1>8. ASSUME NEW m \in Maintainer, Restored(m) PROVE OpenIsWhole'
  <2>1. \A n \in Maintainer : n # m => At(n, "idle") \/ At(n, "waiting")
    BY <1>8, OneInside DEF Restored
  <2>. QED BY <2>1, <1>8, RestoredMoves DEF Restored
<1>9. ASSUME NEW m \in Maintainer, Ends(m) PROVE OpenIsWhole'
  <2>1. \A n \in Maintainer : n # m => At(n, "idle") \/ At(n, "waiting")
    BY <1>9, OneInside DEF Ends
  <2>. QED BY <2>1, <1>9, EndsMoves DEF Ends
<1>10. ASSUME NEW m \in Maintainer, NEW c \in Category, Wipes(m, c) PROVE OpenIsWhole'
  <2>1. \A n \in Maintainer : n # m => At(n, "idle") \/ At(n, "waiting")
    BY <1>10, OneInside DEF Wipes
  <2>. QED BY <2>1, <1>10, WipesMoves DEF Wipes
<1>11. ASSUME NEW m \in Maintainer, NEW s \in Selections, Ask(m, s) PROVE OpenIsWhole'
  <2>1. UNCHANGED <<vars, closed, inside, transfers, node, touched>>
    BY <1>11 DEF Ask
  <2>. QED BY <2>1, <1>11, AskMoves
<1>12. ASSUME NEW g \in AdmissionGate, CallEnters(g) PROVE OpenIsWhole'
  BY <1>12 DEF CallEnters
<1>13. ASSUME NEW g \in AdmissionGate, CallLeaves(g) PROVE OpenIsWhole'
  BY <1>13 DEF CallLeaves
<1>14. CASE WriteMoves
  BY <1>14 DEF WriteMoves
<1>15. CASE UNCHANGED allResetVars
  BY <1>15
<1>. QED BY <1>1, <1>2, <1>3, <1>4, <1>5, <1>6, <1>7, <1>8, <1>9, <1>10, <1>11, <1>12, <1>13, <1>14,
          <1>15
       DEF ResetNext, ResetStep

\* When a category is wiped nothing runs: the phases before have stopped it all.
LEMMA WipedHolds ==
  IInv /\ ResetTypes /\ Lease /\ Settled /\ WipedIsQuiet /\ [ResetNext]_allResetVars => WipedIsQuiet'
<1>. SUFFICES ASSUME IInv, ResetTypes, Lease, Settled, WipedIsQuiet, [ResetNext]_allResetVars
              PROVE  WipedIsQuiet'
  OBVIOUS
<1>1. ASSUME NEW m \in Maintainer, NEW c \in Category, Wipes(m, c) PROVE WipedIsQuiet'
  <2>1. reset[m].at = "wiping"
    BY <1>1 DEF Wipes, At
  <2>2. inside = {} /\ transfers = "cleared" /\ node = "down" /\ mpc[m] = "exclusive"
    BY <2>1 DEF Settled, Lease, At, Behind
  <2>3. \A w \in Writer : wpc[w] # "inside"
    BY <2>2 DEF IInv, DrainedIsEmpty, Inside
  <2>. QED BY <1>1, <2>2, <2>3 DEF Wipes, Runs, WipedIsQuiet
<1>2. CASE UNCHANGED touched
  BY <1>2 DEF WipedIsQuiet
<1>3. (\E m \in Maintainer : \E c \in Category : Wipes(m, c)) \/ UNCHANGED touched
  BY DEF ResetNext, ResetStep, allResetVars, resetVars, Ask, CallEnters, CallLeaves, WriteMoves,
     Locked, ClosesGates, Paused, Cleared, Drains, NodeStopped, NodeStarted, Restored, Ends
<1>. QED BY <1>1, <1>2, <1>3

-----------------------------------------------------------------------------

LEMMA InitHolds == Init /\ ResetInit => ResetInv
<1>. SUFFICES ASSUME Init, ResetInit PROVE ResetInv
  OBVIOUS
<1>1. Idle \in Call
  BY DEF Idle, Call, Phase
<1>2. ResetTypes
  BY <1>1 DEF ResetInit, ResetTypes
<1>3. Queue /\ Shut /\ Settled /\ Whole
  BY DEF ResetInit, Queue, Shut, Settled, Whole, At, Behind, Idle
<1>4. Lease
  BY DEF Init, ResetInit, Lease, At, Idle
<1>5. ResetIsWhole
  BY DEF ResetInit, ResetIsWhole, WipedIsQuiet, OpenIsWhole
<1>. QED BY <1>2, <1>3, <1>4, <1>5, InitIInv DEF ResetInv

LEMMA NextHolds == ResetInv /\ [ResetNext]_allResetVars => ResetInv'
  BY ResetIInv, TypesHold, QueueHolds, LeaseHolds, ShutHolds, SettledHolds, WholeHolds, OpenHolds,
     WipedHolds DEF ResetInv, ResetIsWhole

\* What a factory reset wipes belongs to nobody: no transfer runs, no call or lishnet
\* write is inside and the node is down, whatever failed on the way and however many
\* resets were asked for; and calls are let in only over a program that is whole.
THEOREM WholeReset == ResetSpec => []ResetIsWhole
<1>1. ResetInv => ResetIsWhole
  BY DEF ResetInv
<1>. QED BY <1>1, InitHolds, NextHolds, PTL DEF ResetSpec

\* The lishnet gate keeps its promises inside the reset as it does by itself: a reset that
\* has drained it works alone, and no lishnet write enters while one holds the lease.
THEOREM ResetExcludes == ResetSpec => []Exclusion /\ NothingEntersClosedGate
<1>1. ResetSpec => Spec
  <2>1. ResetInit /\ Init => Init
    OBVIOUS
  <2>. QED BY <2>1, ResetMovesGate, PTL DEF ResetSpec, Spec
<1>. QED BY <1>1, ExclusionHolds, ClosedGateHolds, PTL

-----------------------------------------------------------------------------
(***************************************************************************)
(* When the calls are through, memory, file, protocol layer and client     *)
(* hold the same settings and a chunk fits into a message: for any sizes,  *)
(* any number of calls, and saves, imports, resets and restarts in any     *)
(* order.                                                                  *)
(*                                                                         *)
(* None of it is inductive while calls wait.  The last of the queued saves *)
(* writes the object in memory (Queued); an unusable pair has a call in    *)
(* the queue that will repair it (Repaired); and what the client shows is, *)
(* path by path, the last it sent, or what is stored if it sent nothing    *)
(* (Follows), with each chunk size that can be the last one before the     *)
(* repair fitting into the message size that is shown (Fits).              *)
(***************************************************************************)

CallData == [then : {"repair", "import", "apply"}, rest : Seq(Entry), of : Snapshot]
SentData == {call \in [path : Paths, value : Nat] : call.value \in Values(call.path)}

SettingsTypes ==
  /\ stored \in SettingsData /\ file \in SettingsData /\ screen \in SettingsData
  /\ writing \in Snapshot
  /\ pending \in Seq(CallData) /\ Len(pending) <= MaxPending
  /\ sent \in Seq(SentData) /\ Len(sent) <= 2 * settingsEvents
  /\ limit \in Speed /\ foreign \in BOOLEAN /\ cut \in BOOLEAN
  /\ settingsEvents \in 0 .. MaxSettingsEvents

\* The last save that is queued writes what is in memory.
Queued ==
  /\ pending = <<>> => file = stored /\ writing = {}
  /\ pending # <<>> => pending[Len(pending)].of = {}
  /\ Len(pending) = 1 /\ writing # {} => writing = {stored}

\* Somebody is still to repair, or there is nothing to be repaired.
Repaired ==
  \/ \E i \in 1 .. Len(pending) : pending[i].then # "apply"
  \/ Usable(stored)
  \/ cut /\ pending = <<>>

Applied == pending # <<>> \/ limit = stored.speed

\* The last call for path on the list.
Last(list, path, i) ==
  /\ list[i].path = path
  /\ \A k \in 1 .. Len(list) : k > i => list[k].path # path
\* What is shown is the last on the list of what the client sent, or stored.
Follows(list, shown, path) ==
  /\ (\A i \in 1 .. Len(list) : list[i].path # path) => stored[path] = shown[path]
  /\ \A i \in 1 .. Len(list) : Last(list, path, i) => list[i].value = shown[path]

\* The chunk size of call j, or for 0 the stored one, is replaced before a
\* message size arrives.
Outdone(list, j) ==
  \E k, n \in 1 .. Len(list) :
    j < k /\ k < n /\ list[k].path = "chunk" /\ list[n].path = "message"
Fits(list, shown) ==
  /\ \A j \in 1 .. Len(list) :
       list[j].path = "chunk" /\ ~Outdone(list, j) => list[j].value + 1 <= shown.message
  /\ ~Outdone(list, 0) => stored.chunk + 1 <= shown.message

\* No import of somebody else is under way.
Mine == \A i \in 1 .. Len(pending) : pending[i].then # "import"
Shown ==
  ~foreign => /\ Mine /\ Fits(sent, screen)
              /\ \A path \in Paths : Follows(sent, screen, path)

SettingsInv == SettingsTypes /\ Queued /\ Repaired /\ Applied /\ Shown

-----------------------------------------------------------------------------
(* The data.                                                               *)

LEMMA ValuesAre ==
  /\ Values("chunk") = 1 .. MaxSize
  /\ Values("message") = 1 .. MaxSize + 1
  /\ Values("speed") = 0 .. 1
  /\ \A path \in Paths : Values(path) \subseteq Nat
BY SettingsAssumption
   DEF Values, Paths, Speed, minMessageSizeFor, MESSAGE_SIZE_HEADROOM

LEMMA WithIs ==
  ASSUME NEW data \in SettingsData, NEW path \in Paths, NEW value \in Values(path)
  PROVE  /\ With(data, path, value) \in SettingsData
         /\ With(data, path, value)[path] = value
         /\ \A p \in Paths : p # path => With(data, path, value)[p] = data[p]
<1>1. CASE path = "chunk"
  BY <1>1, ValuesAre DEF With, SettingsData, Paths
<1>2. CASE path = "message"
  BY <1>2, ValuesAre DEF With, SettingsData, Paths
<1>3. CASE path = "speed"
  BY <1>3, ValuesAre DEF With, SettingsData, Paths, Speed
<1>4. QED
  BY <1>1, <1>2, <1>3 DEF Paths

LEMMA DefaultIs == DEFAULT_SETTINGS \in SettingsData /\ Usable(DEFAULT_SETTINGS)
BY ValuesAre, SettingsAssumption
   DEF DEFAULT_SETTINGS, SettingsData, Usable, minMessageSizeFor, MESSAGE_SIZE_HEADROOM, Speed

\* What an import writes are sizes of chunks and of messages.
LEMMA EntryIs ==
  ASSUME NEW entry \in Entry
  PROVE  entry.path \in Paths /\ entry.value \in Values(entry.path)
BY DEF Entry, Paths

LEMMA BackupIs == Backup \subseteq Seq(Entry)
<1>1. \A entry \in Entry : <<entry>> \in Seq(Entry)
  OBVIOUS
<1>2. ASSUME NEW pair \in Entry \X Entry
      PROVE  pair \in Seq(Entry)
  <2>1. PICK one \in Entry, other \in Entry : pair = <<one, other>>
    OBVIOUS
  <2>2. <<one, other>> \in Seq(Entry)
    OBVIOUS
  <2>3. QED
    BY <2>1, <2>2
<1>3. <<>> \in Seq(Entry)
  OBVIOUS
<1>4. ASSUME NEW entries \in Backup
      PROVE  entries \in Seq(Entry)
  <2>1. \/ entries = <<>> \/ \E entry \in Entry : entries = <<entry>>
        \/ entries \in Entry \X Entry
    BY DEF Backup
  <2>2. QED
    BY <1>1, <1>2, <1>3, <2>1
<1>5. QED
  BY <1>4

LEMMA WaitsIs ==
  ASSUME NEW then \in {"repair", "import", "apply"}, NEW rest \in Seq(Entry)
  PROVE  /\ Waits(then, rest) \in CallData
         /\ Waits(then, rest).then = then
         /\ Waits(then, rest).rest = rest
         /\ Waits(then, rest).of = {}
BY DEF Waits, CallData, Snapshot

LEMMA SentIs ==
  ASSUME NEW path \in Paths, NEW value \in Values(path)
  PROVE  /\ Sent(path, value) \in SentData
         /\ Sent(path, value).path = path
         /\ Sent(path, value).value = value
BY ValuesAre DEF Sent, SentData

LEMMA MaxIs ==
  ASSUME NEW a \in Int, NEW b \in Int
  PROVE  Max({a, b}) = IF a >= b THEN a ELSE b
<1> DEFINE m == IF a >= b THEN a ELSE b
<1>1. m \in {a, b} /\ \A y \in {a, b} : m >= y
  OBVIOUS
<1>2. \A x \in {a, b} : (\A y \in {a, b} : x >= y) => x = m
  OBVIOUS
<1>3. QED
  BY <1>1, <1>2 DEF Max

-----------------------------------------------------------------------------
(* Queues.                                                                 *)

LEMMA AppendIs ==
  ASSUME NEW S, NEW seq \in Seq(S), NEW e \in S
  PROVE  /\ Append(seq, e) \in Seq(S)
         /\ Append(seq, e) # <<>>
         /\ Len(Append(seq, e)) = Len(seq) + 1
         /\ \A i \in 1 .. Len(seq) : Append(seq, e)[i] = seq[i]
         /\ Append(seq, e)[Len(seq) + 1] = e
BY AppendProperties

LEMMA TailIs ==
  ASSUME NEW S, NEW seq \in Seq(S), seq # <<>>
  PROVE  /\ Tail(seq) \in Seq(S)
         /\ Head(seq) \in S /\ Head(seq) = seq[1]
         /\ Len(Tail(seq)) = Len(seq) - 1
         /\ Len(seq) \in Nat /\ Len(seq) >= 1
         /\ \A i \in 1 .. Len(seq) - 1 : Tail(seq)[i] = seq[i + 1]
BY HeadTailProperties, EmptySeq

-----------------------------------------------------------------------------
(* Calls.                                                                  *)

\* A call that goes on over calls is through, with a pair that is usable and
\* with the protocol layer told; or it has changed what is stored and waits
\* behind them, to repair it if it has to be.
Onward(calls) ==
  /\ stored' \in SettingsData /\ limit' \in Speed /\ cut' \in BOOLEAN
  /\ \/ pending' = calls /\ stored' = stored /\ limit' = stored.speed /\ Usable(stored)
     \/ \E call \in CallData :
          /\ pending' = Append(calls, call)
          /\ call.of = {}
          /\ call.then # "apply" \/ Usable(stored')

LEMMA SetGoesOn ==
  ASSUME SettingsTypes, NEW calls \in Seq(CallData),
         NEW path \in Paths, NEW value \in Values(path),
         set(calls, path, value), UNCHANGED <<limit, cut>>
  PROVE  Onward(calls)
<1>1. stored' \in SettingsData
  BY WithIs DEF set, SettingsTypes
<1>2. <<>> \in Seq(Entry)
  OBVIOUS
<1>3. QED
  BY <1>1, <1>2, WaitsIs DEF set, Onward, SettingsTypes

LEMMA PersistGoesOn ==
  ASSUME SettingsTypes, NEW calls \in Seq(CallData), persistAndApplyNetworkLimits(calls)
  PROVE  /\ Onward(calls)
         /\ \/ pending' = calls /\ stored' = stored
            \/ /\ ~Usable(stored)
               /\ stored'.chunk = stored.chunk /\ stored'.speed = stored.speed
               /\ pending' = Append(calls, Waits("apply", <<>>))
<1>1. CASE Usable(stored)
  BY <1>1 DEF persistAndApplyNetworkLimits, applyNetworkLimits, Onward, SettingsTypes, SettingsData
<1>2. CASE ~Usable(stored)
  <2>1. minMessageSizeFor(stored.chunk) \in Values("message")
    BY ValuesAre, SettingsAssumption
       DEF minMessageSizeFor, MESSAGE_SIZE_HEADROOM, SettingsTypes, SettingsData
  <2>2. stored' = [stored EXCEPT !.message = minMessageSizeFor(stored.chunk)]
    BY <1>2 DEF persistAndApplyNetworkLimits
  <2>3. stored' \in SettingsData /\ stored'.chunk = stored.chunk /\ stored'.speed = stored.speed
    BY <2>1, <2>2 DEF SettingsTypes, SettingsData
  <2>4. Usable(stored')
    <3>1. stored'.message = minMessageSizeFor(stored.chunk)
      BY <2>2 DEF SettingsTypes, SettingsData
    <3>2. minMessageSizeFor(stored.chunk) \in Int
      BY <2>1, ValuesAre, SettingsAssumption
    <3>3. QED
      BY <2>3, <3>1, <3>2 DEF Usable
  <2>5. pending' = Append(calls, Waits("apply", <<>>)) /\ UNCHANGED <<limit, cut>>
    BY <1>2 DEF persistAndApplyNetworkLimits
  <2>6. <<>> \in Seq(Entry)
    OBVIOUS
  <2>7. QED
    BY <1>2, <2>3, <2>4, <2>5, <2>6, WaitsIs DEF Onward, SettingsTypes
<1>3. QED
  BY <1>1, <1>2

LEMMA ImportGoesOn ==
  ASSUME SettingsTypes, NEW calls \in Seq(CallData), NEW rest \in Seq(Entry),
         applyImported(calls, rest)
  PROVE  Onward(calls)
<1>1. CASE rest = <<>>
  BY <1>1, PersistGoesOn DEF applyImported
<1>2. CASE rest # <<>>
  <2>1. Head(rest) \in Entry /\ Tail(rest) \in Seq(Entry)
    BY <1>2, TailIs
  <2>2. stored' = With(stored, Head(rest).path, Head(rest).value)
    BY <1>2 DEF applyImported
  <2>3. stored' \in SettingsData
    BY <2>1, <2>2, EntryIs, WithIs DEF SettingsTypes
  <2>4. pending' = Append(calls, Waits("import", Tail(rest))) /\ UNCHANGED <<limit, cut>>
    BY <1>2 DEF applyImported
  <2>5. QED
    BY <2>1, <2>3, <2>4, WaitsIs DEF Onward, SettingsTypes
<1>3. QED
  BY <1>1, <1>2

\* The queue before a call goes on.
QueuedOn(calls) ==
  /\ calls = <<>> => file' = stored /\ writing' = {}
  /\ calls # <<>> => calls[Len(calls)].of = {}
  /\ Len(calls) = 1 /\ writing' # {} => writing' = {stored}

LEMMA OnwardHolds ==
  ASSUME SettingsTypes, NEW calls \in Seq(CallData), Onward(calls), QueuedOn(calls)
  PROVE  /\ stored' \in SettingsData /\ limit' \in Speed /\ cut' \in BOOLEAN
         /\ pending' \in Seq(CallData) /\ Len(pending') <= Len(calls) + 1
         /\ Queued' /\ Repaired' /\ Applied'
<1>0. Len(calls) \in Nat
  OBVIOUS
<1>1. CASE pending' = calls /\ stored' = stored /\ limit' = stored.speed /\ Usable(stored)
  <2>1. Queued'
    BY <1>1 DEF QueuedOn, Queued
  <2>2. Repaired' /\ Applied'
    BY <1>1 DEF Repaired, Applied, Usable
  <2>3. QED
    BY <1>0, <1>1, <2>1, <2>2 DEF Onward
<1>2. ASSUME NEW call \in CallData, pending' = Append(calls, call), call.of = {},
             call.then # "apply" \/ Usable(stored')
      PROVE  /\ pending' \in Seq(CallData) /\ Len(pending') <= Len(calls) + 1
             /\ Queued' /\ Repaired' /\ Applied'
  <2>1. /\ pending' \in Seq(CallData) /\ pending' # <<>>
        /\ Len(pending') = Len(calls) + 1
        /\ pending'[Len(pending')] = call
    BY <1>0, <1>2, AppendIs
  <2>2. Len(pending') = 1 => calls = <<>>
    BY <1>0, <2>1, EmptySeq
  <2>3. Queued'
    BY <1>2, <2>1, <2>2 DEF QueuedOn, Queued
  <2>4. Repaired'
    BY <1>0, <1>2, <2>1 DEF Repaired, Usable
  <2>5. QED
    BY <1>0, <2>1, <2>3, <2>4 DEF Applied
<1>3. QED
  BY <1>1, <1>2 DEF Onward

-----------------------------------------------------------------------------
(* The steps: what the backend has.                                        *)

LEMMA SettingsInitHolds == SettingsInit => SettingsInv
<1> SUFFICES ASSUME SettingsInit PROVE SettingsInv
  OBVIOUS
<1>1. SettingsTypes
  <2>1. limit \in Speed
    BY DefaultIs DEF SettingsInit, SettingsData
  <2>2. <<>> \in Seq(CallData) /\ Len(<<>>) = 0 /\ <<>> \in Seq(SentData)
    BY EmptySeq
  <2>3. {} \in Snapshot
    BY DEF Snapshot
  <2>4. stored \in SettingsData /\ file \in SettingsData /\ screen \in SettingsData
    BY DefaultIs DEF SettingsInit
  <2>5. pending \in Seq(CallData) /\ Len(pending) = 0 /\ sent \in Seq(SentData) /\ Len(sent) = 0
    BY <2>2 DEF SettingsInit
  <2>6. settingsEvents = 0 /\ writing = {} /\ foreign \in BOOLEAN /\ cut \in BOOLEAN
    BY DEF SettingsInit
  <2>7. QED
    BY <2>1, <2>3, <2>4, <2>5, <2>6, SettingsAssumption DEF SettingsTypes
<1>2. Queued /\ Repaired /\ Applied
  BY DefaultIs DEF SettingsInit, Queued, Repaired, Applied
<1>3. Shown
  <2>1. stored = DEFAULT_SETTINGS /\ screen = stored /\ sent = <<>> /\ pending = <<>>
    BY DEF SettingsInit
  <2>2. stored.chunk + 1 <= screen.message
    BY <2>1 DEF DEFAULT_SETTINGS, minMessageSizeFor, MESSAGE_SIZE_HEADROOM
  <2>3. Mine /\ Fits(sent, screen)
    BY <2>1, <2>2 DEF Mine, Fits
  <2>4. Follows(sent, screen, "chunk") /\ Follows(sent, screen, "message") /\ Follows(sent, screen, "speed")
    BY <2>1 DEF Follows
  <2>5. QED
    BY <2>3, <2>4 DEF Shown, Paths
<1>4. QED
  BY <1>1, <1>2, <1>3 DEF SettingsInv

\* What a step of the backend keeps, besides what the client shows.
Kept == SettingsTypes /\ Queued /\ Repaired /\ Applied

LEMMA QueueIsOn == Queued /\ UNCHANGED <<file, writing>> => QueuedOn(pending)
BY DEF Queued, QueuedOn

LEMMA ExecutesKeeps ==
  ASSUME SettingsInv, Executes
  PROVE  Kept'
<1>1. /\ sent # <<>> /\ Len(pending) < MaxPending /\ sent' = Tail(sent)
      /\ set(pending, Head(sent).path, Head(sent).value)
      /\ UNCHANGED <<file, writing, limit, screen, foreign, cut, settingsEvents>>
  BY DEF Executes
<1>2. /\ Head(sent) \in SentData /\ Tail(sent) \in Seq(SentData)
      /\ Len(Tail(sent)) = Len(sent) - 1 /\ Len(sent) \in Nat
  BY <1>1, TailIs DEF SettingsInv, SettingsTypes
<1>3. Onward(pending)
  BY <1>1, <1>2, SetGoesOn DEF SentData, SettingsInv, SettingsTypes
<1>4. /\ stored' \in SettingsData /\ limit' \in Speed /\ cut' \in BOOLEAN
      /\ pending' \in Seq(CallData) /\ Len(pending') <= Len(pending) + 1
      /\ Queued' /\ Repaired' /\ Applied'
  BY <1>1, <1>3, QueueIsOn, OnwardHolds DEF SettingsInv, SettingsTypes
<1>5. Len(pending) \in Nat /\ Len(pending') \in Nat
  BY <1>4 DEF SettingsInv, SettingsTypes
<1>6. SettingsTypes'
  BY <1>1, <1>2, <1>4, <1>5, SettingsAssumption DEF SettingsInv, SettingsTypes
<1>7. QED
  BY <1>4, <1>6 DEF Kept

LEMMA SetsElsewhereKeeps ==
  ASSUME SettingsInv, SetsElsewhere
  PROVE  Kept'
<1>1. /\ SettingsEvent /\ Len(pending) < MaxPending /\ foreign' = TRUE
      /\ UNCHANGED <<file, writing, limit, screen, sent, cut>>
  BY DEF SetsElsewhere
<1>2. PICK path \in Paths : \E value \in Values(path) : set(pending, path, value)
  BY DEF SetsElsewhere
<1>3. Onward(pending)
  BY <1>1, <1>2, SetGoesOn DEF SettingsInv, SettingsTypes
<1>4. /\ stored' \in SettingsData /\ limit' \in Speed /\ cut' \in BOOLEAN
      /\ pending' \in Seq(CallData) /\ Len(pending') <= Len(pending) + 1
      /\ Queued' /\ Repaired' /\ Applied'
  BY <1>1, <1>3, QueueIsOn, OnwardHolds DEF SettingsInv, SettingsTypes
<1>5. Len(pending) \in Nat /\ Len(pending') \in Nat /\ Len(sent) \in Nat
  BY <1>4 DEF SettingsInv, SettingsTypes
<1>6. SettingsTypes'
  BY <1>1, <1>4, <1>5, SettingsAssumption DEF SettingsInv, SettingsTypes, SettingsEvent
<1>7. QED
  BY <1>4, <1>6 DEF Kept

LEMMA ImportsKeeps ==
  ASSUME SettingsInv, Imports
  PROVE  Kept'
<1>1. /\ SettingsEvent /\ Len(pending) < MaxPending /\ foreign' = TRUE
      /\ UNCHANGED <<file, writing, screen, sent>>
  BY DEF Imports
<1>2. PICK entries \in Backup : applyImported(pending, entries)
  BY DEF Imports
<1>3. Onward(pending)
  BY <1>2, BackupIs, ImportGoesOn DEF SettingsInv, SettingsTypes
<1>4. /\ stored' \in SettingsData /\ limit' \in Speed /\ cut' \in BOOLEAN
      /\ pending' \in Seq(CallData) /\ Len(pending') <= Len(pending) + 1
      /\ Queued' /\ Repaired' /\ Applied'
  BY <1>1, <1>3, QueueIsOn, OnwardHolds DEF SettingsInv, SettingsTypes
<1>5. Len(pending) \in Nat /\ Len(pending') \in Nat /\ Len(sent) \in Nat
  BY <1>4 DEF SettingsInv, SettingsTypes
<1>6. SettingsTypes'
  BY <1>1, <1>4, <1>5, SettingsAssumption DEF SettingsInv, SettingsTypes, SettingsEvent
<1>7. QED
  BY <1>4, <1>6 DEF Kept

LEMMA ResetKeeps ==
  ASSUME SettingsInv, resetAll
  PROVE  Kept'
<1> DEFINE before == [i \in DOMAIN pending |->
                        [pending[i] EXCEPT !.of = IF @ = {} THEN {stored} ELSE @]]
<1>1. /\ SettingsEvent /\ Len(pending) < MaxPending /\ foreign' = TRUE
      /\ stored' = DEFAULT_SETTINGS /\ pending' = Append(before, Waits("apply", <<>>))
      /\ UNCHANGED <<file, writing, limit, screen, sent, cut>>
  BY DEF resetAll
<1>2. pending \in Seq(CallData) /\ Len(pending) \in Nat /\ DOMAIN pending = 1 .. Len(pending)
  BY DEF SettingsInv, SettingsTypes
<1>3. ASSUME NEW call \in CallData
      PROVE  [call EXCEPT !.of = IF @ = {} THEN {stored} ELSE @] \in CallData
  BY DEF CallData, Snapshot, SettingsInv, SettingsTypes
<1>4. before \in [1 .. Len(pending) -> CallData]
  BY <1>2, <1>3
<1>5. before \in Seq(CallData) /\ Len(before) = Len(pending)
  BY <1>2, <1>4
<1> HIDE DEF before
<1>6. Waits("apply", <<>>) \in CallData /\ Waits("apply", <<>>).of = {}
  <2>1. <<>> \in Seq(Entry)
    OBVIOUS
  <2>2. QED
    BY <2>1, WaitsIs
<1>7. /\ pending' \in Seq(CallData) /\ pending' # <<>>
      /\ Len(pending') = Len(pending) + 1
      /\ pending'[Len(pending')] = Waits("apply", <<>>)
  BY <1>1, <1>2, <1>5, <1>6, AppendIs
<1>8. Len(pending') = 1 => writing' = {}
  <2>1. Len(pending') = 1 => pending = <<>>
    BY <1>2, <1>7, EmptySeq
  <2>2. QED
    BY <1>1, <2>1 DEF SettingsInv, Queued
<1>9. Queued'
  BY <1>6, <1>7, <1>8 DEF Queued
<1>10. Repaired'
  BY <1>1, DefaultIs DEF Repaired, Usable
<1>11. Applied'
  BY <1>7 DEF Applied
<1>12. SettingsTypes'
  <2>1. Len(sent) \in Nat
    BY DEF SettingsInv, SettingsTypes
  <2>2. QED
    BY <1>1, <1>2, <1>7, <2>1, DefaultIs, SettingsAssumption
       DEF SettingsInv, SettingsTypes, SettingsEvent
<1>13. QED
  BY <1>9, <1>10, <1>11, <1>12 DEF Kept

LEMMA SaveStartsKeeps ==
  ASSUME SettingsInv, SaveStarts
  PROVE  Kept'
<1>1. /\ pending # <<>> /\ writing = {}
      /\ writing' = IF Head(pending).of = {} THEN {stored} ELSE Head(pending).of
      /\ UNCHANGED <<stored, file, pending, limit, screen, sent, foreign, cut, settingsEvents>>
  BY DEF SaveStarts
<1>2. Head(pending) \in CallData /\ Head(pending) = pending[1]
  BY <1>1, TailIs DEF SettingsInv, SettingsTypes
<1>3. writing' \in Snapshot
  BY <1>1, <1>2 DEF CallData, Snapshot, SettingsInv, SettingsTypes
<1>4. SettingsTypes'
  BY <1>1, <1>3 DEF SettingsInv, SettingsTypes
<1>5. Queued'
  BY <1>1, <1>2 DEF SettingsInv, Queued
<1>6. Repaired' /\ Applied'
  BY <1>1 DEF SettingsInv, Repaired, Applied, Usable
<1>7. QED
  BY <1>4, <1>5, <1>6 DEF Kept

LEMMA SaveEndsKeeps ==
  ASSUME SettingsInv, SaveEnds
  PROVE  Kept'
<1> DEFINE call == Head(pending)
           calls == Tail(pending)
<1>1. /\ writing # {} /\ writing' = {} /\ file' \in writing
      /\ UNCHANGED <<screen, sent, foreign, settingsEvents>>
  BY DEF SaveEnds
<1>2. \/ persistAndApplyNetworkLimits(calls)
      \/ call.then = "import" /\ applyImported(calls, call.rest)
      \/ /\ call.then = "apply" /\ applyNetworkLimits(stored)
         /\ pending' = calls /\ cut' = FALSE /\ UNCHANGED stored
  BY DEF SaveEnds
<1>3. pending # <<>>
  BY <1>1 DEF SettingsInv, Queued
<1>4. /\ calls \in Seq(CallData) /\ call \in CallData /\ call = pending[1]
      /\ Len(calls) = Len(pending) - 1 /\ Len(pending) \in Nat /\ Len(pending) >= 1
      /\ \A i \in 1 .. Len(pending) - 1 : calls[i] = pending[i + 1]
  BY <1>3, TailIs DEF SettingsInv, SettingsTypes
<1> HIDE DEF call, calls
<1>5. file' \in SettingsData
  BY <1>1 DEF SettingsInv, SettingsTypes, Snapshot
<1>6. QueuedOn(calls)
  <2>1. calls = <<>> => Len(pending) = 1
    BY <1>4, EmptySeq
  <2>2. calls = <<>> => file' = stored /\ writing' = {}
    BY <1>1, <2>1 DEF SettingsInv, Queued
  <2>3. calls # <<>> => Len(calls) >= 1
    BY <1>4, EmptySeq
  <2>4. calls # <<>> => calls[Len(calls)].of = {}
    BY <1>3, <1>4, <2>3 DEF SettingsInv, Queued
  <2>5. QED
    BY <1>1, <2>2, <2>4 DEF QueuedOn
<1>7. /\ stored' \in SettingsData /\ limit' \in Speed /\ cut' \in BOOLEAN
      /\ pending' \in Seq(CallData) /\ Len(pending') <= Len(calls) + 1
      /\ Queued' /\ Repaired' /\ Applied'
  <2>1. CASE persistAndApplyNetworkLimits(calls)
    BY <1>4, <1>6, <2>1, PersistGoesOn, OnwardHolds DEF SettingsInv
  <2>2. CASE call.then = "import" /\ applyImported(calls, call.rest)
    <3>1. call.rest \in Seq(Entry)
      BY <1>4 DEF CallData
    <3>2. QED
      BY <1>4, <1>6, <2>2, <3>1, ImportGoesOn, OnwardHolds DEF SettingsInv
  <2>3. CASE /\ call.then = "apply" /\ applyNetworkLimits(stored)
             /\ pending' = calls /\ cut' = FALSE /\ UNCHANGED stored
    <3>1. stored' \in SettingsData /\ limit' = stored.speed /\ limit' \in Speed
      BY <2>3 DEF applyNetworkLimits, SettingsInv, SettingsTypes, SettingsData
    <3>2. Queued'
      BY <1>6, <2>3 DEF QueuedOn, Queued
    <3>3. Repaired'
      <4>1. \/ Usable(stored)
            \/ \E i \in 1 .. Len(pending) : pending[i].then # "apply"
        BY <1>3 DEF SettingsInv, Repaired
      <4>2. CASE Usable(stored)
        BY <2>3, <4>2 DEF Repaired, Usable
      <4>3. ASSUME NEW i \in 1 .. Len(pending), pending[i].then # "apply"
            PROVE  Repaired'
        <5>1. i # 1
          BY <1>4, <2>3, <4>3
        <5>2. i - 1 \in 1 .. Len(calls) /\ calls[i - 1] = pending[i]
          BY <1>4, <5>1
        <5>3. QED
          BY <2>3, <4>3, <5>2 DEF Repaired
      <4>4. QED
        BY <4>1, <4>2, <4>3
    <3>4. Applied'
      BY <2>3, <3>1 DEF Applied
    <3>5. cut' \in BOOLEAN
      BY <2>3
    <3>6. pending' \in Seq(CallData) /\ Len(pending') <= Len(calls) + 1
      BY <1>4, <2>3
    <3>7. QED
      BY <3>1, <3>2, <3>3, <3>4, <3>5, <3>6
  <2>4. QED
    BY <1>2, <2>1, <2>2, <2>3
<1>8. SettingsTypes'
  <2>1. {} \in Snapshot /\ Len(pending') \in Nat
    BY <1>7 DEF Snapshot
  <2>2. Len(pending') <= MaxPending
    BY <1>4, <1>7, <2>1, SettingsAssumption DEF SettingsInv, SettingsTypes
  <2>3. QED
    BY <1>1, <1>5, <1>7, <2>1, <2>2 DEF SettingsInv, SettingsTypes
<1>9. QED
  BY <1>7, <1>8 DEF Kept

LEMMA RestartsKeeps ==
  ASSUME SettingsInv, Restarts
  PROVE  Kept'
<1>1. /\ SettingsEvent /\ writing = {} /\ stored' = file /\ limit' = file.speed
      /\ pending' = <<>> /\ sent' = <<>> /\ foreign' = TRUE /\ cut' = ~Usable(file)
      /\ UNCHANGED <<file, writing, screen>>
  BY DEF Restarts, applyNetworkLimits
<1>2. /\ pending' \in Seq(CallData) /\ Len(pending') = 0
      /\ sent' \in Seq(SentData) /\ Len(sent') = 0
  BY <1>1, EmptySeq
<1>3. limit' \in Speed
  BY <1>1 DEF SettingsInv, SettingsTypes, SettingsData
<1>4. cut' \in BOOLEAN
  BY <1>1
<1>5. SettingsTypes'
  BY <1>1, <1>2, <1>3, <1>4, SettingsAssumption DEF SettingsInv, SettingsTypes, SettingsEvent
<1>6. Queued' /\ Applied'
  BY <1>1 DEF Queued, Applied
<1>7. Repaired'
  BY <1>1 DEF Repaired, Usable
<1>8. QED
  BY <1>5, <1>6, <1>7 DEF Kept

-----------------------------------------------------------------------------
(* The steps: what the client shows.                                       *)

\* The calls of the client are stored in their order.
LEMMA ExecutesShows ==
  ASSUME SettingsInv, Executes, ~foreign
  PROVE  Mine' /\ Fits(sent, screen)' /\ \A path \in Paths : Follows(sent, screen, path)'
<1> DEFINE path == Head(sent).path
           value == Head(sent).value
<1>1. /\ sent # <<>> /\ sent' = Tail(sent) /\ UNCHANGED screen
      /\ stored' = With(stored, path, value)
      /\ pending' = Append(pending, Waits("repair", <<>>))
  BY DEF Executes, set
<1>2. /\ Head(sent) \in SentData /\ Head(sent) = sent[1]
      /\ Len(sent') = Len(sent) - 1 /\ Len(sent) \in Nat /\ Len(sent) >= 1
      /\ \A i \in 1 .. Len(sent') : sent'[i] = sent[i + 1]
  BY <1>1, TailIs DEF SettingsInv, SettingsTypes
<1>0. ASSUME NEW i \in 1 .. Len(sent), i # 1
      PROVE  i - 1 \in 1 .. Len(sent') /\ sent'[i - 1] = sent[i]
  <2>1. i - 1 \in 1 .. Len(sent') /\ (i - 1) + 1 = i
    BY <1>0, <1>2
  <2>2. QED
    BY <1>2, <2>1
<1>3. path \in Paths /\ value \in Values(path) /\ sent[1].path = path /\ sent[1].value = value
  BY <1>2 DEF SentData
<1> HIDE DEF path, value
<1>4. stored'[path] = value /\ \A p \in Paths : p # path => stored'[p] = stored[p]
  BY <1>1, <1>3, WithIs DEF SettingsInv, SettingsTypes
<1>5. Mine'
  <2>1. /\ Len(pending') = Len(pending) + 1 /\ Len(pending) \in Nat
        /\ \A i \in 1 .. Len(pending) : pending'[i] = pending[i]
        /\ pending'[Len(pending) + 1].then = "repair"
    <3>1. <<>> \in Seq(Entry)
      OBVIOUS
    <3>2. /\ Waits("repair", <<>>) \in CallData /\ Waits("repair", <<>>).then = "repair"
      BY <3>1, WaitsIs
    <3>3. pending \in Seq(CallData) /\ Len(pending) \in Nat
      BY DEF SettingsInv, SettingsTypes
    <3>4. QED
      BY <1>1, <3>2, <3>3, AppendIs
  <2>2. QED
    BY <2>1 DEF SettingsInv, Shown, Mine
<1>6. ASSUME NEW p \in Paths, Follows(sent, screen, p)
      PROVE  Follows(sent, screen, p)'
  <2>1. ASSUME \A i \in 1 .. Len(sent') : sent'[i].path # p
        PROVE  stored'[p] = screen'[p]
    <3>1. CASE p = path
      <4>1. Last(sent, p, 1)
        BY <1>0, <1>2, <1>3, <2>1, <3>1 DEF Last
      <4>2. QED
        BY <1>1, <1>2, <1>3, <1>4, <1>6, <3>1, <4>1 DEF Follows
    <3>2. CASE p # path
      <4>1. \A i \in 1 .. Len(sent) : sent[i].path # p
        BY <1>0, <1>3, <2>1, <3>2
      <4>2. QED
        BY <1>1, <1>4, <1>6, <3>2, <4>1 DEF Follows
    <3>3. QED
      BY <3>1, <3>2
  <2>2. ASSUME NEW i \in 1 .. Len(sent'), Last(sent, p, i)'
        PROVE  sent'[i].value = screen'[p]
    <3>1. Last(sent, p, i + 1)
      <4>1. sent[i + 1].path = p
        BY <1>2, <2>2 DEF Last
      <4>2. ASSUME NEW k \in 1 .. Len(sent), k > i + 1
            PROVE  sent[k].path # p
        <5>1. k - 1 \in 1 .. Len(sent') /\ sent'[k - 1] = sent[k] /\ k - 1 > i
          BY <1>0, <4>2
        <5>2. QED
          BY <2>2, <5>1 DEF Last
      <4>3. QED
        BY <4>1, <4>2 DEF Last
    <3>2. i + 1 \in 1 .. Len(sent) /\ sent'[i] = sent[i + 1]
      BY <1>2
    <3>3. QED
      BY <1>1, <1>6, <3>1, <3>2 DEF Follows
  <2>3. QED
    BY <2>1, <2>2 DEF Follows
<1>7. ASSUME NEW j \in 0 .. Len(sent'), Outdone(sent, j + 1)
      PROVE  Outdone(sent, j)'
  <2>1. PICK k, n \in 1 .. Len(sent) :
          j + 1 < k /\ k < n /\ sent[k].path = "chunk" /\ sent[n].path = "message"
    BY <1>7 DEF Outdone
  <2>2. k - 1 \in 1 .. Len(sent') /\ n - 1 \in 1 .. Len(sent') /\ j < k - 1 /\ k - 1 < n - 1
    BY <1>2, <2>1
  <2>3. sent'[k - 1] = sent[k] /\ sent'[n - 1] = sent[n]
    BY <1>2, <2>2
  <2>4. QED
    BY <2>1, <2>2, <2>3 DEF Outdone
<1>8. Fits(sent, screen)'
  <2>1. Fits(sent, screen)
    BY DEF SettingsInv, Shown
  <2>2. ASSUME NEW j \in 1 .. Len(sent'), sent'[j].path = "chunk", ~Outdone(sent, j)'
        PROVE  sent'[j].value + 1 <= screen'.message
    <3>1. j + 1 \in 1 .. Len(sent) /\ sent'[j] = sent[j + 1] /\ j \in 0 .. Len(sent')
      BY <1>2
    <3>2. QED
      BY <1>1, <1>7, <2>1, <2>2, <3>1 DEF Fits
  <2>3. ASSUME ~Outdone(sent, 0)'
        PROVE  stored'.chunk + 1 <= screen'.message
    <3>1. 0 \in 0 .. Len(sent') /\ 1 \in 1 .. Len(sent)
      BY <1>2
    <3>2. ~Outdone(sent, 1)
      BY <1>7, <2>3, <3>1
    <3>3. CASE path = "chunk"
      BY <1>1, <1>3, <1>4, <2>1, <3>1, <3>2, <3>3 DEF Fits
    <3>4. CASE path # "chunk"
      <4>1. stored'.chunk = stored.chunk
        BY <1>4, <3>4 DEF Paths
      <4>2. ~Outdone(sent, 0)
        BY <1>3, <3>2, <3>4 DEF Outdone
      <4>3. QED
        BY <1>1, <2>1, <4>1, <4>2 DEF Fits
    <3>5. QED
      BY <3>3, <3>4
  <2>4. QED
    BY <2>2, <2>3 DEF Fits
<1>9. QED
  BY <1>5, <1>6, <1>8 DEF Paths, SettingsInv, Shown

\* A repair changes the message size only, and only while the client has
\* another on the way.
LEMMA SaveEndsShows ==
  ASSUME SettingsInv, SaveEnds, ~foreign
  PROVE  Mine' /\ Fits(sent, screen)' /\ \A path \in Paths : Follows(sent, screen, path)'
<1> DEFINE call == Head(pending)
           calls == Tail(pending)
<1>1. pending # <<>> /\ UNCHANGED <<screen, sent>>
  BY DEF SaveEnds, SettingsInv, Queued
<1>2. /\ calls \in Seq(CallData) /\ call = pending[1]
      /\ Len(calls) = Len(pending) - 1 /\ Len(pending) \in Nat /\ Len(pending) >= 1
      /\ \A i \in 1 .. Len(pending) - 1 : calls[i] = pending[i + 1]
  BY <1>1, TailIs DEF SettingsInv, SettingsTypes
<1>3. \/ persistAndApplyNetworkLimits(calls)
      \/ call.then = "import"
      \/ pending' = calls /\ UNCHANGED stored
  BY DEF SaveEnds
<1> HIDE DEF call, calls
<1>4. call.then # "import" /\ \A i \in 1 .. Len(calls) : calls[i].then # "import"
  BY <1>2 DEF SettingsInv, Shown, Mine
<1>5. \/ pending' = calls /\ stored' = stored
      \/ /\ ~Usable(stored)
         /\ stored'.chunk = stored.chunk /\ stored'.speed = stored.speed
         /\ pending' = Append(calls, Waits("apply", <<>>))
  BY <1>2, <1>3, <1>4, PersistGoesOn DEF SettingsInv
<1>6. CASE pending' = calls /\ stored' = stored
  BY <1>1, <1>4, <1>6 DEF SettingsInv, Shown, Mine, Fits, Outdone, Follows, Last
<1>0. Follows(sent, screen, "chunk") /\ Follows(sent, screen, "message") /\ Follows(sent, screen, "speed")
  BY DEF SettingsInv, Shown, Paths
<1>7. CASE /\ ~Usable(stored)
           /\ stored'.chunk = stored.chunk /\ stored'.speed = stored.speed
           /\ pending' = Append(calls, Waits("apply", <<>>))
  <2>1. Mine'
    <3>1. <<>> \in Seq(Entry)
      OBVIOUS
    <3>2. Waits("apply", <<>>) \in CallData /\ Waits("apply", <<>>).then = "apply"
      BY <3>1, WaitsIs
    <3>3. /\ Len(pending') = Len(calls) + 1 /\ Len(calls) \in Nat
          /\ \A i \in 1 .. Len(calls) : pending'[i] = calls[i]
          /\ pending'[Len(calls) + 1].then = "apply"
      BY <1>2, <1>7, <3>2, AppendIs
    <3>4. QED
      BY <1>4, <3>3 DEF Mine
  <2>2. Fits(sent, screen)'
    BY <1>1, <1>7 DEF SettingsInv, Shown, Fits, Outdone
  <2>3. Follows(sent, screen, "chunk")' /\ Follows(sent, screen, "speed")'
    BY <1>0, <1>1, <1>7 DEF Follows, Last
  <2>4. ~(\A i \in 1 .. Len(sent) : sent[i].path # "message")
    <3>1. SUFFICES ASSUME \A i \in 1 .. Len(sent) : sent[i].path # "message"
                   PROVE  Usable(stored)
      BY <1>7
    <3>2. stored.message = screen.message
      BY <1>0, <3>1 DEF Follows
    <3>3. ~Outdone(sent, 0)
      BY <3>1 DEF Outdone
    <3>4. stored.chunk + 1 <= screen.message
      BY <3>3 DEF SettingsInv, Shown, Fits
    <3>5. QED
      BY <3>2, <3>4, ValuesAre
         DEF Usable, minMessageSizeFor, MESSAGE_SIZE_HEADROOM, SettingsInv, SettingsTypes, SettingsData
  <2>5. Follows(sent, screen, "message")'
    BY <1>0, <1>1, <2>4 DEF Follows, Last
  <2>6. QED
    BY <2>1, <2>2, <2>3, <2>5 DEF Paths
<1>8. QED
  BY <1>5, <1>6, <1>7

\* A call that the client adds to the list is the last for its path.
LEMMA SendFollows ==
  ASSUME NEW list \in Seq(SentData), NEW shown \in SettingsData, NEW shown2 \in SettingsData,
         NEW path \in Paths, NEW value \in Values(path),
         shown2[path] = value,
         \A p \in Paths : p # path => shown2[p] = shown[p],
         \A p \in Paths : Follows(list, shown, p),
         NEW p \in Paths
  PROVE  Follows(Append(list, Sent(path, value)), shown2, p)
<1> DEFINE longer == Append(list, Sent(path, value))
<1>1. /\ Len(longer) = Len(list) + 1 /\ Len(list) \in Nat
      /\ \A i \in 1 .. Len(list) : longer[i] = list[i]
      /\ longer[Len(list) + 1].path = path /\ longer[Len(list) + 1].value = value
  BY SentIs, AppendIs
<1> HIDE DEF longer
<1>2. CASE p = path
  <2>1. Len(list) + 1 \in 1 .. Len(longer) /\ longer[Len(list) + 1].path = p
    BY <1>1, <1>2
  <2>2. ASSUME NEW i \in 1 .. Len(longer), Last(longer, p, i)
        PROVE  longer[i].value = shown2[p]
    <3>1. i = Len(list) + 1
      BY <1>1, <2>1, <2>2 DEF Last
    <3>2. QED
      BY <1>1, <1>2, <3>1
  <2>3. QED
    BY <2>1, <2>2 DEF Follows, longer
<1>3. CASE p # path
  <2>1. \A i \in 1 .. Len(longer) : i = Len(list) + 1 \/ i \in 1 .. Len(list)
    BY <1>1
  <2>2. \A i \in 1 .. Len(list) : i \in 1 .. Len(longer) /\ i # Len(list) + 1
    BY <1>1
  <2>3. Follows(list, shown, p) /\ shown2[p] = shown[p]
    BY <1>3
  <2>4. (\A i \in 1 .. Len(longer) : longer[i].path # p) => stored[p] = shown2[p]
    BY <1>1, <2>2, <2>3 DEF Follows
  <2>5. ASSUME NEW i \in 1 .. Len(longer), Last(longer, p, i)
        PROVE  longer[i].value = shown2[p]
    <3>1. i \in 1 .. Len(list) /\ longer[i] = list[i]
      BY <1>1, <1>3, <2>1, <2>5 DEF Last
    <3>2. Last(list, p, i)
      BY <1>1, <2>2, <2>5, <3>1 DEF Last
    <3>3. QED
      BY <2>3, <3>1, <3>2 DEF Follows
  <2>6. QED
    BY <2>4, <2>5 DEF Follows, longer
<1>4. QED
  BY <1>2, <1>3

\* A chunk size that fits, or a speed, leaves every chunk size fitting.
LEMMA SendFits ==
  ASSUME NEW list \in Seq(SentData), NEW shown \in SettingsData, NEW shown2 \in SettingsData,
         NEW path \in {"chunk", "speed"}, NEW value \in Values(path),
         Fits(list, shown), shown2.message = shown.message,
         path = "chunk" => value + 1 <= shown.message
  PROVE  Fits(Append(list, Sent(path, value)), shown2)
<1> DEFINE longer == Append(list, Sent(path, value))
<1>1. /\ Len(longer) = Len(list) + 1 /\ Len(list) \in Nat
      /\ \A i \in 1 .. Len(list) : longer[i] = list[i]
      /\ longer[Len(list) + 1].path = path /\ longer[Len(list) + 1].value = value
  BY SentIs, AppendIs DEF Paths
<1> HIDE DEF longer
<1>2. \A i \in 1 .. Len(list) : i \in 1 .. Len(longer)
  BY <1>1
<1>3. ASSUME NEW j, Outdone(list, j)
      PROVE  Outdone(longer, j)
  BY <1>1, <1>2, <1>3 DEF Outdone
<1>4. ASSUME NEW j \in 1 .. Len(longer), longer[j].path = "chunk", ~Outdone(longer, j)
      PROVE  longer[j].value + 1 <= shown2.message
  <2>1. CASE j \in 1 .. Len(list)
    BY <1>1, <1>3, <1>4, <2>1 DEF Fits
  <2>2. CASE j = Len(list) + 1
    BY <1>1, <1>4, <2>2
  <2>3. QED
    BY <1>1, <2>1, <2>2
<1>5. ~Outdone(longer, 0) => stored.chunk + 1 <= shown2.message
  BY <1>3 DEF Fits
<1>6. QED
  BY <1>4, <1>5 DEF Fits, longer

\* A message size outdoes every chunk size but the last, which is the one shown.
LEMMA SendMessageFits ==
  ASSUME NEW list \in Seq(SentData), NEW shown \in SettingsData, NEW shown2 \in SettingsData,
         NEW value \in Values("message"),
         Follows(list, shown, "chunk"), shown2.message = value, shown.chunk + 1 <= value
  PROVE  Fits(Append(list, Sent("message", value)), shown2)
<1> DEFINE longer == Append(list, Sent("message", value))
<1>1. /\ Len(longer) = Len(list) + 1 /\ Len(list) \in Nat
      /\ \A i \in 1 .. Len(list) : longer[i] = list[i]
      /\ longer[Len(list) + 1].path = "message"
  BY SentIs, AppendIs DEF Paths
<1> HIDE DEF longer
<1>2. \A i \in 1 .. Len(longer) : longer[i].path = "chunk" => i \in 1 .. Len(list)
  BY <1>1
<1>3. ASSUME NEW j \in 0 .. Len(list), ~Outdone(longer, j), NEW k \in 1 .. Len(list), j < k
      PROVE  list[k].path # "chunk"
  <2>1. k \in 1 .. Len(longer) /\ Len(list) + 1 \in 1 .. Len(longer) /\ k < Len(list) + 1
    BY <1>1
  <2>2. QED
    BY <1>1, <1>3, <2>1 DEF Outdone
<1>4. ASSUME NEW j \in 1 .. Len(longer), longer[j].path = "chunk", ~Outdone(longer, j)
      PROVE  longer[j].value + 1 <= shown2.message
  <2>1. j \in 1 .. Len(list) /\ j \in 0 .. Len(list) /\ longer[j] = list[j]
    BY <1>1, <1>2, <1>4
  <2>2. Last(list, "chunk", j)
    BY <1>3, <1>4, <2>1 DEF Last
  <2>3. list[j].value = shown.chunk
    BY <2>1, <2>2 DEF Follows
  <2>4. QED
    BY <2>1, <2>3
<1>5. ASSUME ~Outdone(longer, 0)
      PROVE  stored.chunk + 1 <= shown2.message
  <2>1. 0 \in 0 .. Len(list) /\ \A k \in 1 .. Len(list) : 0 < k
    BY <1>1
  <2>2. \A k \in 1 .. Len(list) : list[k].path # "chunk"
    BY <1>3, <1>5, <2>1
  <2>3. stored.chunk = shown.chunk
    BY <2>2 DEF Follows
  <2>4. QED
    BY <2>3
<1>6. QED
  BY <1>4, <1>5 DEF Fits, longer

\* A call of the client leaves the backend as it is.
LEMMA ClientKeeps ==
  ASSUME SettingsInv, SettingsEvent,
         screen' \in SettingsData, sent' \in Seq(SentData), Len(sent') <= Len(sent) + 2,
         foreign' \in BOOLEAN,
         UNCHANGED <<stored, file, writing, pending, limit, cut>>
  PROVE  Kept'
<1>1. Len(sent) \in Nat /\ Len(sent') \in Nat
  BY DEF SettingsInv, SettingsTypes
<1>2. SettingsTypes'
  BY <1>1, SettingsAssumption DEF SettingsInv, SettingsTypes, SettingsEvent
<1>3. Queued' /\ Repaired' /\ Applied'
  BY DEF SettingsInv, Queued, Repaired, Applied, Usable
<1>4. QED
  BY <1>2, <1>3 DEF Kept

LEMMA SetsSpeedHolds ==
  ASSUME SettingsInv, setMaxSpeed
  PROVE  SettingsInv'
<1>1. /\ SettingsEvent
      /\ UNCHANGED <<stored, file, writing, pending, limit, foreign, cut>>
  BY DEF setMaxSpeed
<1>2. PICK value \in Speed : /\ screen' = [screen EXCEPT !.speed = value]
                             /\ sent' = Append(sent, Sent("speed", value))
  BY DEF setMaxSpeed
<1>3. "speed" \in Paths /\ value \in Values("speed")
  BY DEF Paths, Values
<1>4. screen \in SettingsData /\ sent \in Seq(SentData) /\ Len(sent) \in Nat /\ foreign \in BOOLEAN
  BY DEF SettingsInv, SettingsTypes
<1>5. screen' = With(screen, "speed", value)
  BY <1>2 DEF With
<1>6. /\ screen' \in SettingsData /\ screen'["speed"] = value
      /\ \A p \in Paths : p # "speed" => screen'[p] = screen[p]
  BY <1>3, <1>4, <1>5, WithIs
<1>7. sent' \in Seq(SentData) /\ Len(sent') = Len(sent) + 1
  BY <1>2, <1>3, <1>4, SentIs, AppendIs
<1>8. Kept'
  BY <1>1, <1>4, <1>6, <1>7, ClientKeeps
<1>9. Shown'
  <2>1. SUFFICES ASSUME ~foreign
                 PROVE  Mine' /\ Fits(sent, screen)' /\ \A p \in Paths : Follows(sent, screen, p)'
    BY <1>1 DEF Shown
  <2>2. Mine /\ Fits(sent, screen) /\ \A p \in Paths : Follows(sent, screen, p)
    BY <2>1 DEF SettingsInv, Shown
  <2>3. Mine'
    BY <1>1, <2>2 DEF Mine
  <2>4. screen'.message = screen.message
    BY <1>6 DEF Paths
  <2>5. Fits(sent', screen')
    BY <1>2, <1>3, <1>4, <1>6, <2>2, <2>4, SendFits
  <2>6. \A p \in Paths : Follows(sent', screen', p)
    BY <1>2, <1>3, <1>4, <1>6, <2>2, SendFollows
  <2>7. QED
    BY <1>1, <2>3, <2>5, <2>6 DEF Fits, Follows, Last, Outdone
<1>10. QED
  BY <1>8, <1>9 DEF Kept, SettingsInv

LEMMA SetsChunkHolds ==
  ASSUME SettingsInv, setMaxChunkSize
  PROVE  SettingsInv'
<1>1. /\ SettingsEvent
      /\ UNCHANGED <<stored, file, writing, pending, limit, foreign, cut>>
  BY DEF setMaxChunkSize
<1>2. PICK chunk \in Values("chunk") :
        IF screen.message < chunk + 1
        THEN /\ screen' = [screen EXCEPT !.chunk = chunk, !.message = chunk + 1]
             /\ sent' = Append(Append(sent, Sent("chunk", chunk)), Sent("message", chunk + 1))
        ELSE /\ screen' = [screen EXCEPT !.chunk = chunk]
             /\ sent' = Append(sent, Sent("chunk", chunk))
  BY DEF setMaxChunkSize, minMessageSizeFor, MESSAGE_SIZE_HEADROOM
<1> DEFINE middle == With(screen, "chunk", chunk)
           list == Append(sent, Sent("chunk", chunk))
<1>3. "chunk" \in Paths /\ "message" \in Paths /\ chunk + 1 \in Values("message")
  BY ValuesAre, SettingsAssumption DEF Paths
<1>4. screen \in SettingsData /\ sent \in Seq(SentData) /\ Len(sent) \in Nat /\ foreign \in BOOLEAN
  BY DEF SettingsInv, SettingsTypes
<1>5. /\ middle \in SettingsData /\ middle["chunk"] = chunk
      /\ \A p \in Paths : p # "chunk" => middle[p] = screen[p]
  BY <1>3, <1>4, WithIs
<1>6. list \in Seq(SentData) /\ Len(list) = Len(sent) + 1
  BY <1>3, <1>4, SentIs, AppendIs
<1>7. chunk \in Int /\ screen.message \in Int /\ middle.message = screen.message
  BY <1>3, <1>4, <1>5, ValuesAre DEF SettingsData
<1>8. ASSUME ~foreign
      PROVE  \A p \in Paths : Follows(list, middle, p)
  <2>1. \A p \in Paths : Follows(sent, screen, p)
    BY <1>8 DEF SettingsInv, Shown
  <2>2. QED
    BY <1>3, <1>4, <1>5, <2>1, SendFollows
<1>9. ASSUME ~foreign, ~(screen.message < chunk + 1)
      PROVE  Fits(list, middle)
  <2>1. Fits(sent, screen) /\ chunk + 1 <= screen.message
    BY <1>7, <1>9 DEF SettingsInv, Shown
  <2>2. QED
    BY <1>2, <1>4, <1>5, <1>7, <2>1, SendFits
<1>10. Mine => Mine'
  BY <1>1 DEF Mine
<1>11. CASE screen.message < chunk + 1
  <2>1. screen' = With(middle, "message", chunk + 1)
    BY <1>2, <1>11 DEF With
  <2>2. sent' = Append(list, Sent("message", chunk + 1))
    BY <1>2, <1>11
  <2> HIDE DEF middle, list
  <2>3. /\ screen' \in SettingsData /\ screen'["message"] = chunk + 1
        /\ \A p \in Paths : p # "message" => screen'[p] = middle[p]
    BY <1>3, <1>5, <2>1, WithIs
  <2>4. sent' \in Seq(SentData) /\ Len(sent') = Len(list) + 1
    BY <1>3, <1>6, <2>2, SentIs, AppendIs
  <2>5. Kept'
    BY <1>1, <1>4, <1>6, <2>3, <2>4, ClientKeeps
  <2>6. ASSUME ~foreign
        PROVE  Mine /\ Fits(sent', screen') /\ \A p \in Paths : Follows(sent', screen', p)
    <3>1. \A p \in Paths : Follows(sent', screen', p)
      BY <1>3, <1>5, <1>6, <1>8, <2>2, <2>3, <2>6, SendFollows
    <3>2. Follows(list, middle, "chunk") /\ middle.chunk + 1 <= chunk + 1
      BY <1>3, <1>5, <1>7, <1>8, <2>6
    <3>3. Fits(sent', screen')
      BY <1>3, <1>5, <1>6, <2>2, <2>3, <3>2, SendMessageFits
    <3>4. QED
      BY <2>6, <3>1, <3>3 DEF SettingsInv, Shown
  <2>7. Shown'
    BY <1>1, <1>10, <2>6 DEF Shown, Fits, Follows, Last, Outdone
  <2>8. QED
    BY <2>5, <2>7 DEF Kept, SettingsInv
<1>12. CASE ~(screen.message < chunk + 1)
  <2>1. screen' = middle /\ sent' = list
    BY <1>2, <1>12 DEF With
  <2> HIDE DEF middle, list
  <2>2. Kept'
    BY <1>1, <1>4, <1>5, <1>6, <2>1, ClientKeeps
  <2>3. Shown'
    <3>1. SUFFICES ASSUME ~foreign
                   PROVE  Mine' /\ Fits(sent, screen)' /\ \A p \in Paths : Follows(sent, screen, p)'
      BY <1>1 DEF Shown
    <3>2. Mine'
      BY <1>10, <3>1 DEF SettingsInv, Shown
    <3>3. Fits(list, middle) /\ \A p \in Paths : Follows(list, middle, p)
      BY <1>8, <1>9, <1>12, <3>1
    <3>4. QED
      BY <1>1, <2>1, <3>2, <3>3 DEF Fits, Follows, Last, Outdone
  <2>4. QED
    BY <2>2, <2>3 DEF Kept, SettingsInv
<1>13. QED
  BY <1>11, <1>12

LEMMA SetsMessageHolds ==
  ASSUME SettingsInv, setMaxMessageSize
  PROVE  SettingsInv'
<1>1. /\ SettingsEvent
      /\ UNCHANGED <<stored, file, writing, pending, limit, foreign, cut>>
  BY DEF setMaxMessageSize
<1>2. PICK asked \in Values("message") :
        LET clamped == Max({asked, screen.chunk + 1})
        IN /\ screen' = [screen EXCEPT !.message = clamped]
           /\ sent' = Append(sent, Sent("message", clamped))
  BY DEF setMaxMessageSize, minMessageSizeFor, MESSAGE_SIZE_HEADROOM
<1> DEFINE value == Max({asked, screen.chunk + 1})
<1>3. screen \in SettingsData /\ sent \in Seq(SentData) /\ Len(sent) \in Nat /\ foreign \in BOOLEAN
  BY DEF SettingsInv, SettingsTypes
<1>4. "message" \in Paths /\ value \in Values("message") /\ screen.chunk + 1 <= value
  <2>1. asked \in 1 .. MaxSize + 1 /\ screen.chunk \in 1 .. MaxSize
    BY <1>3, ValuesAre DEF SettingsData
  <2>2. value = IF asked >= screen.chunk + 1 THEN asked ELSE screen.chunk + 1
    BY <2>1, SettingsAssumption, MaxIs
  <2>3. QED
    BY <2>1, <2>2, ValuesAre, SettingsAssumption DEF Paths
<1>5. screen' = With(screen, "message", value) /\ sent' = Append(sent, Sent("message", value))
  BY <1>2 DEF With
<1> HIDE DEF value
<1>6. /\ screen' \in SettingsData /\ screen'["message"] = value
      /\ \A p \in Paths : p # "message" => screen'[p] = screen[p]
  BY <1>3, <1>4, <1>5, WithIs
<1>7. sent' \in Seq(SentData) /\ Len(sent') = Len(sent) + 1
  BY <1>3, <1>4, <1>5, SentIs, AppendIs
<1>8. Kept'
  BY <1>1, <1>3, <1>6, <1>7, ClientKeeps
<1>9. ASSUME ~foreign
      PROVE  Mine' /\ Fits(sent', screen') /\ \A p \in Paths : Follows(sent', screen', p)
  <2>1. Mine /\ \A p \in Paths : Follows(sent, screen, p)
    BY <1>9 DEF SettingsInv, Shown
  <2>2. Mine'
    BY <1>1, <2>1 DEF Mine
  <2>3. \A p \in Paths : Follows(sent', screen', p)
    BY <1>3, <1>4, <1>5, <1>6, <2>1, SendFollows
  <2>4. Follows(sent, screen, "chunk")
    BY <2>1 DEF Paths
  <2>5. Fits(sent', screen')
    BY <1>3, <1>4, <1>5, <1>6, <2>4, SendMessageFits
  <2>6. QED
    BY <2>2, <2>3, <2>5
<1>10. Shown'
  BY <1>1, <1>9 DEF Shown, Fits, Follows, Last, Outdone
<1>11. QED
  BY <1>8, <1>10 DEF Kept, SettingsInv

LEMMA LosesCallsHolds ==
  ASSUME SettingsInv, LosesCalls
  PROVE  SettingsInv'
<1>1. /\ SettingsEvent /\ sent' = <<>> /\ foreign' = TRUE
      /\ UNCHANGED <<stored, file, writing, pending, limit, screen, cut>>
  BY DEF LosesCalls
<1>2. screen' \in SettingsData /\ sent' \in Seq(SentData) /\ Len(sent') <= Len(sent) + 2
  BY <1>1, EmptySeq DEF SettingsInv, SettingsTypes
<1>3. Kept'
  BY <1>1, <1>2, ClientKeeps
<1>4. Shown'
  BY <1>1 DEF Shown
<1>5. QED
  BY <1>3, <1>4 DEF Kept, SettingsInv

\* What is loaded while nothing is under way and nothing is to be repaired is
\* what stays.
LEMMA LoadsHolds ==
  ASSUME SettingsInv, loads
  PROVE  SettingsInv'
<1>1. /\ sent = <<>> /\ screen' = stored
      /\ foreign' = (pending # <<>> \/ ~Usable(stored))
      /\ UNCHANGED <<stored, file, writing, pending, limit, sent, cut, settingsEvents>>
  BY DEF loads
<1>2. foreign' \in BOOLEAN
  BY <1>1
<1>3. SettingsTypes'
  BY <1>1, <1>2 DEF SettingsInv, SettingsTypes
<1>4. Queued' /\ Repaired' /\ Applied'
  BY <1>1 DEF SettingsInv, Queued, Repaired, Applied, Usable
<1>5. Shown'
  <2>1. SUFFICES ASSUME pending = <<>>, Usable(stored)
                 PROVE  Mine' /\ Fits(sent, screen)' /\ \A p \in Paths : Follows(sent, screen, p)'
    BY <1>1 DEF Shown
  <2>2. Mine'
    BY <1>1, <2>1 DEF Mine
  <2>3. stored.chunk + 1 <= stored.message
    BY <2>1, ValuesAre
       DEF Usable, minMessageSizeFor, MESSAGE_SIZE_HEADROOM, SettingsInv, SettingsTypes, SettingsData
  <2>4. Fits(sent, screen)'
    BY <1>1, <2>3 DEF Fits
  <2>5. \A p \in Paths : Follows(sent, screen, p)'
    BY <1>1 DEF Follows
  <2>6. QED
    BY <2>2, <2>4, <2>5
<1>6. QED
  BY <1>3, <1>4, <1>5 DEF SettingsInv

-----------------------------------------------------------------------------
(* The specification.                                                      *)

LEMMA SettingsNextHolds == SettingsInv /\ [SettingsNext]_settingsVars => SettingsInv'
<1> SUFFICES ASSUME SettingsInv, [SettingsNext]_settingsVars PROVE SettingsInv'
  OBVIOUS
<1>1. ASSUME Executes PROVE SettingsInv'
  <2>1. UNCHANGED foreign
    BY <1>1 DEF Executes
  <2>2. Shown'
    BY <1>1, <2>1, ExecutesShows DEF Shown
  <2>3. QED
    BY <1>1, <2>2, ExecutesKeeps DEF Kept, SettingsInv
<1>2. ASSUME SetsElsewhere \/ Imports \/ resetAll \/ Restarts PROVE SettingsInv'
  <2>1. Kept'
    BY <1>2, SetsElsewhereKeeps, ImportsKeeps, ResetKeeps, RestartsKeeps
  <2>2. foreign' = TRUE
    BY <1>2 DEF SetsElsewhere, Imports, resetAll, Restarts
  <2>3. QED
    BY <2>1, <2>2 DEF Kept, SettingsInv, Shown
<1>3. ASSUME SaveStarts PROVE SettingsInv'
  <2>1. UNCHANGED <<stored, pending, sent, screen, foreign>>
    BY <1>3 DEF SaveStarts
  <2>2. Shown'
    BY <2>1 DEF SettingsInv, Shown, Mine, Fits, Outdone, Follows, Last
  <2>3. QED
    BY <1>3, <2>2, SaveStartsKeeps DEF Kept, SettingsInv
<1>4. ASSUME SaveEnds PROVE SettingsInv'
  <2>1. UNCHANGED foreign
    BY <1>4 DEF SaveEnds
  <2>2. Shown'
    BY <1>4, <2>1, SaveEndsShows DEF Shown
  <2>3. QED
    BY <1>4, <2>2, SaveEndsKeeps DEF Kept, SettingsInv
<1>5. ASSUME UNCHANGED settingsVars PROVE SettingsInv'
  <2>1. SettingsTypes' /\ Queued' /\ Repaired' /\ Applied'
    BY <1>5 DEF settingsVars, SettingsInv, SettingsTypes, Queued, Repaired, Applied, Usable
  <2>2. Shown'
    BY <1>5 DEF settingsVars, SettingsInv, Shown, Mine, Fits, Outdone, Follows, Last
  <2>3. QED
    BY <2>1, <2>2 DEF SettingsInv
<1>6. QED
  BY <1>1, <1>2, <1>3, <1>4, <1>5, SetsSpeedHolds, SetsChunkHolds, SetsMessageHolds,
     LosesCallsHolds, LoadsHolds DEF SettingsNext

LEMMA SettingsInvShows ==
  SettingsInv => SettingsTypeOK /\ FileIsStored /\ PairIsUsable /\ SpeedIsApplied /\ ScreenIsStored
<1> SUFFICES ASSUME SettingsInv
             PROVE  /\ SettingsTypeOK /\ FileIsStored /\ PairIsUsable
                    /\ SpeedIsApplied /\ ScreenIsStored
  OBVIOUS
<1>1. SettingsTypeOK
  <2>1. Len(sent) \in Nat
    BY DEF SettingsInv, SettingsTypes
  <2>2. Len(sent) <= 2 * MaxSettingsEvents
    BY <2>1, SettingsAssumption DEF SettingsInv, SettingsTypes
  <2>3. QED
    BY <2>2 DEF SettingsInv, SettingsTypes, SettingsTypeOK
<1>2. FileIsStored /\ SpeedIsApplied
  BY DEF SettingsInv, Queued, Applied, FileIsStored, SpeedIsApplied, Through
<1>3. PairIsUsable
  BY DEF SettingsInv, Repaired, PairIsUsable, Through
<1>4. ScreenIsStored
  <2>1. SUFFICES ASSUME sent = <<>>, ~foreign PROVE screen = stored
    BY DEF ScreenIsStored
  <2>2. \A p \in Paths : stored[p] = screen[p]
    BY <2>1 DEF SettingsInv, Shown, Follows
  <2>3. stored.chunk = screen.chunk /\ stored.message = screen.message /\ stored.speed = screen.speed
    BY <2>2 DEF Paths
  <2>4. QED
    BY <2>3 DEF SettingsInv, SettingsTypes, SettingsData
<1>5. QED
  BY <1>1, <1>2, <1>3, <1>4

\* When no call waits for its save, memory and file agree, a chunk fits into a
\* message unless a restart has cut off the repair, the protocol layer keeps to
\* the speed that is set, and a client that has loaded what others wrote and
\* has nothing on the way shows what is stored.
THEOREM SettingsCorrect ==
  SettingsSpec =>
    [](SettingsTypeOK /\ FileIsStored /\ PairIsUsable /\ SpeedIsApplied /\ ScreenIsStored)
<1>1. SettingsInit => SettingsInv
  BY SettingsInitHolds
<1>2. SettingsInv /\ [SettingsNext]_settingsVars => SettingsInv'
  BY SettingsNextHolds
<1>3. QED
  BY <1>1, <1>2, SettingsInvShows, PTL DEF SettingsSpec

-----------------------------------------------------------------------------
(***************************************************************************)
(* The volume: the value that is written last is the newest one, and a     *)
(* client at rest shows the mixer.                                         *)
(*                                                                         *)
(* What a client at rest shows follows from what is still to come while it *)
(* is not: the last event on the way is what the watcher remembers         *)
(* (LastIsTold); a client that does not know the mixer has a reading on    *)
(* the way, and one that knows it has none that counts (ReadingComes); and *)
(* with no event to come it shows what the watcher remembers unless it has *)
(* a level of its own to send (LastIsShown).  The reading of the start is  *)
(* adopted behind everybody's back, so until then nobody was told anything *)
(* (Untouched).                                                            *)
(***************************************************************************)

\* What a reading of the mixer finds, and what it is answered with.
Standing == {status \in VolumeStatus : status.available <=> status.level # NoLevel}
Answer == {status \in VolumeStatus : status.available => status.level # NoLevel}
Message ==
  [what : {"settings"}, level : Level] \cup [what : {"event", "answer"}, status : VolumeStatus]
    \cup [what : {"reading"}, known : BOOLEAN, stale : BOOLEAN, status : Answer]
LevelCall == [by : Asker, level : Level]

MixerTypes ==
  /\ mixer \in Standing /\ landing \in Level \cup {NoLevel}
  /\ saved \in Level /\ volumeEvents \in 0 .. MaxVolumeEvents
WriterTypes ==
  /\ writer \in [now : Level \cup {NoLevel}, first : SUBSET Asker, served : SUBSET Asker,
                 queued : Level \cup {NoLevel}, waiting : SUBSET Asker, settling : BOOLEAN]
  /\ newest \in Level \cup {NoLevel}
  /\ saving \in Seq(LevelCall)
WatcherTypes ==
  /\ lastKnown \in BOOLEAN /\ last \in VolumeStatus
  /\ startup \in [read : Standing \cup {Unsure}, clean : BOOLEAN]
  /\ watcher \in [reads : BOOLEAN, read : Standing \cup {Unsure}, again : BOOLEAN]
ClientTypes ==
  /\ link \in [up : BOOLEAN, heard : BOOLEAN]
  /\ reading \in [reads : BOOLEAN, read : Standing \cup {Unsure}, stale : BOOLEAN]
  /\ display \in [level : Level, available : BOOLEAN, known : BOOLEAN]
  /\ edit \in [send : Level \cup {NoLevel}, guard : BOOLEAN, held : Level \cup {NoLevel}]
  /\ retry \in BOOLEAN /\ stray \in BOOLEAN
ToldTypes == told \in Seq(Message) /\ Len(told) <= MaxTold + 1
VolumeTypes == MixerTypes /\ WriterTypes /\ WatcherTypes /\ ClientTypes /\ ToldTypes

\* A value waits only while one is written, for somebody, and it is the newest.
Writing ==
  /\ ~Running => writer.queued = NoLevel /\ newest = NoLevel
  /\ Running => writer.first # {}
  /\ LatestIsWritten

News(message) == message.what \in {"event", "answer"}
Fresh(message) == message.what = "reading" /\ ~message.stale

\* Until the reading of the start is adopted, no value was written or told.
Untouched ==
  startup.read # Unsure /\ startup.clean =>
    /\ last = Unsure /\ writer = NoWrite /\ saving = <<>>
    /\ \A i \in 1 .. Len(told) : ~News(told[i])
    /\ link.heard /\ display.known => stray
\* The watcher begins when that reading is over.
StartIsFirst == watcher.reads => startup.read = Unsure

\* The client asks once at a time, after the settings, which come first.
Opens(message) == message.what \in {"reading", "settings"}
OneReading ==
  /\ \A i, j \in 1 .. Len(told) : Opens(told[i]) /\ Opens(told[j]) => i = j
  /\ reading.reads => \A i \in 1 .. Len(told) : ~Opens(told[i])
  /\ \A i \in 1 .. Len(told) : told[i].what = "settings" => i = 1 /\ link.up /\ ~link.heard
  /\ link.heard => link.up
  /\ ~link.up => Len(told) = 0
  /\ ~link.heard => /\ ~reading.reads
                    /\ \A i \in 1 .. Len(told) : told[i].what \in {"settings", "answer"}
  /\ link.up /\ ~link.heard => Len(told) >= 1 /\ told[1].what = "settings"

\* A client that does not know the mixer has a reading to come, and only then.
Asking == reading.reads /\ ~reading.stale
ReadingComes ==
  /\ link.heard /\ ~display.known => retry \/ Asking \/ \E i \in 1 .. Len(told) : Fresh(told[i])
  /\ link.heard /\ display.known => ~Asking /\ \A i \in 1 .. Len(told) : ~Fresh(told[i])

\* The last event is what the watcher remembers, and so is the last news, unless
\* a reading comes behind it.
Heard(message) == message.what = "event"
LastIsTold ==
  link.heard =>
    \A j \in 1 .. Len(told) :
      /\ Heard(told[j]) /\ (\A k \in 1 .. Len(told) : Heard(told[k]) => k <= j)
           => told[j].status = last
      /\ News(told[j]) /\ (\A k \in 1 .. Len(told) : News(told[k]) => k <= j) =>
           \/ told[j].status.available = last.available
           \/ /\ ~display.known
              /\ \A k \in 1 .. Len(told) : ~Heard(told[k])
              /\ Asking \/ \E k \in 1 .. Len(told) : k > j /\ Fresh(told[k])

\* When nothing is to come, the client shows what the watcher remembers.
Displays(level) == level = IF edit.held # NoLevel THEN edit.held ELSE display.level
Pending == edit.send # NoLevel \/ saving # <<>> \/ Running
LastIsShown ==
  link.heard /\ display.known /\ ~stray =>
    /\ (\A j \in 1 .. Len(told) : ~News(told[j])) => display.available = last.available
    /\ /\ \A j \in 1 .. Len(told) : ~Heard(told[j])
       /\ last.available /\ last.level # NoLevel
       => Pending \/ Displays(last.level)

HeldIsKnown == link.up /\ edit.held # NoLevel => link.heard /\ display.known

VolumeInv ==
  /\ VolumeTypes /\ Writing /\ Untouched /\ StartIsFirst /\ OneReading /\ ReadingComes
  /\ LastIsTold /\ LastIsShown /\ HeldIsKnown

-----------------------------------------------------------------------------
(* The data.                                                               *)

LEMMA LevelIs ==
  /\ NoLevel \in Int /\ NoLevel \notin Level /\ 0 \in Level /\ 1 \in Level
  /\ \A level \in Level : level \in Int /\ level # NoLevel
BY VolumeAssumption DEF Level, NoLevel

LEMMA StatusIs ==
  /\ Unsure \in VolumeStatus /\ Unsure \notin Standing /\ Absent \in Standing
  /\ \A status \in Standing : status \in VolumeStatus /\ status \in Answer
BY LevelIs DEF Unsure, Absent, VolumeStatus, Standing, Answer

LEMMA MinIs ==
  ASSUME NEW a \in Int, NEW b \in Int
  PROVE  Min({a, b}) = IF a <= b THEN a ELSE b
<1> DEFINE m == IF a <= b THEN a ELSE b
<1>1. m \in {a, b} /\ \A y \in {a, b} : m <= y
  OBVIOUS
<1>2. \A x \in {a, b} : (\A y \in {a, b} : x <= y) => x = m
  OBVIOUS
<1>3. QED
  BY <1>1, <1>2 DEF Min

LEMMA StepIs ==
  ASSUME NEW level \in Level
  PROVE  Min({MaxLevel, level + 1}) \in Level /\ Max({0, level - 1}) \in Level
BY VolumeAssumption, MinIs, MaxIs DEF Level

LEMMA MessageIs ==
  ASSUME NEW message \in Message
  PROVE  /\ message.what \in {"settings", "event", "answer", "reading"}
         /\ message.what = "settings" => message.level \in Level
         /\ News(message) => message.status \in VolumeStatus
         /\ message.what = "reading" =>
              message.known \in BOOLEAN /\ message.stale \in BOOLEAN /\ message.status \in Answer
BY DEF Message, News

LEMMA EventIs ==
  ASSUME NEW what \in {"event", "answer"}, NEW status \in VolumeStatus
  PROVE  /\ [what |-> what, status |-> status] \in Message
         /\ [what |-> what, status |-> status].what = what
         /\ [what |-> what, status |-> status].status = status
BY DEF Message

-----------------------------------------------------------------------------
(* What is on the way.                                                     *)

\* The message it is after something newer was heard or done.
Older(message, now) ==
  /\ now.what = message.what
  /\ message.what # "reading" => now = message
  /\ message.what = "reading" => now.stale

LEMMA OutdatedIs ==
  ASSUME NEW list \in Seq(Message)
  PROVE  /\ Outdated(list) \in Seq(Message)
         /\ Len(Outdated(list)) = Len(list)
         /\ \A i \in 1 .. Len(list) : Older(list[i], Outdated(list)[i])
<1> DEFINE older(i) == IF list[i].what = "reading" THEN [list[i] EXCEPT !.stale = TRUE] ELSE list[i]
<1>1. DOMAIN list = 1 .. Len(list) /\ Len(list) \in Nat
  OBVIOUS
<1>2. ASSUME NEW i \in 1 .. Len(list)
      PROVE  older(i) \in Message /\ Older(list[i], older(i))
  <2>1. list[i] \in Message
    OBVIOUS
  <2>2. CASE list[i].what = "reading"
    <3>1. list[i] \in [what : {"reading"}, known : BOOLEAN, stale : BOOLEAN, status : Answer]
      BY <2>1, <2>2 DEF Message
    <3>2. older(i) = [list[i] EXCEPT !.stale = TRUE]
      BY <2>2
    <3>3. older(i) \in [what : {"reading"}, known : BOOLEAN, stale : BOOLEAN, status : Answer]
      BY <3>1, <3>2
    <3>4. older(i).what = "reading" /\ older(i).stale
      BY <3>1, <3>2
    <3>5. QED
      BY <2>2, <3>3, <3>4 DEF Message, Older
  <2>3. CASE list[i].what # "reading"
    BY <2>1, <2>3 DEF Older
  <2>4. QED
    BY <2>2, <2>3
<1>3. Outdated(list) = [i \in 1 .. Len(list) |-> older(i)]
  BY <1>1 DEF Outdated
<1> HIDE DEF older
<1>4. Outdated(list) \in Seq(Message) /\ Len(Outdated(list)) = Len(list)
  BY <1>1, <1>2, <1>3
<1>5. \A i \in 1 .. Len(list) : Outdated(list)[i] = older(i)
  BY <1>3
<1>6. QED
  BY <1>2, <1>4, <1>5

\* The first is received, and what is behind it may be outdated by it.
Received == /\ Len(told) >= 1 /\ Len(told') = Len(told) - 1
            /\ \A i \in 1 .. Len(told) - 1 : told'[i] = told[i + 1]
ReceivedNewer == /\ Len(told) >= 1 /\ Len(told') = Len(told) - 1
                 /\ \A i \in 1 .. Len(told) - 1 : Older(told[i + 1], told'[i])
\* All that is on the way is outdated.
AllOlder == Len(told') = Len(told) /\ \A i \in 1 .. Len(told) : Older(told[i], told'[i])
\* Everybody who listens is told of a status, and an asker is answered with it.
Tells(status, answers) ==
  /\ \A i \in 1 .. Len(told) : told'[i] = told[i]
  /\ Len(told') \in Len(told) .. Len(told) + 2
  /\ ~link.heard /\ ~answers => Len(told') = Len(told)
  /\ link.heard => Len(told') > Len(told) /\ told'[Len(told) + 1].what = "event"
  /\ \A i \in 1 .. Len(told') : i > Len(told) =>
       /\ told'[i].status = status
       /\ ~(link.heard /\ i = Len(told) + 1) => told'[i].what = "answer"

LEMMA ReceivedIs ==
  ASSUME told \in Seq(Message), told # <<>>
  PROVE  /\ Len(told) >= 1 /\ told[1] \in Message /\ Head(told) = told[1]
         /\ told' = Tail(told) => told' \in Seq(Message) /\ Received
         /\ told' = Outdated(Tail(told)) => told' \in Seq(Message) /\ ReceivedNewer
<1>1. /\ Tail(told) \in Seq(Message) /\ Head(told) \in Message /\ Head(told) = told[1]
      /\ Len(Tail(told)) = Len(told) - 1 /\ Len(told) >= 1
      /\ \A i \in 1 .. Len(told) - 1 : Tail(told)[i] = told[i + 1]
  BY TailIs
<1>2. /\ Outdated(Tail(told)) \in Seq(Message) /\ Len(Outdated(Tail(told))) = Len(told) - 1
      /\ \A i \in 1 .. Len(told) - 1 : Older(Tail(told)[i], Outdated(Tail(told))[i])
  BY <1>1, OutdatedIs
<1>3. told' = Tail(told) => told' \in Seq(Message) /\ Received
  BY <1>1 DEF Received
<1>4. told' = Outdated(Tail(told)) => told' \in Seq(Message) /\ ReceivedNewer
  BY <1>1, <1>2 DEF ReceivedNewer
<1>5. QED
  BY <1>1, <1>3, <1>4

LEMMA TwiceIs ==
  ASSUME NEW list \in Seq(Message), NEW event \in Message, NEW answer \in Message
  PROVE  LET once == Append(list, event)
             twice == Append(once, answer)
         IN  /\ twice \in Seq(Message) /\ Len(twice) = Len(list) + 2
             /\ \A i \in 1 .. Len(list) : twice[i] = list[i]
             /\ twice[Len(list) + 1] = event /\ twice[Len(list) + 2] = answer
<1> DEFINE once == Append(list, event)
           twice == Append(once, answer)
<1>1. /\ once \in Seq(Message) /\ Len(once) = Len(list) + 1 /\ Len(list) \in Nat
      /\ \A i \in 1 .. Len(list) : once[i] = list[i]
      /\ once[Len(list) + 1] = event
  BY AppendIs
<1> HIDE DEF once
<1>2. /\ twice \in Seq(Message) /\ Len(twice) = Len(once) + 1
      /\ \A i \in 1 .. Len(once) : twice[i] = once[i]
      /\ twice[Len(once) + 1] = answer
  BY <1>1, AppendIs
<1> HIDE DEF twice
<1>3. QED
  BY <1>1, <1>2 DEF once, twice

\* How the code says it.
Sends(status, answers) ==
  told' = told \o broadcast(status)
            \o (IF answers THEN <<[what |-> "answer", status |-> status]>> ELSE <<>>)

LEMMA TellsIs ==
  ASSUME told \in Seq(Message), NEW status \in VolumeStatus, NEW answers \in BOOLEAN,
         Sends(status, answers)
  PROVE  told' \in Seq(Message) /\ Tells(status, answers)
<1> DEFINE event == [what |-> "event", status |-> status]
           answer == [what |-> "answer", status |-> status]
<1>1. /\ event \in Message /\ event.what = "event" /\ event.status = status
      /\ answer \in Message /\ answer.what = "answer" /\ answer.status = status
      /\ Len(told) \in Nat
  BY EventIs
<1>2. /\ link.heard => told \o broadcast(status) = Append(told, event)
      /\ ~link.heard => told \o broadcast(status) = told
  BY <1>1 DEF broadcast
<1> HIDE DEF event, answer
<1>3. Append(told, event) \in Seq(Message)
  BY <1>1, AppendIs
<1>4. CASE link.heard /\ answers
  <2>1. told' = Append(Append(told, event), answer)
    <3>1. told' = Append(told, event) \o <<answer>>
      BY <1>2, <1>4 DEF answer, Sends
    <3>2. Append(told, event) \o <<answer>> = Append(Append(told, event), answer)
      BY <1>1, <1>3, AppendIsConcat
    <3>3. QED
      BY <3>1, <3>2
  <2>2. QED
    BY <1>1, <1>4, <2>1, TwiceIs DEF Tells
<1>5. CASE link.heard /\ ~answers
  <2>1. told' = Append(told, event)
    BY <1>2, <1>3, <1>5 DEF Sends
  <2>2. QED
    BY <1>1, <1>5, <2>1, AppendIs DEF Tells
<1>6. CASE ~link.heard /\ answers
  <2>1. told' = Append(told, answer)
    BY <1>1, <1>2, <1>6, AppendIsConcat DEF answer, Sends
  <2>2. QED
    BY <1>1, <1>6, <2>1, AppendIs DEF Tells
<1>7. CASE ~link.heard /\ ~answers
  <2>1. told' = told
    BY <1>2, <1>7 DEF Sends
  <2>2. QED
    BY <1>1, <1>7, <2>1 DEF Tells
<1>8. QED
  BY <1>4, <1>5, <1>6, <1>7

-----------------------------------------------------------------------------
(* What the steps do.                                                      *)

\* The watcher remembers another status, and tells of it.
Learns(status) ==
  /\ status \in VolumeStatus /\ last' = status
  /\ told' \in Seq(Message) /\ \E answers \in BOOLEAN : (answers => link.up) /\ Tells(status, answers)

LEMMA AnswersIs ==
  ASSUME VolumeTypes, NEW askers \in SUBSET Asker, NEW status \in VolumeStatus,
         Answers(askers, status, told)
  PROVE  IF askers = {} THEN UNCHANGED <<last, told>> ELSE Learns(status)
<1>1. CASE askers = {}
  BY <1>1 DEF Answers
<1>2. CASE askers # {}
  <2> DEFINE answers == "client" \in askers /\ link.up
  <2>1. answers \in BOOLEAN /\ (answers => link.up)
    OBVIOUS
  <2>2. last' = status /\ Sends(status, answers)
    BY <1>2, Zenon DEF Answers, Sends
  <2> HIDE DEF answers
  <2>3. told' \in Seq(Message) /\ Tells(status, answers)
    BY <2>1, <2>2, TellsIs DEF VolumeTypes, ToldTypes
  <2>4. QED
    BY <1>2, <2>1, <2>2, <2>3 DEF Learns
<1>3. QED
  BY <1>1, <1>2

LEMMA IngestIs ==
  ASSUME VolumeTypes, NEW status \in VolumeStatus, ingest(status)
  PROVE  \/ UNCHANGED <<last, saved, lastKnown, told, stray>>
         \/ /\ Learns(status) /\ ~isBusy /\ stray' = (stray /\ ~link.heard)
            /\ saved' \in Level /\ lastKnown' \in BOOLEAN
<1>1. CASE isBusy \/ last = status
  BY <1>1 DEF ingest
<1>2. CASE ~(isBusy \/ last = status)
  <2>1. /\ last' = status /\ ~isBusy /\ stray' = (stray /\ ~link.heard)
        /\ saved' = (IF status.available /\ status.level # NoLevel THEN status.level ELSE saved)
        /\ lastKnown' = status.available
        /\ told' = told \o broadcast(status)
    BY <1>2 DEF ingest
  <2>2. saved' \in Level /\ lastKnown' \in BOOLEAN
    BY <2>1 DEF VolumeTypes, MixerTypes, VolumeStatus
  <2>3. Sends(status, FALSE)
    <3>1. broadcast(status) \in Seq(Message)
      <4>1. <<[what |-> "event", status |-> status]>> \in Seq(Message) /\ <<>> \in Seq(Message)
        BY EventIs
      <4>2. QED
        BY <4>1 DEF broadcast
    <3>2. told \o broadcast(status) \in Seq(Message)
      BY <3>1, ConcatProperties DEF VolumeTypes, ToldTypes
    <3>3. (told \o broadcast(status)) \o <<>> = told \o broadcast(status)
      BY <3>2, ConcatEmptySeq
    <3>4. QED
      BY <2>1, <3>3, Zenon DEF Sends
  <2>4. told' \in Seq(Message) /\ Tells(status, FALSE)
    BY <2>3, TellsIs DEF VolumeTypes, ToldTypes
  <2>5. Learns(status)
    BY <2>1, <2>4 DEF Learns
  <2>6. QED
    BY <2>1, <2>2, <2>5
<1>3. QED
  BY <1>1, <1>2

\* A write that ends goes over to the value that waits, or everybody who asked
\* is answered.
LEMMA WriteEndsIs ==
  ASSUME VolumeTypes, Writing, WriteEnds
  PROVE  /\ WriterTypes' /\ Writing' /\ UNCHANGED saving /\ Running
         /\ lastKnown' \in BOOLEAN /\ landing' \in Level \cup {NoLevel}
         /\ volumeEvents' \in 0 .. MaxVolumeEvents
         /\ \/ UNCHANGED <<last, told>> /\ Running'
            \/ \E status \in VolumeStatus : Learns(status)
<1> USE DEF VolumeTypes
<1>1. PICK kind \in {"ok", "no-device", "error"} :
           LET more == writer.queued # NoLevel
               askers == writer.served \cup (IF more THEN {} ELSE writer.first)
               available == IF kind = "error" THEN lastKnown ELSE kind = "ok"
               status == [available |-> available,
                          level |-> IF kind = "ok" THEN writer.now ELSE NoLevel]
           IN /\ kind = "ok" => mixer.available
              /\ kind = "no-device" => ~mixer.available
              /\ IF kind = "error" THEN VolumeEvent ELSE UNCHANGED volumeEvents
              /\ lastKnown' = IF askers = {} THEN lastKnown ELSE available
              /\ Answers(askers, status, told)
              /\ IF more
                 THEN /\ writer' = [writer EXCEPT !.now = writer.queued, !.served = writer.waiting,
                                                  !.queued = NoLevel, !.waiting = {}]
                      /\ UNCHANGED newest
                      /\ writeMixer(writer.queued)
                 ELSE /\ writer' = [NoWrite EXCEPT !.settling = TRUE]
                      /\ newest' = NoLevel
                      /\ IF kind = "error" THEN landing' \in {landing, NoLevel}
                         ELSE UNCHANGED landing
  BY DEF WriteEnds
<1> DEFINE more == writer.queued # NoLevel
           askers == writer.served \cup (IF more THEN {} ELSE writer.first)
           available == IF kind = "error" THEN lastKnown ELSE kind = "ok"
           status == [available |-> available,
                      level |-> IF kind = "ok" THEN writer.now ELSE NoLevel]
<1>2. Running /\ UNCHANGED saving
  BY DEF WriteEnds
<1>3. askers \in SUBSET Asker
  BY DEF WriterTypes
<1>4. available \in BOOLEAN
  BY DEF WatcherTypes
<1>5. (IF kind = "ok" THEN writer.now ELSE NoLevel) \in Level \cup {NoLevel}
  BY DEF WriterTypes
<1>6. status \in VolumeStatus
  <2> HIDE DEF available
  <2>1. QED
    BY <1>4, <1>5 DEF VolumeStatus
<1>7. IF askers = {} THEN UNCHANGED <<last, told>> ELSE Learns(status)
  <2>1. Answers(askers, status, told)
    BY <1>1
  <2> HIDE DEF askers, status
  <2>2. QED
    BY <1>3, <1>6, <2>1, AnswersIs
<1>8. lastKnown' \in BOOLEAN
  <2>1. lastKnown' = IF askers = {} THEN lastKnown ELSE available
    BY <1>1
  <2>2. lastKnown \in BOOLEAN
    BY DEF WatcherTypes
  <2> HIDE DEF askers, available
  <2>3. QED
    BY <1>4, <2>1, <2>2
<1>9. volumeEvents' \in 0 .. MaxVolumeEvents
  <2>1. VolumeEvent \/ UNCHANGED volumeEvents
    BY <1>1
  <2>2. QED
    BY <2>1, VolumeAssumption DEF VolumeEvent, MixerTypes
<1>10. CASE more
  <2>1. /\ writer' = [writer EXCEPT !.now = writer.queued, !.served = writer.waiting,
                                    !.queued = NoLevel, !.waiting = {}]
        /\ UNCHANGED newest /\ writeMixer(writer.queued)
    BY <1>1, <1>10
  <2>2. /\ WriterTypes' /\ writer'.now = writer.queued /\ writer'.queued = NoLevel
        /\ writer'.first = writer.first
    BY <1>2, <2>1 DEF WriterTypes
  <2>3. Running' /\ Writing'
    BY <1>2, <1>10, <2>1, <2>2 DEF Running, Writing, LatestIsWritten
  <2>4. landing' \in Level \cup {NoLevel}
    BY <2>1 DEF writeMixer, WriterTypes
  <2> HIDE DEF askers, status
  <2>5. UNCHANGED <<last, told>> \/ \E s \in VolumeStatus : Learns(s)
    BY <1>6, <1>7
  <2>6. QED
    BY <1>2, <1>8, <1>9, <2>2, <2>3, <2>4, <2>5
<1>11. CASE ~more
  <2>1. /\ writer' = [NoWrite EXCEPT !.settling = TRUE] /\ newest' = NoLevel
        /\ (landing' \in {landing, NoLevel} \/ UNCHANGED landing)
    BY <1>1, <1>11
  <2>2. /\ WriterTypes' /\ writer'.now = NoLevel /\ writer'.queued = NoLevel
    BY <1>2, <2>1 DEF WriterTypes, NoWrite
  <2>3. ~Running' /\ Writing'
    BY <2>1, <2>2 DEF Running, Writing, LatestIsWritten
  <2>4. landing' \in Level \cup {NoLevel}
    BY <2>1 DEF MixerTypes
  <2>5. askers # {}
    BY <1>2, <1>11 DEF Writing
  <2> HIDE DEF askers, status
  <2>6. \E s \in VolumeStatus : Learns(s)
    BY <1>6, <1>7, <2>5
  <2>7. QED
    BY <1>2, <1>8, <1>9, <2>2, <2>3, <2>4, <2>6
<1>12. QED
  BY <1>10, <1>11

-----------------------------------------------------------------------------
(* The steps that leave the client and what it is told alone.              *)

LEMMA EventCounts ==
  ASSUME MixerTypes, VolumeEvent \/ UNCHANGED volumeEvents
  PROVE  volumeEvents' \in 0 .. MaxVolumeEvents
BY VolumeAssumption DEF MixerTypes, VolumeEvent

LEMMA ReadIs ==
  ASSUME MixerTypes, NEW status, Read(status)
  PROVE  status \in Standing \cup {Unsure} /\ volumeEvents' \in 0 .. MaxVolumeEvents
BY EventCounts DEF Read, MixerTypes

\* All that the invariant relates.
relatedVars ==
  <<writer, newest, saving, last, startup, told, link, reading, display, edit, retry, stray>>

LEMMA RelatedStay ==
  ASSUME Writing, Untouched, OneReading, ReadingComes, LastIsTold, LastIsShown, HeldIsKnown,
         UNCHANGED relatedVars
  PROVE  /\ Writing' /\ Untouched' /\ OneReading' /\ ReadingComes'
         /\ LastIsTold' /\ LastIsShown' /\ HeldIsKnown'
<1> USE DEF relatedVars
<1>1. Writing' /\ HeldIsKnown'
  BY DEF Writing, Running, LatestIsWritten, HeldIsKnown
<1>2. Untouched'
  BY DEF Untouched
<1>3. OneReading'
  BY DEF OneReading
<1>4. ReadingComes'
  BY DEF ReadingComes, Asking
<1>5. LastIsTold'
  BY DEF LastIsTold, Asking
<1>6. LastIsShown'
  BY DEF LastIsShown, Pending, Running, Displays
<1>7. QED
  BY <1>1, <1>2, <1>3, <1>4, <1>5, <1>6

LEMMA MixerKeeps ==
  ASSUME VolumeInv, Turns \/ Lands \/ PollStarts
  PROVE  VolumeInv'
<1> USE DEF VolumeInv, VolumeTypes
<1>1. UNCHANGED relatedVars /\ UNCHANGED <<saved, lastKnown>>
  BY DEF Turns, Lands, PollStarts, relatedVars, writeVars, watchedVars, volumeClientVars
<1>2. WriterTypes' /\ ClientTypes' /\ ToldTypes'
  BY <1>1 DEF relatedVars, WriterTypes, ClientTypes, ToldTypes
<1>3. WatcherTypes' /\ MixerTypes'
  <2>1. CASE Turns
    <3>1. mixer' \in Standing
      BY <2>1 DEF Turns, Standing
    <3>2. landing' \in Level \cup {NoLevel}
      BY <2>1 DEF Turns, MixerTypes
    <3>3. WatcherTypes'
      BY <2>1 DEF Turns, watchedVars, WatcherTypes
    <3>4. volumeEvents' \in 0 .. MaxVolumeEvents
      BY <2>1, EventCounts DEF Turns
    <3>5. QED
      BY <1>1, <3>1, <3>2, <3>3, <3>4 DEF MixerTypes
  <2>2. CASE Lands
    <3>1. landing \in Level
      BY <2>2 DEF Lands, MixerTypes
    <3>2. [available |-> TRUE, level |-> landing] \in Standing
      BY <3>1, LevelIs DEF Standing, VolumeStatus
    <3>3. WatcherTypes' /\ UNCHANGED volumeEvents /\ landing' = NoLevel
      BY <2>2 DEF Lands, watchedVars, WatcherTypes
    <3>4. mixer' \in Standing
      BY <2>2, <3>2 DEF Lands
    <3>5. QED
      BY <1>1, <3>3, <3>4 DEF MixerTypes
  <2>3. CASE PollStarts
    <3>1. UNCHANGED <<mixer, landing>>
      BY <2>3 DEF PollStarts, writeVars
    <3>2. volumeEvents' \in 0 .. MaxVolumeEvents
      BY <2>3, ReadIs, EventCounts DEF PollStarts
    <3>3. watcher' \in [reads : BOOLEAN, read : Standing \cup {Unsure}, again : BOOLEAN]
      <4>1. CASE \E s \in {mixer, Unsure} :
                   Read(s) /\ watcher' = [reads |-> TRUE, read |-> s, again |-> FALSE]
        BY <4>1, ReadIs
      <4>2. CASE watcher' = [watcher EXCEPT !.again = TRUE]
        BY <4>2 DEF WatcherTypes
      <4>3. QED
        BY <2>3, <4>1, <4>2 DEF PollStarts
    <3>4. QED
      BY <1>1, <3>1, <3>2, <3>3 DEF MixerTypes, WatcherTypes, relatedVars
  <2>4. QED
    BY <2>1, <2>2, <2>3
<1>4. StartIsFirst'
  <2>1. UNCHANGED watcher \/ startup.read = Unsure
    BY DEF Turns, Lands, PollStarts, watchedVars
  <2>2. QED
    BY <1>1, <2>1 DEF StartIsFirst, relatedVars
<1>5. QED
  BY <1>1, <1>2, <1>3, <1>4, RelatedStay

LEMMA SetVolumeIs ==
  ASSUME VolumeTypes, NEW by \in Asker, NEW level \in Level, setVolume(by, level)
  PROVE  /\ saving' \in Seq(LevelCall) /\ saving' # <<>> /\ saved' \in Level
         /\ startup' \in [read : Standing \cup {Unsure}, clean : BOOLEAN]
         /\ startup'.read = startup.read /\ startup'.clean = (startup.read = Unsure)
<1>1. [by |-> by, level |-> level] \in LevelCall
  BY DEF LevelCall
<1>2. saving' = Append(saving, [by |-> by, level |-> level]) /\ saved' = level
      /\ startup' = [startup EXCEPT !.clean = (startup.read = Unsure)]
  BY DEF setVolume
<1>3. saving' \in Seq(LevelCall) /\ saving' # <<>>
  BY <1>1, <1>2, AppendIs DEF VolumeTypes, WriterTypes
<1>4. QED
  BY <1>2, <1>3 DEF VolumeTypes, WatcherTypes

\* A call of setVolume keeps the start from adopting what it read, and the
\* client's level is to be written.
LEMMA SetKeeps ==
  ASSUME VolumeInv, OtherSets \/ syncVolumeToBackend
  PROVE  VolumeInv'
<1> USE DEF VolumeInv, VolumeTypes
<1>1. /\ UNCHANGED <<mixer, landing, writer, newest, lastKnown, last, watcher, told, link,
                     reading, display, retry, stray>>
      /\ edit'.held = edit.held
  BY DEF OtherSets, syncVolumeToBackend, volumeClientVars, ClientTypes
<1>2. \E by \in Asker, level \in Level : setVolume(by, level)
  <2>1. CASE OtherSets
    BY <2>1 DEF OtherSets, Asker
  <2>2. CASE syncVolumeToBackend
    <3>1. edit.send \in Level /\ "client" \in Asker
      BY <2>2 DEF syncVolumeToBackend, ClientTypes, Asker
    <3>2. QED
      BY <2>2, <3>1 DEF syncVolumeToBackend
  <2>3. QED
    BY <2>1, <2>2
<1>3. /\ saving' \in Seq(LevelCall) /\ saving' # <<>> /\ saved' \in Level
      /\ startup' \in [read : Standing \cup {Unsure}, clean : BOOLEAN]
      /\ startup'.read = startup.read /\ startup'.clean = (startup.read = Unsure)
  BY <1>2, SetVolumeIs
<1>4. edit' \in [send : Level \cup {NoLevel}, guard : BOOLEAN, held : Level \cup {NoLevel}]
  BY DEF OtherSets, syncVolumeToBackend, volumeClientVars, ClientTypes
<1>5. volumeEvents' \in 0 .. MaxVolumeEvents
  BY EventCounts DEF OtherSets, syncVolumeToBackend
<1>6. VolumeTypes'
  BY <1>1, <1>3, <1>4, <1>5 DEF MixerTypes, WriterTypes, WatcherTypes, ClientTypes, ToldTypes
<1>7. Writing' /\ HeldIsKnown'
  BY <1>1 DEF Writing, Running, LatestIsWritten, HeldIsKnown
<1>8. Untouched' /\ StartIsFirst'
  BY <1>1, <1>3 DEF Untouched, StartIsFirst
<1>9. OneReading' /\ ReadingComes' /\ LastIsTold'
  BY <1>1 DEF OneReading, ReadingComes, LastIsTold, Asking
<1>10. LastIsShown'
  BY <1>1, <1>3 DEF LastIsShown, Pending
<1>11. QED
  BY <1>6, <1>7, <1>8, <1>9, <1>10

LEMMA RunKeeps ==
  ASSUME VolumeInv, run
  PROVE  VolumeInv'
<1> USE DEF VolumeInv, VolumeTypes
<1>1. /\ saving # <<>> /\ saving' = Tail(saving) /\ newest' = Head(saving).level
      /\ UNCHANGED <<mixer, saved, watchedVars, told, volumeClientVars, volumeEvents>>
  BY DEF run
<1>2. Head(saving) \in LevelCall /\ saving' \in Seq(LevelCall)
  BY <1>1, TailIs DEF WriterTypes
<1>3. /\ newest' \in Level /\ Head(saving).by \in Asker
  BY <1>1, <1>2 DEF LevelCall
<1>4. /\ writer' \in [now : Level \cup {NoLevel}, first : SUBSET Asker, served : SUBSET Asker,
                      queued : Level \cup {NoLevel}, waiting : SUBSET Asker, settling : BOOLEAN]
      /\ landing' \in Level \cup {NoLevel}
      /\ Running' /\ Writing'
  <2>1. CASE Running
    <3>1. writer' = [writer EXCEPT !.queued = Head(saving).level, !.waiting = @ \cup {Head(saving).by}]
          /\ UNCHANGED landing
      BY <2>1 DEF run
    <3>2. /\ writer' \in [now : Level \cup {NoLevel}, first : SUBSET Asker, served : SUBSET Asker,
                          queued : Level \cup {NoLevel}, waiting : SUBSET Asker, settling : BOOLEAN]
          /\ writer'.now = writer.now /\ writer'.first = writer.first
          /\ writer'.queued = newest'
      BY <1>1, <1>3, <3>1 DEF WriterTypes
    <3>3. QED
      BY <1>3, <2>1, <3>1, <3>2, LevelIs DEF Running, Writing, LatestIsWritten, MixerTypes
  <2>2. CASE ~Running
    <3>1. writer' = [writer EXCEPT !.now = Head(saving).level, !.first = {Head(saving).by}]
          /\ writeMixer(Head(saving).level)
      BY <2>2 DEF run
    <3>2. /\ writer' \in [now : Level \cup {NoLevel}, first : SUBSET Asker, served : SUBSET Asker,
                          queued : Level \cup {NoLevel}, waiting : SUBSET Asker, settling : BOOLEAN]
          /\ writer'.now = newest' /\ writer'.first # {} /\ writer'.queued = writer.queued
      BY <1>1, <1>3, <3>1 DEF WriterTypes
    <3>3. landing' \in Level \cup {NoLevel}
      BY <1>1, <1>3, <3>1 DEF writeMixer
    <3>4. QED
      BY <1>3, <2>2, <3>2, <3>3, LevelIs DEF Running, Writing, LatestIsWritten
  <2>3. QED
    BY <2>1, <2>2
<1>5. MixerTypes' /\ WriterTypes' /\ WatcherTypes' /\ ClientTypes' /\ ToldTypes'
  BY <1>1, <1>2, <1>3, <1>4
     DEF MixerTypes, WriterTypes, WatcherTypes, ClientTypes, ToldTypes, watchedVars, volumeClientVars
<1>6. Untouched' /\ StartIsFirst'
  BY <1>1 DEF Untouched, StartIsFirst, watchedVars
<1>7. OneReading' /\ ReadingComes' /\ LastIsTold' /\ HeldIsKnown'
  BY <1>1 DEF OneReading, ReadingComes, LastIsTold, HeldIsKnown, Asking, watchedVars, volumeClientVars
<1>8. LastIsShown'
  BY <1>1, <1>4 DEF LastIsShown, Pending, watchedVars, volumeClientVars
<1>9. QED
  BY <1>4, <1>5, <1>6, <1>7, <1>8

LEMMA SettlesKeeps ==
  ASSUME VolumeInv, WriteSettles
  PROVE  VolumeInv'
<1> USE DEF VolumeInv, VolumeTypes
<1>1. /\ writer.settling /\ writer' = [writer EXCEPT !.settling = FALSE]
      /\ UNCHANGED <<mixer, landing, newest, saving, saved, watchedVars, told, volumeClientVars,
                     volumeEvents>>
  BY DEF WriteSettles
<1>2. WriterTypes' /\ writer'.now = writer.now /\ writer'.queued = writer.queued
      /\ writer'.first = writer.first
  BY <1>1 DEF WriterTypes
<1>3. MixerTypes' /\ WatcherTypes' /\ ClientTypes' /\ ToldTypes'
  BY <1>1 DEF MixerTypes, WatcherTypes, ClientTypes, ToldTypes, watchedVars, volumeClientVars
<1>4. writer # NoWrite
  BY <1>1 DEF NoWrite
<1>5. Writing'
  BY <1>1, <1>2 DEF Writing, Running, LatestIsWritten
<1>6. Untouched' /\ StartIsFirst'
  BY <1>1, <1>4 DEF Untouched, StartIsFirst, watchedVars
<1>7. OneReading' /\ ReadingComes' /\ LastIsTold' /\ HeldIsKnown'
  BY <1>1 DEF OneReading, ReadingComes, LastIsTold, HeldIsKnown, Asking, watchedVars, volumeClientVars
<1>8. LastIsShown'
  BY <1>1, <1>2 DEF LastIsShown, Pending, Running, Displays, watchedVars, volumeClientVars
<1>9. QED
  BY <1>2, <1>3, <1>5, <1>6, <1>7, <1>8

\* What the start adopts, nobody was told of and nobody has asked for.
LEMMA AdoptsKeeps ==
  ASSUME VolumeInv, Adopts
  PROVE  VolumeInv'
<1> USE DEF VolumeInv, VolumeTypes
<1>1. /\ startup.read # Unsure /\ startup' = [read |-> Unsure, clean |-> TRUE]
      /\ UNCHANGED <<mixer, writeVars, watcher, told, volumeClientVars, volumeEvents>>
  BY DEF Adopts
<1>2. startup.read \in Standing
  BY <1>1 DEF WatcherTypes
<1>3. startup.read.available \in BOOLEAN /\ startup.read \in VolumeStatus
      /\ (startup.read.available => startup.read.level \in Level)
  BY <1>2, LevelIs DEF Standing, VolumeStatus
<1>4. lastKnown' \in BOOLEAN /\ last' \in VolumeStatus /\ saved' \in Level
  BY <1>3 DEF Adopts, WatcherTypes, MixerTypes
<1>5. startup' \in [read : Standing \cup {Unsure}, clean : BOOLEAN] /\ startup'.read = Unsure
  BY <1>1
<1>6. MixerTypes' /\ WriterTypes' /\ WatcherTypes' /\ ClientTypes' /\ ToldTypes'
  BY <1>1, <1>4, <1>5
     DEF MixerTypes, WriterTypes, WatcherTypes, ClientTypes, ToldTypes, writeVars, volumeClientVars
<1>7. /\ Writing' /\ Untouched' /\ StartIsFirst' /\ OneReading' /\ ReadingComes'
      /\ HeldIsKnown'
  BY <1>1, <1>5 DEF Writing, Running, LatestIsWritten, Untouched, StartIsFirst, OneReading, ReadingComes,
     HeldIsKnown, Asking, writeVars, volumeClientVars
<1>8. CASE isBusy \/ ~startup.clean
  <2>1. UNCHANGED last
    BY <1>8 DEF Adopts
  <2>2. LastIsTold' /\ LastIsShown'
    BY <1>1, <2>1 DEF LastIsTold, LastIsShown, Asking, Pending, Running, Displays, writeVars,
       volumeClientVars
  <2>3. QED
    BY <1>6, <1>7, <2>2
<1>9. CASE startup.clean
  <2>1. /\ \A i \in 1 .. Len(told) : ~News(told[i])
        /\ link.heard /\ display.known => stray
    BY <1>1, <1>9 DEF Untouched
  <2>2. LastIsTold' /\ LastIsShown'
    BY <1>1, <2>1 DEF LastIsTold, LastIsShown, News, Heard, volumeClientVars
  <2>3. QED
    BY <1>6, <1>7, <2>2
<1>10. QED
  BY <1>8, <1>9

-----------------------------------------------------------------------------
(* The steps that tell.                                                    *)

\* Everybody who listens is told of what the watcher remembers now.
LEMMA LearnsKeeps ==
  ASSUME VolumeInv, NEW status, Learns(status), UNCHANGED <<startup, link, reading, display, edit, retry>>,
         startup.read = Unsure \/ ~startup.clean
  PROVE  /\ told' \in Seq(Message) /\ Len(told') <= Len(told) + 2 /\ last' \in VolumeStatus
         /\ Untouched' /\ OneReading' /\ ReadingComes' /\ LastIsTold' /\ LastIsShown' /\ HeldIsKnown'
<1> USE DEF VolumeInv, VolumeTypes
<1>1. PICK answers \in BOOLEAN : (answers => link.up) /\ Tells(status, answers)
  BY DEF Learns
<1>2. /\ told' \in Seq(Message) /\ last' = status /\ status \in VolumeStatus /\ Len(told) \in Nat
      /\ Len(told') \in Nat
  BY DEF Learns, ToldTypes
<1>3. /\ \A i \in 1 .. Len(told) : told'[i] = told[i]
      /\ Len(told') \in Len(told) .. Len(told) + 2
      /\ ~link.heard /\ ~answers => Len(told') = Len(told)
      /\ link.heard => Len(told') > Len(told) /\ told'[Len(told) + 1].what = "event"
      /\ \A i \in 1 .. Len(told') : i > Len(told) =>
           /\ told'[i].status = status
           /\ ~(link.heard /\ i = Len(told) + 1) => told'[i].what = "answer"
  BY <1>1 DEF Tells
<1>4. \A i \in 1 .. Len(told') : i > Len(told) =>
           \/ told'[i].what = "answer"
           \/ told'[i].what = "event" /\ link.heard
  <2>1. ASSUME NEW i \in 1 .. Len(told'), i > Len(told)
        PROVE  told'[i].what = "answer" \/ (told'[i].what = "event" /\ link.heard)
    <3>1. CASE link.heard /\ i = Len(told) + 1
      BY <1>3, <3>1
    <3>2. CASE ~(link.heard /\ i = Len(told) + 1)
      BY <1>3, <2>1, <3>2
    <3>3. QED
      BY <3>1, <3>2
  <2>2. QED
    BY <2>1
<1>5. Untouched' /\ HeldIsKnown'
  BY DEF Untouched, HeldIsKnown
<1>6. OneReading'
  <2>1. \A i \in 1 .. Len(told') : Opens(told'[i]) => i \in 1 .. Len(told) /\ Opens(told[i])
    BY <1>2, <1>3, <1>4 DEF Opens
  <2>2. \A i \in 1 .. Len(told') : told'[i].what = "settings" => i \in 1 .. Len(told) /\ told[i].what = "settings"
    BY <1>2, <1>3, <1>4
  <2>3. ~link.heard => \A i \in 1 .. Len(told') : told'[i].what \in {"settings", "answer"}
    BY <1>2, <1>3, <1>4 DEF OneReading
  <2>4. ~link.up => Len(told') = 0
    BY <1>1, <1>2, <1>3 DEF OneReading
  <2>5. link.up /\ ~link.heard => Len(told') >= 1 /\ told'[1].what = "settings"
    BY <1>2, <1>3 DEF OneReading
  <2>6. QED
    BY <2>1, <2>2, <2>3, <2>4, <2>5 DEF OneReading
<1>7. ReadingComes'
  <2>1. \A i \in 1 .. Len(told') : Fresh(told'[i]) => i \in 1 .. Len(told) /\ Fresh(told[i])
    BY <1>2, <1>3, <1>4 DEF Fresh
  <2>2. \A i \in 1 .. Len(told) : i \in 1 .. Len(told') /\ (Fresh(told[i]) => Fresh(told'[i]))
    BY <1>2, <1>3 DEF Fresh
  <2>3. QED
    BY <2>1, <2>2 DEF ReadingComes, Asking
<1>8. CASE link.heard
  <2> DEFINE n == Len(told) + 1
  <2>1. n \in 1 .. Len(told') /\ Heard(told'[n]) /\ News(told'[n])
    BY <1>2, <1>3, <1>8 DEF Heard, News
  <2>2. \A j \in 1 .. Len(told') : j >= n => told'[j].status = status
    BY <1>2, <1>3
  <2>3. LastIsTold'
    BY <1>2, <2>1, <2>2 DEF LastIsTold
  <2>4. LastIsShown'
    BY <2>1 DEF LastIsShown
  <2>5. QED
    BY <1>2, <1>3, <1>5, <1>6, <1>7, <2>3, <2>4
<1>9. CASE ~link.heard
  BY <1>2, <1>3, <1>5, <1>6, <1>7, <1>9 DEF LastIsTold, LastIsShown
<1>10. QED
  BY <1>8, <1>9

LEMMA WriteEndsKeeps ==
  ASSUME VolumeInv, WriteEnds
  PROVE  VolumeInv'
<1> USE DEF VolumeInv, VolumeTypes
<1>1. /\ UNCHANGED <<mixer, saving, saved, startup, watcher, volumeClientVars>>
      /\ Len(told) < MaxTold
  BY DEF WriteEnds, RoomToTell
<1>2. /\ WriterTypes' /\ Writing' /\ Running
      /\ lastKnown' \in BOOLEAN /\ landing' \in Level \cup {NoLevel}
      /\ volumeEvents' \in 0 .. MaxVolumeEvents
      /\ \/ UNCHANGED <<last, told>> /\ Running'
         \/ \E status \in VolumeStatus : Learns(status)
  BY WriteEndsIs
<1>3. startup.read = Unsure \/ ~startup.clean
  <2>1. writer # NoWrite
    BY <1>2 DEF Running, NoWrite
  <2>2. QED
    BY <2>1 DEF Untouched, WatcherTypes
<1>4. MixerTypes' /\ ClientTypes' /\ StartIsFirst'
  BY <1>1, <1>2 DEF MixerTypes, ClientTypes, StartIsFirst, volumeClientVars
<1>5. CASE UNCHANGED <<last, told>> /\ Running'
  <2>1. WatcherTypes' /\ ToldTypes'
    BY <1>1, <1>2, <1>5 DEF WatcherTypes, ToldTypes
  <2>2. Untouched'
    BY <1>1, <1>3 DEF Untouched
  <2>3. OneReading' /\ ReadingComes' /\ LastIsTold' /\ HeldIsKnown'
    BY <1>1, <1>5 DEF OneReading, ReadingComes, LastIsTold, HeldIsKnown, Asking, volumeClientVars
  <2>4. LastIsShown'
    BY <1>1, <1>5 DEF LastIsShown, Pending, volumeClientVars
  <2>5. QED
    BY <1>2, <1>4, <2>1, <2>2, <2>3, <2>4
<1>6. CASE \E status \in VolumeStatus : Learns(status)
  <2>1. /\ told' \in Seq(Message) /\ Len(told') <= Len(told) + 2 /\ last' \in VolumeStatus
        /\ Untouched' /\ OneReading' /\ ReadingComes' /\ LastIsTold' /\ LastIsShown' /\ HeldIsKnown'
    BY <1>1, <1>3, <1>6, LearnsKeeps DEF volumeClientVars
  <2>2. ToldTypes'
    BY <1>1, <2>1, VolumeAssumption DEF ToldTypes
  <2>3. WatcherTypes'
    BY <1>1, <1>2, <2>1 DEF WatcherTypes
  <2>4. QED
    BY <1>2, <1>4, <2>1, <2>2, <2>3
<1>7. QED
  BY <1>2, <1>5, <1>6

LEMMA WatcherKeeps ==
  ASSUME VolumeInv, PollEnds \/ MonitorTells
  PROVE  VolumeInv'
<1> USE DEF VolumeInv, VolumeTypes
<1>1. /\ UNCHANGED <<mixer, writeVars, startup, link, reading, display, edit, retry>>
      /\ Len(told) < MaxTold /\ startup.read = Unsure
  BY DEF PollEnds, MonitorTells, RoomToTell, StartIsFirst
<1>2. watcher' \in [reads : BOOLEAN, read : Standing \cup {Unsure}, again : BOOLEAN]
  <2>1. CASE MonitorTells
    BY <2>1 DEF MonitorTells, WatcherTypes
  <2>2. CASE watcher' = NoPoll
    BY <2>2 DEF NoPoll
  <2>3. CASE \E s \in {mixer, Unsure} :
                 Read(s) /\ watcher' = [reads |-> TRUE, read |-> s, again |-> FALSE]
    BY <2>3, ReadIs
  <2>4. QED
    BY <2>1, <2>2, <2>3 DEF PollEnds
<1>3. volumeEvents' \in 0 .. MaxVolumeEvents
  BY EventCounts, ReadIs DEF PollEnds, MonitorTells
<1>4. \/ UNCHANGED <<last, saved, lastKnown, told, stray>>
      \/ \E status \in VolumeStatus : ingest(status)
  BY StatusIs DEF PollEnds, MonitorTells, WatcherTypes, MixerTypes
<1>5. \/ UNCHANGED <<last, saved, lastKnown, told, stray>>
      \/ /\ saved' \in Level /\ lastKnown' \in BOOLEAN /\ stray' = (stray /\ ~link.heard)
         /\ \E status \in VolumeStatus : Learns(status)
  BY <1>4, IngestIs
<1>6. WriterTypes' /\ Writing' /\ StartIsFirst'
  BY <1>1 DEF WriterTypes, Writing, Running, LatestIsWritten, StartIsFirst, writeVars
<1>7. CASE UNCHANGED <<last, saved, lastKnown, told, stray>>
  <2>1. MixerTypes' /\ WatcherTypes' /\ ClientTypes' /\ ToldTypes'
    BY <1>1, <1>2, <1>3, <1>7 DEF MixerTypes, WatcherTypes, ClientTypes, ToldTypes, writeVars
  <2>2. QED
    BY <1>1, <1>6, <1>7, <2>1, RelatedStay DEF relatedVars, writeVars
<1>8. CASE /\ saved' \in Level /\ lastKnown' \in BOOLEAN /\ stray' = (stray /\ ~link.heard)
           /\ \E status \in VolumeStatus : Learns(status)
  <2>1. /\ told' \in Seq(Message) /\ Len(told') <= Len(told) + 2 /\ last' \in VolumeStatus
        /\ Untouched' /\ OneReading' /\ ReadingComes' /\ LastIsTold' /\ LastIsShown' /\ HeldIsKnown'
    BY <1>1, <1>8, LearnsKeeps
  <2>2. ToldTypes'
    BY <1>1, <2>1, VolumeAssumption DEF ToldTypes
  <2>3. stray' \in BOOLEAN
    BY <1>8
  <2>4. MixerTypes' /\ WatcherTypes' /\ ClientTypes'
    BY <1>1, <1>2, <1>3, <1>8, <2>1, <2>3 DEF MixerTypes, WatcherTypes, ClientTypes, writeVars
  <2>5. QED
    BY <1>6, <2>1, <2>2, <2>4
<1>9. QED
  BY <1>5, <1>7, <1>8

-----------------------------------------------------------------------------
(* The client's steps.                                                     *)

LEMMA MayKeep ==
  ASSUME VolumeTypes, Writing, UNCHANGED <<mixer, writeVars, saved, watchedVars>>
  PROVE  /\ WriterTypes' /\ WatcherTypes' /\ Writing' /\ (StartIsFirst => StartIsFirst')
         /\ volumeEvents' \in 0 .. MaxVolumeEvents => MixerTypes'
BY DEF VolumeTypes, MixerTypes, WriterTypes, WatcherTypes, Writing, Running, LatestIsWritten,
   StartIsFirst, writeVars, watchedVars

LEMMA NoReadingIs ==
  /\ NoReading \in [reads : BOOLEAN, read : Standing \cup {Unsure}, stale : BOOLEAN]
  /\ ~NoReading.reads
BY DEF NoReading

LEMMA GetVolumeKeeps ==
  ASSUME VolumeInv, getVolume
  PROVE  VolumeInv'
<1> USE DEF VolumeInv, VolumeTypes
<1> DEFINE known == reading.read # Unsure
           answer == [what |-> "reading", known |-> known, stale |-> reading.stale,
                      status |-> IF known THEN reading.read
                                 ELSE [available |-> lastKnown,
                                       level |-> IF lastKnown THEN saved ELSE NoLevel]]
<1>1. /\ reading.reads /\ Len(told) < MaxTold /\ told' = Append(told, answer)
      /\ lastKnown' = (IF known THEN reading.read.available ELSE lastKnown)
      /\ reading' = NoReading
      /\ UNCHANGED <<mixer, writeVars, saved, last, startup, watcher, link, display, edit, retry,
                     stray, volumeEvents>>
  BY DEF getVolume, RoomToTell
<1>2. known => reading.read \in Standing
  BY DEF ClientTypes
<1>3. lastKnown' \in BOOLEAN
  BY <1>1, <1>2 DEF WatcherTypes, Standing, VolumeStatus
<1>4. [available |-> lastKnown, level |-> IF lastKnown THEN saved ELSE NoLevel] \in Answer
  <2>1. CASE lastKnown
    BY <2>1, LevelIs DEF Answer, VolumeStatus, MixerTypes, WatcherTypes
  <2>2. CASE ~lastKnown
    BY <2>2, LevelIs DEF Answer, VolumeStatus, WatcherTypes
  <2>3. QED
    BY <2>1, <2>2
<1>5. /\ answer \in Message /\ answer.what = "reading" /\ answer.stale = reading.stale
  <2>1. (IF known THEN reading.read ELSE [available |-> lastKnown,
                                           level |-> IF lastKnown THEN saved ELSE NoLevel]) \in Answer
    BY <1>2, <1>4, StatusIs
  <2>2. reading.stale \in BOOLEAN /\ known \in BOOLEAN
    BY DEF ClientTypes
  <2>3. QED
    BY <2>1, <2>2 DEF Message
<1> HIDE DEF answer, known
<1>6. /\ told' \in Seq(Message) /\ Len(told') = Len(told) + 1 /\ Len(told) \in Nat
      /\ \A i \in 1 .. Len(told) : told'[i] = told[i]
      /\ told'[Len(told) + 1] = answer
  BY <1>1, <1>5, AppendIs DEF ToldTypes
<1>7. VolumeTypes'
  <2>1. ToldTypes'
    BY <1>1, <1>6, VolumeAssumption DEF ToldTypes
  <2>2. MixerTypes' /\ WriterTypes' /\ WatcherTypes' /\ ClientTypes'
    BY <1>1, <1>3, NoReadingIs DEF MixerTypes, WriterTypes, WatcherTypes, ClientTypes, writeVars
  <2>3. QED
    BY <2>1, <2>2
<1>8. Writing' /\ StartIsFirst' /\ HeldIsKnown'
  BY <1>1 DEF Writing, Running, LatestIsWritten, StartIsFirst, HeldIsKnown, writeVars
<1>9. \A i \in 1 .. Len(told') : i \in 1 .. Len(told) \/ i = Len(told) + 1
  BY <1>6
<1>10. ~News(answer) /\ ~Heard(answer) /\ (Fresh(answer) <=> ~reading.stale) /\ link.heard
  BY <1>1, <1>5 DEF News, Heard, Fresh, OneReading
<1>11. Untouched'
  <2>1. startup.read # Unsure /\ startup.clean => \A i \in 1 .. Len(told') : ~News(told'[i])
    BY <1>6, <1>9, <1>10 DEF Untouched
  <2>2. QED
    BY <1>1, <2>1 DEF Untouched, writeVars
<1>12. OneReading'
  <2>1. \A i \in 1 .. Len(told) : ~Opens(told[i])
    BY <1>1 DEF OneReading
  <2>2. \A i \in 1 .. Len(told') : Opens(told'[i]) => i = Len(told) + 1
    BY <1>6, <1>9, <2>1
  <2>3. \A i \in 1 .. Len(told') : told'[i].what # "settings"
    BY <1>5, <1>6, <1>9, <2>1 DEF Opens
  <2>4. QED
    BY <1>1, <1>10, <2>2, <2>3, NoReadingIs DEF OneReading
<1>13. ~Asking'
  BY <1>1, NoReadingIs DEF Asking
<1>14. Asking <=> Fresh(answer)
  BY <1>1, <1>10 DEF Asking
<1>15. ReadingComes'
  <2>1. (\E i \in 1 .. Len(told') : Fresh(told'[i])) <=>
          (Fresh(answer) \/ \E i \in 1 .. Len(told) : Fresh(told[i]))
    BY <1>6, <1>9
  <2>2. QED
    BY <1>1, <1>13, <1>14, <2>1 DEF ReadingComes
<1>16. LastIsTold'
  <2> SUFFICES ASSUME NEW j \in 1 .. Len(told')
               PROVE  /\ Heard(told'[j]) /\ (\A k \in 1 .. Len(told') : Heard(told'[k]) => k <= j)
                           => told'[j].status = last'
                      /\ News(told'[j]) /\ (\A k \in 1 .. Len(told') : News(told'[k]) => k <= j) =>
                           \/ told'[j].status.available = last'.available
                           \/ /\ ~display'.known
                              /\ \A k \in 1 .. Len(told') : ~Heard(told'[k])
                              /\ Asking' \/ \E k \in 1 .. Len(told') : k > j /\ Fresh(told'[k])
    BY DEF LastIsTold
  <2>1. CASE j = Len(told) + 1
    BY <1>6, <1>10, <2>1
  <2>2. CASE j \in 1 .. Len(told)
    <3>1. told'[j] = told[j] /\ \A k \in 1 .. Len(told) : k \in 1 .. Len(told') /\ told'[k] = told[k]
      BY <1>6, <2>2
    <3>2. Heard(told'[j]) /\ (\A k \in 1 .. Len(told') : Heard(told'[k]) => k <= j)
            => told'[j].status = last'
      BY <1>1, <1>10, <2>2, <3>1 DEF LastIsTold
    <3>3. ASSUME News(told'[j]), \A k \in 1 .. Len(told') : News(told'[k]) => k <= j
          PROVE  \/ told'[j].status.available = last'.available
                 \/ /\ ~display'.known
                    /\ \A k \in 1 .. Len(told') : ~Heard(told'[k])
                    /\ Asking' \/ \E k \in 1 .. Len(told') : k > j /\ Fresh(told'[k])
      <4>1. \/ told[j].status.available = last.available
            \/ /\ ~display.known
               /\ \A k \in 1 .. Len(told) : ~Heard(told[k])
               /\ Asking \/ \E k \in 1 .. Len(told) : k > j /\ Fresh(told[k])
        BY <1>10, <2>2, <3>1, <3>3 DEF LastIsTold
      <4>2. (\A k \in 1 .. Len(told) : ~Heard(told[k])) => \A k \in 1 .. Len(told') : ~Heard(told'[k])
        BY <1>6, <1>9, <1>10
      <4>3. Asking => \E k \in 1 .. Len(told') : k > j /\ Fresh(told'[k])
        <5>1. Len(told) + 1 \in 1 .. Len(told') /\ Len(told) + 1 > j
          BY <1>6, <2>2
        <5>2. QED
          BY <1>6, <1>14, <5>1
      <4>4. QED
        BY <1>1, <3>1, <4>1, <4>2, <4>3
    <3>4. QED
      BY <3>2, <3>3
  <2>3. QED
    BY <1>9, <2>1, <2>2
<1>17. LastIsShown'
  <2>1. /\ (\A i \in 1 .. Len(told') : ~News(told'[i])) => \A i \in 1 .. Len(told) : ~News(told[i])
        /\ (\A i \in 1 .. Len(told') : ~Heard(told'[i])) => \A i \in 1 .. Len(told) : ~Heard(told[i])
    BY <1>6
  <2>2. QED
    BY <1>1, <2>1 DEF LastIsShown, Pending, Running, Displays, writeVars
<1>18. QED
  BY <1>7, <1>8, <1>11, <1>12, <1>15, <1>16, <1>17

LEMMA ConnectsKeeps ==
  ASSUME VolumeInv, Connects
  PROVE  VolumeInv'
<1> USE DEF VolumeInv, VolumeTypes
<1> DEFINE first == [what |-> "settings", level |-> saved]
<1>1. /\ ~link.up /\ edit.held = NoLevel /\ link' = [link EXCEPT !.up = TRUE]
      /\ told' = <<first>>
      /\ UNCHANGED <<mixer, writeVars, saved, watchedVars, reading, display, edit, retry, stray,
                     volumeEvents>>
  BY DEF Connects
<1>2. first \in Message /\ first.what = "settings"
  BY DEF Message, MixerTypes
<1> HIDE DEF first
<1>3. told' \in Seq(Message) /\ Len(told') = 1 /\ told'[1] = first
  BY <1>1, <1>2
<1>4. link'.up /\ ~link'.heard /\ link' \in [up : BOOLEAN, heard : BOOLEAN] /\ ~link.heard
  BY <1>1 DEF ClientTypes, OneReading
<1>5. VolumeTypes' /\ Writing' /\ StartIsFirst'
  <2>1. ClientTypes' /\ ToldTypes' /\ MixerTypes'
    BY <1>1, <1>3, <1>4, VolumeAssumption DEF ClientTypes, ToldTypes, MixerTypes, writeVars
  <2>2. QED
    BY <1>1, <2>1, MayKeep
<1>6. OneReading'
  BY <1>1, <1>2, <1>3, <1>4 DEF OneReading
<1>7. Untouched'
  BY <1>1, <1>2, <1>3, <1>4 DEF Untouched, News, writeVars, watchedVars
<1>8. ReadingComes' /\ LastIsTold' /\ LastIsShown' /\ HeldIsKnown'
  BY <1>1, <1>4 DEF ReadingComes, LastIsTold, LastIsShown, HeldIsKnown
<1>9. QED
  BY <1>5, <1>6, <1>7, <1>8

LEMMA AsksIs ==
  ASSUME MixerTypes, Asks
  PROVE  /\ reading' \in [reads : BOOLEAN, read : Standing \cup {Unsure}, stale : BOOLEAN]
         /\ reading'.reads /\ ~reading'.stale /\ Asking'
         /\ volumeEvents' \in 0 .. MaxVolumeEvents
BY ReadIs DEF Asks, Asking

LEMMA RetryKeeps ==
  ASSUME VolumeInv, RetryFires
  PROVE  VolumeInv'
<1> USE DEF VolumeInv, VolumeTypes
<1>1. /\ link.up /\ ~reading.reads /\ retry' = FALSE
      /\ \A i \in 1 .. Len(told) : ~Opens(told[i])
      /\ IF display.known THEN UNCHANGED <<reading, volumeEvents>> ELSE Asks
      /\ UNCHANGED <<mixer, writeVars, saved, watchedVars, told, link, display, edit, stray>>
  BY DEF RetryFires, Opens, ToldTypes
<1>2. /\ reading' \in [reads : BOOLEAN, read : Standing \cup {Unsure}, stale : BOOLEAN]
      /\ volumeEvents' \in 0 .. MaxVolumeEvents
  BY <1>1, AsksIs DEF ClientTypes, MixerTypes
<1>3. VolumeTypes' /\ Writing' /\ StartIsFirst'
  <2>1. ClientTypes' /\ ToldTypes'
    BY <1>1, <1>2 DEF ClientTypes, ToldTypes
  <2>2. QED
    BY <1>1, <1>2, <2>1, MayKeep
<1>4. link.heard
  BY <1>1 DEF OneReading, Opens
<1>5. OneReading'
  BY <1>1, <1>4 DEF OneReading, Opens
<1>6. ~display.known => Asking'
  BY <1>1, AsksIs
<1>7. display.known => UNCHANGED reading
  BY <1>1
<1>8. Untouched' /\ HeldIsKnown'
  BY <1>1 DEF Untouched, HeldIsKnown, writeVars, watchedVars
<1>9. ReadingComes'
  BY <1>1, <1>6, <1>7 DEF ReadingComes, Asking
<1>10. LastIsTold'
  BY <1>1, <1>4, <1>6, <1>7 DEF LastIsTold, Asking, watchedVars
<1>11. LastIsShown'
  BY <1>1 DEF LastIsShown, Pending, Running, Displays, writeVars, watchedVars
<1>12. QED
  BY <1>3, <1>5, <1>8, <1>9, <1>10, <1>11

\* What a step that receives leaves alone.
LEMMA ReceivesIs ==
  ASSUME VolumeInv, Receives
  PROVE  /\ Len(told) >= 1 /\ told[1] \in Message /\ link.up
         /\ UNCHANGED <<mixer, writeVars, saved, watchedVars>>
         /\ \/ told[1].what = "settings" /\ loadSettings(told[1].level)
            \/ /\ UNCHANGED volumeEvents /\ link.heard
               /\ \/ told[1].what = "reading" /\ reconcileVolumeWithOS(told[1])
                  \/ told[1].what = "event" /\ volumeChanged(told[1].status)
                  \/ told[1].what = "answer" /\ Answered(told[1].status)
<1> USE DEF VolumeInv, VolumeTypes
<1>1. Len(told) >= 1 /\ told[1] \in Message /\ Head(told) = told[1]
  BY ReceivedIs DEF Receives, ToldTypes
<1>2. link.up
  BY <1>1 DEF OneReading
<1>3. told[1].what # "settings" => link.heard
  BY <1>1, <1>2 DEF OneReading
<1>4. QED
  BY <1>1, <1>2, <1>3 DEF Receives

\* What is behind the first keeps its order.
LEMMA BehindIs ==
  ASSUME told \in Seq(Message), told' \in Seq(Message), Received \/ ReceivedNewer
  PROVE  /\ Len(told) \in Nat /\ Len(told) >= 1 /\ Len(told') = Len(told) - 1
         /\ \A i \in 1 .. Len(told') :
              /\ i + 1 \in 1 .. Len(told)
              /\ told'[i].what = told[i + 1].what
              /\ told[i + 1].what # "reading" => told'[i] = told[i + 1]
         /\ \A k \in 1 .. Len(told) : k # 1 =>
              /\ k - 1 \in 1 .. Len(told')
              /\ told'[k - 1].what = told[k].what
              /\ told[k].what # "reading" => told'[k - 1] = told[k]
<1>1. /\ Len(told) \in Nat /\ Len(told) >= 1 /\ Len(told') = Len(told) - 1
      /\ \A i \in 1 .. Len(told) - 1 :
           /\ told'[i].what = told[i + 1].what
           /\ told[i + 1].what # "reading" => told'[i] = told[i + 1]
  BY DEF Received, ReceivedNewer, Older
<1>2. \A i \in 1 .. Len(told') : i \in 1 .. Len(told) - 1 /\ i + 1 \in 1 .. Len(told)
  BY <1>1
<1>3. \A k \in 1 .. Len(told) : k # 1 => k - 1 \in 1 .. Len(told) - 1 /\ (k - 1) + 1 = k
  BY <1>1
<1>4. QED
  BY <1>1, <1>2, <1>3

\* What is to come, by what was to come.
LEMMA BehindNews ==
  ASSUME VolumeInv, told' \in Seq(Message), Received \/ ReceivedNewer, link.heard
  PROVE  /\ \A j \in 1 .. Len(told') :
              /\ Heard(told'[j]) /\ (\A k \in 1 .. Len(told') : Heard(told'[k]) => k <= j)
                   => told'[j].status = last
              /\ News(told'[j]) /\ (\A k \in 1 .. Len(told') : News(told'[k]) => k <= j) =>
                   \/ told'[j].status.available = last.available
                   \/ /\ ~display.known /\ \A k \in 1 .. Len(told) : ~Heard(told[k])
                      /\ Asking \/ \E k \in 1 .. Len(told) : k > j + 1 /\ Fresh(told[k])
         /\ Heard(told[1]) /\ (\A j \in 1 .. Len(told') : ~Heard(told'[j])) => told[1].status = last
         /\ News(told[1]) /\ (\A j \in 1 .. Len(told') : ~News(told'[j])) =>
              \/ told[1].status.available = last.available
              \/ ~display.known /\ \A k \in 1 .. Len(told) : ~Heard(told[k])
         /\ ~News(told[1]) /\ (\A j \in 1 .. Len(told') : ~News(told'[j]))
              => \A j \in 1 .. Len(told) : ~News(told[j])
         /\ ~Heard(told[1]) /\ (\A j \in 1 .. Len(told') : ~Heard(told'[j]))
              => \A j \in 1 .. Len(told) : ~Heard(told[j])
<1> USE DEF VolumeInv, VolumeTypes, ToldTypes
<1>1. /\ Len(told) \in Nat /\ Len(told) >= 1 /\ Len(told') = Len(told) - 1
      /\ \A i \in 1 .. Len(told') :
           /\ i + 1 \in 1 .. Len(told)
           /\ told'[i].what = told[i + 1].what
           /\ told[i + 1].what # "reading" => told'[i] = told[i + 1]
      /\ \A k \in 1 .. Len(told) : k # 1 =>
           /\ k - 1 \in 1 .. Len(told')
           /\ told'[k - 1].what = told[k].what
           /\ told[k].what # "reading" => told'[k - 1] = told[k]
  BY BehindIs
<1>2. ASSUME NEW j \in 1 .. Len(told'), Heard(told'[j]),
             \A k \in 1 .. Len(told') : Heard(told'[k]) => k <= j
      PROVE  told'[j].status = last
  <2>1. j + 1 \in 1 .. Len(told) /\ Heard(told[j + 1]) /\ told'[j] = told[j + 1]
    BY <1>1, <1>2 DEF Heard
  <2>2. ASSUME NEW k \in 1 .. Len(told), Heard(told[k])
        PROVE  k <= j + 1
    <3>1. k # 1 => k - 1 \in 1 .. Len(told') /\ told'[k - 1].what = told[k].what
      BY <1>1
    <3>2. k # 1 => k - 1 <= j
      BY <1>2, <2>2, <3>1 DEF Heard
    <3>3. QED
      BY <1>1, <3>2
  <2>3. QED
    BY <2>1, <2>2 DEF LastIsTold
<1>3. ASSUME NEW j \in 1 .. Len(told'), News(told'[j]),
             \A k \in 1 .. Len(told') : News(told'[k]) => k <= j
      PROVE  \/ told'[j].status.available = last.available
             \/ /\ ~display.known /\ \A k \in 1 .. Len(told) : ~Heard(told[k])
                /\ Asking \/ \E k \in 1 .. Len(told) : k > j + 1 /\ Fresh(told[k])
  <2>1. j + 1 \in 1 .. Len(told) /\ News(told[j + 1]) /\ told'[j] = told[j + 1]
    BY <1>1, <1>3 DEF News
  <2>2. ASSUME NEW k \in 1 .. Len(told), News(told[k])
        PROVE  k <= j + 1
    <3>1. k # 1 => k - 1 \in 1 .. Len(told') /\ told'[k - 1].what = told[k].what
      BY <1>1
    <3>2. k # 1 => k - 1 <= j
      BY <1>3, <2>2, <3>1 DEF News
    <3>3. QED
      BY <1>1, <3>2
  <2>3. QED
    BY <2>1, <2>2 DEF LastIsTold
<1>4. ASSUME ~Heard(told[1]), \A j \in 1 .. Len(told') : ~Heard(told'[j]),
             NEW k \in 1 .. Len(told)
      PROVE  ~Heard(told[k])
  <2>1. k # 1 => k - 1 \in 1 .. Len(told') /\ told'[k - 1].what = told[k].what
    BY <1>1
  <2>2. QED
    BY <1>4, <2>1 DEF Heard
<1>5. ~News(told[1]) /\ (\A j \in 1 .. Len(told') : ~News(told'[j]))
           => \A j \in 1 .. Len(told) : ~News(told[j])
  BY <1>1 DEF News
<1>6. ASSUME Heard(told[1]), \A j \in 1 .. Len(told') : ~Heard(told'[j])
      PROVE  told[1].status = last
  <2>1. 1 \in 1 .. Len(told) /\ \A k \in 1 .. Len(told) : Heard(told[k]) => k <= 1
    BY <1>1, <1>6 DEF Heard
  <2>2. QED
    BY <1>6, <2>1 DEF LastIsTold
<1>7. ASSUME News(told[1]), \A j \in 1 .. Len(told') : ~News(told'[j])
      PROVE  \/ told[1].status.available = last.available
             \/ ~display.known /\ \A k \in 1 .. Len(told) : ~Heard(told[k])
  <2>1. 1 \in 1 .. Len(told) /\ \A k \in 1 .. Len(told) : News(told[k]) => k <= 1
    BY <1>1, <1>7 DEF News
  <2>2. QED
    BY <1>7, <2>1 DEF LastIsTold
<1>8. QED
  BY <1>2, <1>3, <1>4, <1>5, <1>6, <1>7

\* The reception of a message keeps what does not depend on which it is.
LEMMA ReceptionKeeps ==
  ASSUME VolumeInv, told' \in Seq(Message), Received \/ ReceivedNewer,
         UNCHANGED <<mixer, writeVars, saved, watchedVars>>, link.up,
         volumeEvents' \in 0 .. MaxVolumeEvents
  PROVE  /\ ToldTypes' /\ WriterTypes' /\ WatcherTypes' /\ MixerTypes' /\ Writing' /\ StartIsFirst'
         /\ startup.read # Unsure /\ startup.clean => \A i \in 1 .. Len(told') : ~News(told'[i])
         /\ \A i, j \in 1 .. Len(told') : Opens(told'[i]) /\ Opens(told'[j]) => i = j
         /\ Opens(told[1]) => /\ ~reading.reads
                              /\ \A i \in 1 .. Len(told') : ~Opens(told'[i])
         /\ reading.reads => \A i \in 1 .. Len(told') : ~Opens(told'[i])
         /\ \A i \in 1 .. Len(told') : told'[i].what # "settings"
<1> USE DEF VolumeInv, VolumeTypes
<1>1. /\ Len(told) \in Nat /\ Len(told) >= 1 /\ Len(told') = Len(told) - 1
      /\ \A i \in 1 .. Len(told') :
           i + 1 \in 1 .. Len(told) /\ told'[i].what = told[i + 1].what
  BY BehindIs DEF ToldTypes
<1>2. ToldTypes'
  BY <1>1, VolumeAssumption DEF ToldTypes
<1>3. WriterTypes' /\ WatcherTypes' /\ MixerTypes' /\ Writing' /\ StartIsFirst'
  BY MayKeep
<1>4. startup.read # Unsure /\ startup.clean => \A i \in 1 .. Len(told') : ~News(told'[i])
  BY <1>1 DEF Untouched, News
<1>5. ASSUME NEW i \in 1 .. Len(told'), NEW j \in 1 .. Len(told'), Opens(told'[i]), Opens(told'[j])
      PROVE  i = j
  <2>1. i + 1 = j + 1
    BY <1>1, <1>5 DEF OneReading, Opens
  <2>2. QED
    BY <1>1, <2>1
<1>6. ASSUME Opens(told[1]), NEW i \in 1 .. Len(told') PROVE ~Opens(told'[i])
  <2>1. i + 1 # 1 /\ 1 \in 1 .. Len(told)
    BY <1>1
  <2>2. QED
    BY <1>1, <1>6, <2>1 DEF OneReading, Opens
<1>7. Opens(told[1]) => ~reading.reads
  BY <1>1 DEF OneReading
<1>8. reading.reads => \A i \in 1 .. Len(told') : ~Opens(told'[i])
  BY <1>1 DEF OneReading, Opens
<1>9. \A i \in 1 .. Len(told') : told'[i].what # "settings"
  <2>1. \A i \in 1 .. Len(told') : i + 1 # 1
    BY <1>1
  <2>2. QED
    BY <1>1, <2>1 DEF OneReading
<1>10. QED
  BY <1>2, <1>3, <1>4, <1>5, <1>6, <1>7, <1>8, <1>9

\* The settings: the level that was saved, until a reading comes.
LEMMA SettingsKeep ==
  ASSUME VolumeInv, Receives, told[1].what = "settings", loadSettings(told[1].level)
  PROVE  VolumeInv'
<1> USE DEF VolumeInv, VolumeTypes
<1>1. /\ Len(told) >= 1 /\ told[1] \in Message /\ link.up /\ told # <<>>
      /\ UNCHANGED <<mixer, writeVars, saved, watchedVars>>
  BY ReceivesIs DEF Receives
<1>2. /\ display' = [display EXCEPT !.level = told[1].level, !.known = FALSE]
      /\ link' = [link EXCEPT !.heard = TRUE]
      /\ Asks /\ told' = Tail(told) /\ UNCHANGED <<edit, retry, stray>>
  BY DEF loadSettings
<1>3. told[1].level \in Level
  BY <1>1, MessageIs
<1>4. told' \in Seq(Message) /\ Received
  BY <1>1, <1>2, ReceivedIs DEF ToldTypes
<1>5. /\ reading' \in [reads : BOOLEAN, read : Standing \cup {Unsure}, stale : BOOLEAN]
      /\ reading'.reads /\ Asking' /\ volumeEvents' \in 0 .. MaxVolumeEvents
  BY <1>2, AsksIs
<1>6. /\ display' \in [level : Level, available : BOOLEAN, known : BOOLEAN] /\ ~display'.known
      /\ link' \in [up : BOOLEAN, heard : BOOLEAN] /\ link'.heard /\ link'.up
  BY <1>1, <1>2, <1>3 DEF ClientTypes
<1>7. ClientTypes'
  BY <1>2, <1>5, <1>6 DEF ClientTypes
<1>8. /\ ToldTypes' /\ WriterTypes' /\ WatcherTypes' /\ MixerTypes' /\ Writing' /\ StartIsFirst'
      /\ startup.read # Unsure /\ startup.clean => \A i \in 1 .. Len(told') : ~News(told'[i])
      /\ \A i \in 1 .. Len(told') : ~Opens(told'[i])
  BY <1>1, <1>4, <1>5, ReceptionKeeps DEF Opens
<1>9. 1 \in 1 .. Len(told) /\ ~link.heard
  BY <1>1 DEF OneReading, ToldTypes
<1>10. \A i \in 1 .. Len(told') : told'[i].what = "answer"
  <2>1. \A i \in 1 .. Len(told') : i + 1 \in 1 .. Len(told) /\ told'[i].what = told[i + 1].what
    BY <1>4, BehindIs DEF ToldTypes
  <2>2. \A i \in 1 .. Len(told') : told'[i].what \in {"settings", "answer"}
    BY <1>9, <2>1 DEF OneReading
  <2>3. QED
    BY <1>8, <2>2 DEF Opens
<1>11. Untouched'
  BY <1>1, <1>6, <1>8 DEF Untouched, writeVars, watchedVars
<1>12. OneReading'
  BY <1>6, <1>8 DEF OneReading, Opens
<1>13. ReadingComes'
  BY <1>5, <1>6 DEF ReadingComes
<1>14. LastIsTold'
  BY <1>5, <1>6, <1>10 DEF LastIsTold, Heard
<1>15. LastIsShown' /\ HeldIsKnown'
  BY <1>1, <1>2, <1>6, <1>9 DEF LastIsShown, HeldIsKnown
<1>16. QED
  BY <1>7, <1>8, <1>11, <1>12, <1>13, <1>14, <1>15

\* A reading of an older generation is dropped.
LEMMA StaleKeeps ==
  ASSUME VolumeInv, Receives, told[1].what = "reading", told[1].stale,
         reconcileVolumeWithOS(told[1]), UNCHANGED volumeEvents, link.heard
  PROVE  VolumeInv'
<1> USE DEF VolumeInv, VolumeTypes
<1>1. /\ Len(told) >= 1 /\ told[1] \in Message /\ link.up /\ told # <<>>
      /\ UNCHANGED <<mixer, writeVars, saved, watchedVars>>
  BY ReceivesIs DEF Receives
<1>2. told' = Tail(told) /\ UNCHANGED <<link, reading, edit, display, retry, stray>>
  BY DEF reconcileVolumeWithOS
<1>3. told' \in Seq(Message) /\ Received
  BY <1>1, <1>2, ReceivedIs DEF ToldTypes
<1>4. volumeEvents' \in 0 .. MaxVolumeEvents
  BY DEF MixerTypes
<1>5. /\ ToldTypes' /\ WriterTypes' /\ WatcherTypes' /\ MixerTypes' /\ Writing' /\ StartIsFirst'
      /\ startup.read # Unsure /\ startup.clean => \A i \in 1 .. Len(told') : ~News(told'[i])
      /\ \A i, j \in 1 .. Len(told') : Opens(told'[i]) /\ Opens(told'[j]) => i = j
      /\ reading.reads => \A i \in 1 .. Len(told') : ~Opens(told'[i])
      /\ \A i \in 1 .. Len(told') : told'[i].what # "settings"
  BY <1>1, <1>3, <1>4, ReceptionKeeps
<1>6. ClientTypes' /\ HeldIsKnown'
  BY <1>2 DEF ClientTypes, HeldIsKnown
<1>7. Untouched'
  BY <1>1, <1>2, <1>5 DEF Untouched, writeVars, watchedVars
<1>8. OneReading'
  BY <1>1, <1>2, <1>5 DEF OneReading
<1>9. \A i \in 1 .. Len(told) : ~Fresh(told[i])
  BY <1>1 DEF OneReading, Opens, Fresh, ToldTypes
<1>10. \A i \in 1 .. Len(told') : ~Fresh(told'[i])
  <2>1. \A i \in 1 .. Len(told') : i + 1 \in 1 .. Len(told) /\ told'[i] = told[i + 1]
    BY <1>3 DEF Received, ToldTypes
  <2>2. QED
    BY <1>9, <2>1
<1>11. ReadingComes'
  BY <1>2, <1>9, <1>10 DEF ReadingComes, Asking
<1>12. ~News(told[1]) /\ ~Heard(told[1])
  BY DEF News, Heard
<1>13. LastIsTold'
  <2>1. ASSUME NEW j \in 1 .. Len(told'), Heard(told'[j]),
               \A k \in 1 .. Len(told') : Heard(told'[k]) => k <= j
        PROVE  told'[j].status = last'
    BY <1>1, <1>3, <2>1, BehindNews DEF watchedVars
  <2>2. ASSUME NEW j \in 1 .. Len(told'), News(told'[j]),
               \A k \in 1 .. Len(told') : News(told'[k]) => k <= j
        PROVE  \/ told'[j].status.available = last'.available
               \/ /\ ~display'.known /\ \A k \in 1 .. Len(told') : ~Heard(told'[k])
                  /\ Asking'
    <3>1. \/ told'[j].status.available = last.available
          \/ /\ ~display.known /\ \A k \in 1 .. Len(told) : ~Heard(told[k])
             /\ Asking \/ \E k \in 1 .. Len(told) : k > j + 1 /\ Fresh(told[k])
      BY <1>3, <2>2, BehindNews
    <3>2. (\A k \in 1 .. Len(told) : ~Heard(told[k])) => \A k \in 1 .. Len(told') : ~Heard(told'[k])
      BY <1>3, BehindIs DEF Heard, ToldTypes
    <3>3. Asking' <=> Asking
      BY <1>2 DEF Asking
    <3>4. QED
      BY <1>1, <1>2, <1>9, <3>1, <3>2, <3>3 DEF watchedVars
  <2>3. QED
    BY <2>1, <2>2 DEF LastIsTold
<1>14. LastIsShown'
  <2>1. /\ (\A j \in 1 .. Len(told') : ~News(told'[j])) => \A j \in 1 .. Len(told) : ~News(told[j])
        /\ (\A j \in 1 .. Len(told') : ~Heard(told'[j])) => \A j \in 1 .. Len(told) : ~Heard(told[j])
    BY <1>3, <1>12, BehindNews
  <2>2. QED
    BY <1>1, <1>2, <2>1 DEF LastIsShown, Pending, Running, Displays, writeVars, watchedVars
<1>15. QED
  BY <1>5, <1>6, <1>7, <1>8, <1>11, <1>13, <1>14

\* A reading that counts: the client did not know the mixer, and asks again if
\* it still does not.
LEMMA FreshKeeps ==
  ASSUME VolumeInv, Receives, told[1].what = "reading", ~told[1].stale,
         reconcileVolumeWithOS(told[1]), UNCHANGED volumeEvents, link.heard
  PROVE  VolumeInv'
<1> USE DEF VolumeInv, VolumeTypes
<1> DEFINE status == told[1].status
           known == told[1].known
<1>1. /\ Len(told) >= 1 /\ told[1] \in Message /\ link.up /\ told # <<>>
      /\ UNCHANGED <<mixer, writeVars, saved, watchedVars>>
  BY ReceivesIs DEF Receives
<1>2. /\ display' = [level |-> IF status.available THEN status.level ELSE display.level,
                     available |-> status.available, known |-> display.known \/ known]
      /\ retry' = (retry \/ ~known) /\ stray' = (known /\ status # last)
      /\ told' = Tail(told) /\ UNCHANGED <<link, reading, edit>>
  BY DEF reconcileVolumeWithOS
<1>3. known \in BOOLEAN /\ status \in Answer
  BY <1>1, MessageIs
<1>4. /\ status \in VolumeStatus /\ status.available \in BOOLEAN /\ status # Unsure
      /\ status.available => status.level \in Level
  BY <1>3 DEF Answer, VolumeStatus, Unsure
<1> HIDE DEF status, known
<1>5. told' \in Seq(Message) /\ Received
  BY <1>1, <1>2, ReceivedIs DEF ToldTypes
<1>6. volumeEvents' \in 0 .. MaxVolumeEvents
  BY DEF MixerTypes
<1>7. Opens(told[1]) /\ Fresh(told[1]) /\ 1 \in 1 .. Len(told)
  BY <1>1 DEF Opens, Fresh, ToldTypes
<1>8. /\ ToldTypes' /\ WriterTypes' /\ WatcherTypes' /\ MixerTypes' /\ Writing' /\ StartIsFirst'
      /\ startup.read # Unsure /\ startup.clean => \A i \in 1 .. Len(told') : ~News(told'[i])
      /\ ~reading.reads
      /\ \A i \in 1 .. Len(told') : ~Opens(told'[i])
  BY <1>1, <1>5, <1>6, <1>7, ReceptionKeeps
<1>9. ~display.known /\ edit.held = NoLevel
  BY <1>1, <1>7 DEF ReadingComes, HeldIsKnown
<1>10. ClientTypes' /\ HeldIsKnown'
  <2>1. display' \in [level : Level, available : BOOLEAN, known : BOOLEAN]
    BY <1>2, <1>3, <1>4 DEF ClientTypes
  <2>2. retry' \in BOOLEAN /\ stray' \in BOOLEAN
    BY <1>2, <1>3 DEF ClientTypes
  <2>3. QED
    BY <1>2, <1>9, <2>1, <2>2 DEF ClientTypes, HeldIsKnown
<1>11. display'.known <=> known
  BY <1>2, <1>3, <1>9
<1>12. Untouched'
  BY <1>1, <1>2, <1>4, <1>8, <1>11 DEF Untouched, writeVars, watchedVars
<1>13. OneReading'
  BY <1>1, <1>2, <1>8 DEF OneReading, Opens
<1>14. ~Asking' /\ ~Asking
  BY <1>2, <1>8 DEF Asking
<1>15. \A i \in 1 .. Len(told') : ~Fresh(told'[i])
  BY <1>8 DEF Opens, Fresh
<1>16. ReadingComes'
  BY <1>2, <1>3, <1>11, <1>14, <1>15 DEF ReadingComes
<1>17. ~News(told[1]) /\ ~Heard(told[1])
  BY DEF News, Heard
<1>18. LastIsTold'
  <2>1. ASSUME NEW j \in 1 .. Len(told'), Heard(told'[j]),
               \A k \in 1 .. Len(told') : Heard(told'[k]) => k <= j
        PROVE  told'[j].status = last'
    BY <1>1, <1>5, <2>1, BehindNews DEF watchedVars
  <2>2. ASSUME NEW j \in 1 .. Len(told'), News(told'[j]),
               \A k \in 1 .. Len(told') : News(told'[k]) => k <= j
        PROVE  told'[j].status.available = last'.available
    <3>1. \/ told'[j].status.available = last.available
          \/ Asking \/ \E k \in 1 .. Len(told) : k > j + 1 /\ Fresh(told[k])
      BY <1>5, <2>2, BehindNews
    <3>2. \A k \in 1 .. Len(told) : k > j + 1 => ~Fresh(told[k])
      BY <1>7 DEF OneReading, Opens, Fresh
    <3>3. QED
      BY <1>1, <1>14, <3>1, <3>2 DEF watchedVars
  <2>3. QED
    BY <2>1, <2>2 DEF LastIsTold
<1>19. LastIsShown'
  <2>1. known /\ ~stray' => status = last
    BY <1>2, <1>3
  <2>2. known /\ ~stray' => display'.available = last.available
          /\ (last.available => display'.level = last.level)
    BY <1>2, <2>1
  <2>3. QED
    BY <1>1, <1>2, <1>9, <1>11, <2>2 DEF LastIsShown, Displays, watchedVars
<1>20. QED
  BY <1>8, <1>10, <1>12, <1>13, <1>16, <1>18, <1>19

\* An answer to setVolume, or an event without a level, says whether there is a
\* device.
LEMMA DeviceKeeps ==
  ASSUME VolumeInv, Receives, told[1].what \in {"event", "answer"},
         Heard(told[1]) => told[1].status.level = NoLevel,
         Answered(told[1].status), UNCHANGED volumeEvents, link.heard
  PROVE  VolumeInv'
<1> USE DEF VolumeInv, VolumeTypes
<1>1. /\ Len(told) >= 1 /\ told[1] \in Message /\ link.up /\ told # <<>>
      /\ UNCHANGED <<mixer, writeVars, saved, watchedVars>>
  BY ReceivesIs DEF Receives
<1>2. /\ display' = [display EXCEPT !.available = told[1].status.available]
      /\ told' = Tail(told) /\ UNCHANGED <<link, reading, edit, retry, stray>>
  BY DEF Answered
<1>3. News(told[1]) /\ ~Opens(told[1]) /\ ~Fresh(told[1])
  BY DEF News, Opens, Fresh
<1>4. told[1].status.available \in BOOLEAN
  BY <1>1, <1>3, MessageIs DEF VolumeStatus
<1>5. told' \in Seq(Message) /\ Received
  BY <1>1, <1>2, ReceivedIs DEF ToldTypes
<1>6. volumeEvents' \in 0 .. MaxVolumeEvents
  BY DEF MixerTypes
<1>7. /\ display' \in [level : Level, available : BOOLEAN, known : BOOLEAN]
      /\ display'.known = display.known /\ display'.level = display.level
      /\ display'.available = told[1].status.available
  BY <1>2, <1>4 DEF ClientTypes
<1>8. /\ ToldTypes' /\ WriterTypes' /\ WatcherTypes' /\ MixerTypes' /\ Writing' /\ StartIsFirst'
      /\ startup.read # Unsure /\ startup.clean => \A i \in 1 .. Len(told') : ~News(told'[i])
      /\ \A i, j \in 1 .. Len(told') : Opens(told'[i]) /\ Opens(told'[j]) => i = j
      /\ reading.reads => \A i \in 1 .. Len(told') : ~Opens(told'[i])
      /\ \A i \in 1 .. Len(told') : told'[i].what # "settings"
  BY <1>1, <1>5, <1>6, ReceptionKeeps
<1>9. ClientTypes' /\ HeldIsKnown'
  BY <1>2, <1>7 DEF ClientTypes, HeldIsKnown
<1>10. Untouched'
  BY <1>1, <1>2, <1>7, <1>8 DEF Untouched, writeVars, watchedVars
<1>11. OneReading'
  BY <1>1, <1>2, <1>8 DEF OneReading
<1>12. /\ Len(told) \in Nat /\ Len(told') = Len(told) - 1
       /\ \A i \in 1 .. Len(told') : i + 1 \in 1 .. Len(told) /\ told'[i] = told[i + 1]
  BY <1>5 DEF Received, ToldTypes
<1>13. \A k \in 1 .. Len(told) : Fresh(told[k]) =>
         k - 1 \in 1 .. Len(told') /\ Fresh(told'[k - 1])
  <2>1. ASSUME NEW k \in 1 .. Len(told), Fresh(told[k])
        PROVE  k - 1 \in 1 .. Len(told') /\ told'[k - 1] = told[k]
    <3>1. k # 1
      BY <1>3, <2>1
    <3>2. k - 1 \in 1 .. Len(told') /\ (k - 1) + 1 = k
      BY <1>12, <3>1
    <3>3. QED
      BY <1>12, <3>2
  <2>2. QED
    BY <2>1
<1>14. Asking' <=> Asking
  BY <1>2 DEF Asking
<1>15. ReadingComes'
  <2>1. (\E i \in 1 .. Len(told) : Fresh(told[i])) => \E i \in 1 .. Len(told') : Fresh(told'[i])
    BY <1>13
  <2>2. (\A i \in 1 .. Len(told) : ~Fresh(told[i])) => \A i \in 1 .. Len(told') : ~Fresh(told'[i])
    BY <1>12
  <2>3. QED
    BY <1>2, <1>7, <1>14, <2>1, <2>2 DEF ReadingComes
<1>16. LastIsTold'
  <2>1. ASSUME NEW j \in 1 .. Len(told'), Heard(told'[j]),
               \A k \in 1 .. Len(told') : Heard(told'[k]) => k <= j
        PROVE  told'[j].status = last'
    BY <1>1, <1>5, <2>1, BehindNews DEF watchedVars
  <2>2. ASSUME NEW j \in 1 .. Len(told'), News(told'[j]),
               \A k \in 1 .. Len(told') : News(told'[k]) => k <= j
        PROVE  \/ told'[j].status.available = last'.available
               \/ /\ ~display'.known /\ \A k \in 1 .. Len(told') : ~Heard(told'[k])
                  /\ Asking' \/ \E k \in 1 .. Len(told') : k > j /\ Fresh(told'[k])
    <3>1. \/ told'[j].status.available = last.available
          \/ /\ ~display.known /\ \A k \in 1 .. Len(told) : ~Heard(told[k])
             /\ Asking \/ \E k \in 1 .. Len(told) : k > j + 1 /\ Fresh(told[k])
      BY <1>5, <2>2, BehindNews
    <3>2. (\A k \in 1 .. Len(told) : ~Heard(told[k])) => \A k \in 1 .. Len(told') : ~Heard(told'[k])
      BY <1>12
    <3>3. (\E k \in 1 .. Len(told) : k > j + 1 /\ Fresh(told[k]))
            => \E k \in 1 .. Len(told') : k > j /\ Fresh(told'[k])
      <4>1. ASSUME NEW k \in 1 .. Len(told), k > j + 1, Fresh(told[k])
            PROVE  k - 1 \in 1 .. Len(told') /\ k - 1 > j /\ Fresh(told'[k - 1])
        BY <1>13, <4>1
      <4>2. QED
        BY <4>1
    <3>4. QED
      BY <1>1, <1>7, <1>14, <3>1, <3>2, <3>3 DEF watchedVars
  <2>3. QED
    BY <2>1, <2>2 DEF LastIsTold
<1>17. LastIsShown'
  <2>1. display.known /\ (\A j \in 1 .. Len(told') : ~News(told'[j]))
          => told[1].status.available = last.available
    BY <1>3, <1>5, BehindNews
  <2>2. (\A j \in 1 .. Len(told') : ~Heard(told'[j]))
          => (\A j \in 1 .. Len(told) : ~Heard(told[j])) \/ last.level = NoLevel
    BY <1>5, BehindNews
  <2>3. QED
    BY <1>1, <1>2, <1>7, <2>1, <2>2 DEF LastIsShown, Pending, Running, Displays, writeVars, watchedVars
<1>18. QED
  BY <1>8, <1>9, <1>10, <1>11, <1>15, <1>16, <1>17

\* An event with a level, or of no device: what is on the way is outdated, and
\* the level is shown, or held back while the user adjusts.
LEMMA LevelKeeps ==
  ASSUME VolumeInv, Receives, told[1].what = "event",
         ~(told[1].status.available /\ told[1].status.level = NoLevel),
         volumeChanged(told[1].status), UNCHANGED volumeEvents, link.heard
  PROVE  VolumeInv'
<1> USE DEF VolumeInv, VolumeTypes
<1> DEFINE status == told[1].status
<1>1. /\ Len(told) >= 1 /\ told[1] \in Message /\ link.up /\ told # <<>>
      /\ UNCHANGED <<mixer, writeVars, saved, watchedVars>>
  BY ReceivesIs DEF Receives
<1>2. /\ display' = Displayed(status)
      /\ edit' = (IF status.available
                  THEN [edit EXCEPT !.held = IF edit.guard THEN status.level ELSE NoLevel]
                  ELSE edit)
      /\ told' = Outdated(Tail(told))
      /\ reading' = [reading EXCEPT !.stale = reading.reads]
      /\ retry' = FALSE /\ UNCHANGED <<link, stray>>
  BY DEF volumeChanged
<1>3. News(told[1]) /\ Heard(told[1]) /\ 1 \in 1 .. Len(told)
  BY <1>1 DEF News, Heard, ToldTypes
<1>4. /\ status.available \in BOOLEAN
      /\ status.available => status.level \in Level /\ status.level # NoLevel
  BY <1>1, <1>3, MessageIs, LevelIs DEF VolumeStatus
<1>5. told' \in Seq(Message) /\ ReceivedNewer
  BY <1>1, <1>2, ReceivedIs DEF ToldTypes
<1>6. volumeEvents' \in 0 .. MaxVolumeEvents
  BY DEF MixerTypes
<1>7. /\ ToldTypes' /\ WriterTypes' /\ WatcherTypes' /\ MixerTypes' /\ Writing' /\ StartIsFirst'
      /\ \A i, j \in 1 .. Len(told') : Opens(told'[i]) /\ Opens(told'[j]) => i = j
      /\ reading.reads => \A i \in 1 .. Len(told') : ~Opens(told'[i])
      /\ \A i \in 1 .. Len(told') : told'[i].what # "settings"
  BY <1>1, <1>5, <1>6, ReceptionKeeps
<1>8. (\A j \in 1 .. Len(told') : ~Heard(told'[j])) => status = last
  BY <1>3, <1>5, BehindNews
<1>9. (\A j \in 1 .. Len(told') : ~News(told'[j])) => status.available = last.available
  BY <1>3, <1>5, BehindNews
<1> HIDE DEF status
<1>10. /\ display' \in [level : Level, available : BOOLEAN, known : BOOLEAN]
       /\ display'.known /\ display'.available = status.available
       /\ display'.level = IF status.available /\ ~edit.guard THEN status.level ELSE display.level
  BY <1>2, <1>4 DEF Displayed, ClientTypes
<1>11. /\ edit' \in [send : Level \cup {NoLevel}, guard : BOOLEAN, held : Level \cup {NoLevel}]
       /\ status.available => edit'.held = IF edit.guard THEN status.level ELSE NoLevel
  BY <1>2, <1>4 DEF ClientTypes
<1>12. /\ reading' \in [reads : BOOLEAN, read : Standing \cup {Unsure}, stale : BOOLEAN]
       /\ reading'.reads = reading.reads /\ ~Asking'
  BY <1>2 DEF ClientTypes, Asking
<1>13. ClientTypes' /\ HeldIsKnown'
  BY <1>2, <1>10, <1>11, <1>12 DEF ClientTypes, HeldIsKnown
<1>14. Untouched'
  BY <1>1, <1>3 DEF Untouched, watchedVars
<1>15. OneReading'
  BY <1>1, <1>2, <1>7, <1>12 DEF OneReading
<1>16. \A i \in 1 .. Len(told') : ~Fresh(told'[i])
  <2>1. \A i \in 1 .. Len(told') : told'[i].what = "reading" => told'[i].stale
    BY <1>5 DEF ReceivedNewer, Older, ToldTypes
  <2>2. QED
    BY <2>1 DEF Fresh
<1>17. ReadingComes'
  BY <1>2, <1>10, <1>12, <1>16 DEF ReadingComes
<1>18. LastIsTold'
  <2>1. ASSUME NEW j \in 1 .. Len(told'), Heard(told'[j]),
               \A k \in 1 .. Len(told') : Heard(told'[k]) => k <= j
        PROVE  told'[j].status = last'
    BY <1>1, <1>5, <2>1, BehindNews DEF watchedVars
  <2>2. ASSUME NEW j \in 1 .. Len(told'), News(told'[j]),
               \A k \in 1 .. Len(told') : News(told'[k]) => k <= j
        PROVE  told'[j].status.available = last'.available
    <3>1. \/ told'[j].status.available = last.available
          \/ \A k \in 1 .. Len(told) : ~Heard(told[k])
      BY <1>5, <2>2, BehindNews
    <3>2. QED
      BY <1>1, <1>3, <3>1 DEF watchedVars
  <2>3. QED
    BY <2>1, <2>2 DEF LastIsTold
<1>19. LastIsShown'
  BY <1>1, <1>4, <1>8, <1>9, <1>10, <1>11 DEF LastIsShown, Displays, watchedVars
<1>20. QED
  BY <1>7, <1>13, <1>14, <1>15, <1>17, <1>18, <1>19

LEMMA ReceivesKeeps ==
  ASSUME VolumeInv, Receives
  PROVE  VolumeInv'
<1>1. \/ told[1].what = "settings" /\ loadSettings(told[1].level)
      \/ /\ UNCHANGED volumeEvents /\ link.heard
         /\ \/ told[1].what = "reading" /\ reconcileVolumeWithOS(told[1])
            \/ told[1].what = "event" /\ volumeChanged(told[1].status)
            \/ told[1].what = "answer" /\ Answered(told[1].status)
  BY ReceivesIs
<1>2. CASE told[1].what = "settings" /\ loadSettings(told[1].level)
  BY <1>2, SettingsKeep
<1>3. CASE UNCHANGED volumeEvents /\ link.heard /\ told[1].what = "reading"
             /\ reconcileVolumeWithOS(told[1])
  BY <1>3, StaleKeeps, FreshKeeps
<1>4. CASE UNCHANGED volumeEvents /\ link.heard /\ told[1].what = "event"
             /\ volumeChanged(told[1].status)
  <2>1. CASE told[1].status.available /\ told[1].status.level = NoLevel
    <3>1. display' = [display EXCEPT !.available = TRUE] /\ told' = Tail(told)
          /\ UNCHANGED <<link, reading, edit, retry, stray>>
      BY <1>4, <2>1 DEF volumeChanged
    <3>2. told[1].status.available = TRUE
      <4>1. told[1] \in Message
        BY ReceivesIs
      <4>2. told[1].status.available \in BOOLEAN
        BY <1>4, <4>1, MessageIs DEF News, VolumeStatus
      <4>3. QED
        BY <2>1, <4>2
    <3>3. Answered(told[1].status)
      BY <3>1, <3>2 DEF Answered
    <3>4. QED
      BY <1>4, <2>1, <3>3, DeviceKeeps
  <2>2. CASE ~(told[1].status.available /\ told[1].status.level = NoLevel)
    BY <1>4, <2>2, LevelKeeps
  <2>3. QED
    BY <2>1, <2>2
<1>5. CASE UNCHANGED volumeEvents /\ link.heard /\ told[1].what = "answer"
             /\ Answered(told[1].status)
  BY <1>5, DeviceKeeps DEF Heard
<1>6. QED
  BY <1>1, <1>2, <1>3, <1>4, <1>5

\* An adjustment starts from the level that is shown, and is to be sent.
LEMMA AdjustsKeeps ==
  ASSUME VolumeInv, Adjusts
  PROVE  VolumeInv'
<1> USE DEF VolumeInv, VolumeTypes
<1>1. /\ display.known /\ told' = Outdated(told) /\ retry' = FALSE
      /\ reading' = [reading EXCEPT !.stale = reading.reads]
      /\ UNCHANGED <<mixer, writeVars, saved, watchedVars, link, stray>>
      /\ volumeEvents' \in 0 .. MaxVolumeEvents
  BY EventCounts DEF Adjusts
<1>2. PICK level \in {Min({MaxLevel, display.level + 1}), Max({0, display.level - 1})} :
           /\ display' = [display EXCEPT !.level = level]
           /\ edit' = [send |-> level, guard |-> TRUE, held |-> NoLevel]
  BY DEF Adjusts
<1>3. level \in Level /\ level # NoLevel
  BY StepIs, LevelIs DEF ClientTypes
<1>4. /\ display' \in [level : Level, available : BOOLEAN, known : BOOLEAN]
      /\ display'.known /\ display'.available = display.available
      /\ edit' \in [send : Level \cup {NoLevel}, guard : BOOLEAN, held : Level \cup {NoLevel}]
      /\ edit'.send # NoLevel /\ edit'.held = NoLevel
  BY <1>1, <1>2, <1>3 DEF ClientTypes
<1>5. /\ reading' \in [reads : BOOLEAN, read : Standing \cup {Unsure}, stale : BOOLEAN]
      /\ reading'.reads = reading.reads /\ ~Asking'
  BY <1>1 DEF ClientTypes, Asking
<1>6. /\ told' \in Seq(Message) /\ Len(told') = Len(told) /\ Len(told) \in Nat
      /\ \A i \in 1 .. Len(told) : Older(told[i], told'[i])
  BY <1>1, OutdatedIs DEF ToldTypes
<1>7. VolumeTypes' /\ Writing' /\ StartIsFirst'
  <2>1. ClientTypes' /\ ToldTypes'
    BY <1>1, <1>4, <1>5, <1>6 DEF ClientTypes, ToldTypes
  <2>2. QED
    BY <1>1, <2>1, MayKeep
<1>8. \A i \in 1 .. Len(told) :
        /\ told'[i].what = told[i].what
        /\ told[i].what # "reading" => told'[i] = told[i]
        /\ ~Fresh(told'[i])
  BY <1>6 DEF Older, Fresh
<1>9. Untouched'
  BY <1>1, <1>4, <1>6, <1>8 DEF Untouched, News, writeVars, watchedVars
<1>10. OneReading'
  BY <1>1, <1>5, <1>6, <1>8 DEF OneReading, Opens
<1>11. ReadingComes' /\ HeldIsKnown'
  BY <1>4, <1>5, <1>6, <1>8 DEF ReadingComes, HeldIsKnown
<1>12. LastIsTold'
  <2>1. \A i \in 1 .. Len(told) :
          /\ Heard(told'[i]) <=> Heard(told[i])
          /\ News(told'[i]) <=> News(told[i])
          /\ News(told[i]) \/ Heard(told[i]) => told'[i] = told[i]
    BY <1>8 DEF Heard, News
  <2>2. QED
    BY <1>1, <1>6, <2>1 DEF LastIsTold, watchedVars
<1>13. LastIsShown'
  <2>1. \A i \in 1 .. Len(told) : News(told'[i]) <=> News(told[i])
    BY <1>8 DEF News
  <2>2. Pending'
    BY <1>4 DEF Pending
  <2>3. QED
    BY <1>1, <1>4, <1>6, <2>1, <2>2 DEF LastIsShown, watchedVars
<1>14. QED
  BY <1>7, <1>9, <1>10, <1>11, <1>12, <1>13

LEMMA EditKeeps ==
  ASSUME VolumeInv, GuardEnds \/ DeferredShows
  PROVE  VolumeInv'
<1> USE DEF VolumeInv, VolumeTypes
<1>1. /\ UNCHANGED <<mixer, writeVars, saved, watchedVars, told, link, reading, retry, stray,
                     volumeEvents>>
  BY DEF GuardEnds, DeferredShows
<1>2. /\ display' \in [level : Level, available : BOOLEAN, known : BOOLEAN]
      /\ edit' \in [send : Level \cup {NoLevel}, guard : BOOLEAN, held : Level \cup {NoLevel}]
      /\ display'.known = display.known /\ display'.available = display.available
      /\ edit'.send = edit.send /\ edit'.held \in {edit.held, NoLevel}
      /\ \A level : Displays(level)' <=> Displays(level)
  <2>1. CASE GuardEnds
    BY <2>1 DEF GuardEnds, ClientTypes, Displays
  <2>2. CASE DeferredShows
    <3>1. /\ edit.held \in Level /\ edit.held # NoLevel
          /\ display' = [display EXCEPT !.level = edit.held]
          /\ edit' = [edit EXCEPT !.held = NoLevel]
      BY <2>2 DEF DeferredShows, ClientTypes
    <3>2. QED
      BY <3>1 DEF ClientTypes, Displays
  <2>3. QED
    BY <2>1, <2>2
<1>3. VolumeTypes' /\ Writing' /\ StartIsFirst'
  <2>1. ClientTypes' /\ ToldTypes' /\ MixerTypes'
    BY <1>1, <1>2 DEF ClientTypes, ToldTypes, MixerTypes, writeVars
  <2>2. QED
    BY <1>1, <2>1, MayKeep
<1>4. Untouched'
  BY <1>1, <1>2 DEF Untouched, writeVars, watchedVars
<1>5. OneReading'
  BY <1>1 DEF OneReading
<1>6. ReadingComes'
  BY <1>1, <1>2 DEF ReadingComes, Asking
<1>7. LastIsTold'
  BY <1>1, <1>2 DEF LastIsTold, Asking, watchedVars
<1>8. LastIsShown'
  <2>1. /\ UNCHANGED <<link, told, last, stray, saving, writer>>
    BY <1>1 DEF writeVars, watchedVars
  <2>2. Pending' <=> Pending
    BY <1>2, <2>1 DEF Pending, Running
  <2>3. Displays(last.level)' <=> Displays(last.level)
    BY <1>2, <2>1 DEF Displays
  <2>4. QED
    BY <1>2, <2>1, <2>2, <2>3 DEF LastIsShown
<1>9. HeldIsKnown'
  BY <1>1, <1>2 DEF HeldIsKnown
<1>10. QED
  BY <1>3, <1>4, <1>5, <1>6, <1>7, <1>8, <1>9

\* Who asked before the connection was lost is somebody else's when it is back.
LEMMA LosesKeeps ==
  ASSUME VolumeInv, LosesConnection
  PROVE  VolumeInv'
<1> USE DEF VolumeInv, VolumeTypes
<1> DEFINE gone(askers) == IF "client" \in askers THEN (askers \ {"client"}) \cup {"other"}
                           ELSE askers
<1>1. /\ link' = [up |-> FALSE, heard |-> FALSE] /\ told' = <<>> /\ reading' = NoReading
      /\ writer' = [writer EXCEPT !.first = gone(@), !.served = gone(@), !.waiting = gone(@)]
      /\ saving' = [i \in DOMAIN saving |-> [saving[i] EXCEPT !.by = "other"]]
      /\ UNCHANGED <<mixer, landing, newest, saved, watchedVars, display, edit, retry, stray>>
      /\ volumeEvents' \in 0 .. MaxVolumeEvents
  BY EventCounts DEF LosesConnection
<1>2. \A askers \in SUBSET Asker : gone(askers) \in SUBSET Asker /\ (askers # {} => gone(askers) # {})
  BY DEF Asker
<1>3. gone({}) = {}
  OBVIOUS
<1> HIDE DEF gone
<1>4. /\ writer' \in [now : Level \cup {NoLevel}, first : SUBSET Asker, served : SUBSET Asker,
                      queued : Level \cup {NoLevel}, waiting : SUBSET Asker, settling : BOOLEAN]
      /\ writer'.now = writer.now /\ writer'.queued = writer.queued
      /\ writer.first # {} => writer'.first # {}
  BY <1>1, <1>2 DEF WriterTypes
<1>5. saving' \in Seq(LevelCall)
  <2>1. DOMAIN saving = 1 .. Len(saving) /\ Len(saving) \in Nat
        /\ \A i \in 1 .. Len(saving) : saving[i] \in LevelCall
    BY DEF WriterTypes
  <2>2. \A i \in 1 .. Len(saving) : [saving[i] EXCEPT !.by = "other"] \in LevelCall
    BY <2>1 DEF LevelCall, Asker
  <2>3. QED
    BY <1>1, <2>1, <2>2
<1>6. ASSUME writer = NoWrite
      PROVE  writer' = NoWrite
  <2>1. writer.first = {} /\ writer.served = {} /\ writer.waiting = {}
    BY <1>6 DEF NoWrite
  <2>2. writer' = [writer EXCEPT !.first = {}, !.served = {}, !.waiting = {}]
    BY <1>1, <1>3, <2>1
  <2>3. QED
    BY <1>6, <2>2 DEF NoWrite
<1>7. saving = <<>> => saving' = <<>>
  BY <1>1
<1>8. VolumeTypes'
  <2>1. MixerTypes' /\ WatcherTypes' /\ ToldTypes'
    BY <1>1, VolumeAssumption DEF MixerTypes, WatcherTypes, ToldTypes, watchedVars
  <2>2. WriterTypes'
    BY <1>1, <1>4, <1>5 DEF WriterTypes
  <2>3. ClientTypes'
    BY <1>1, NoReadingIs DEF ClientTypes
  <2>4. QED
    BY <2>1, <2>2, <2>3
<1>9. Writing' /\ StartIsFirst'
  BY <1>1, <1>4 DEF Writing, Running, LatestIsWritten, StartIsFirst, watchedVars
<1>10. Untouched'
  BY <1>1, <1>6, <1>7 DEF Untouched, watchedVars
<1>11. OneReading'
  BY <1>1, NoReadingIs DEF OneReading
<1>12. ReadingComes' /\ LastIsTold' /\ LastIsShown' /\ HeldIsKnown'
  BY <1>1 DEF ReadingComes, LastIsTold, LastIsShown, HeldIsKnown
<1>13. QED
  BY <1>8, <1>9, <1>10, <1>11, <1>12

-----------------------------------------------------------------------------
(* The invariant.                                                          *)

LEMMA VolumeInitHolds ==
  ASSUME VolumeInit
  PROVE  VolumeInv
<1> USE DEF VolumeInit
<1>1. 1 \in Level /\ 0 \in Level /\ mixer \in Standing
  BY LevelIs DEF Standing, VolumeStatus
<1>2. startup \in [read : Standing \cup {Unsure}, clean : BOOLEAN]
  <2>1. PICK s \in {mixer, Unsure} : startup = [read |-> s, clean |-> TRUE]
    OBVIOUS
  <2>2. s \in Standing \cup {Unsure}
    BY <1>1
  <2>3. QED
    BY <2>1, <2>2
<1>3. writer \in [now : Level \cup {NoLevel}, first : SUBSET Asker, served : SUBSET Asker,
                  queued : Level \cup {NoLevel}, waiting : SUBSET Asker, settling : BOOLEAN]
  BY DEF NoWrite
<1>4. watcher \in [reads : BOOLEAN, read : Standing \cup {Unsure}, again : BOOLEAN]
  BY DEF NoPoll
<1>5. MixerTypes /\ WriterTypes /\ WatcherTypes
  BY <1>1, <1>2, <1>3, <1>4, StatusIs, VolumeAssumption DEF MixerTypes, WriterTypes, WatcherTypes
<1>6. ClientTypes /\ ToldTypes
  <2>1. /\ link \in [up : BOOLEAN, heard : BOOLEAN]
        /\ display \in [level : Level, available : BOOLEAN, known : BOOLEAN]
        /\ edit \in [send : Level \cup {NoLevel}, guard : BOOLEAN, held : Level \cup {NoLevel}]
    BY <1>1
  <2>2. told \in Seq(Message) /\ Len(told) = 0
    OBVIOUS
  <2>3. retry \in BOOLEAN /\ stray \in BOOLEAN /\ reading = NoReading
    OBVIOUS
  <2>4. QED
    BY <2>1, <2>2, <2>3, NoReadingIs, VolumeAssumption DEF ClientTypes, ToldTypes
<1>7. Writing /\ Untouched /\ StartIsFirst
  BY DEF Writing, Running, LatestIsWritten, NoWrite, NoPoll, Untouched, StartIsFirst
<1>8. OneReading /\ ReadingComes /\ LastIsTold /\ LastIsShown /\ HeldIsKnown
  BY NoReadingIs DEF OneReading, ReadingComes, LastIsTold, LastIsShown, HeldIsKnown
<1>9. QED
  BY <1>5, <1>6, <1>7, <1>8 DEF VolumeInv, VolumeTypes

LEMMA VolumeNextHolds ==
  ASSUME VolumeInv, [VolumeNext]_volumeVars
  PROVE  VolumeInv'
<1>1. CASE Turns \/ Lands \/ PollStarts
  BY <1>1, MixerKeeps
<1>2. CASE OtherSets \/ syncVolumeToBackend
  BY <1>2, SetKeeps
<1>3. CASE run
  BY <1>3, RunKeeps
<1>4. CASE WriteEnds
  BY <1>4, WriteEndsKeeps
<1>5. CASE WriteSettles
  BY <1>5, SettlesKeeps
<1>6. CASE Adopts
  BY <1>6, AdoptsKeeps
<1>7. CASE PollEnds \/ MonitorTells
  BY <1>7, WatcherKeeps
<1>8. CASE getVolume
  BY <1>8, GetVolumeKeeps
<1>9. CASE Connects
  BY <1>9, ConnectsKeeps
<1>10. CASE RetryFires
  BY <1>10, RetryKeeps
<1>11. CASE Receives
  BY <1>11, ReceivesKeeps
<1>12. CASE Adjusts
  BY <1>12, AdjustsKeeps
<1>13. CASE GuardEnds \/ DeferredShows
  BY <1>13, EditKeeps
<1>14. CASE LosesConnection
  BY <1>14, LosesKeeps
<1>15. CASE UNCHANGED volumeVars
  <2>1. /\ UNCHANGED relatedVars /\ UNCHANGED <<mixer, landing, saved, lastKnown, watcher, volumeEvents>>
    BY <1>15 DEF volumeVars, relatedVars, writeVars, watchedVars, volumeClientVars
  <2>2. VolumeTypes' /\ StartIsFirst'
    BY <2>1 DEF VolumeInv, VolumeTypes, MixerTypes, WriterTypes, WatcherTypes, ClientTypes, ToldTypes,
       StartIsFirst, relatedVars
  <2>3. QED
    BY <2>1, <2>2, RelatedStay DEF VolumeInv
<1>16. QED
  BY <1>1, <1>2, <1>3, <1>4, <1>5, <1>6, <1>7, <1>8, <1>9, <1>10, <1>11, <1>12, <1>13, <1>14, <1>15
     DEF VolumeNext

LEMMA VolumeIsSafe ==
  ASSUME VolumeInv
  PROVE  VolumeTypeOK /\ LatestIsWritten /\ ShownIsMixer
<1> USE DEF VolumeInv, VolumeTypes
<1>1. LatestIsWritten
  BY DEF Writing
<1>2. VolumeTypeOK
  <2>1. Standing \cup {Unsure} \subseteq VolumeStatus
    BY StatusIs
  <2>2. /\ startup \in [read : VolumeStatus, clean : BOOLEAN]
        /\ watcher \in [reads : BOOLEAN, read : VolumeStatus, again : BOOLEAN]
        /\ reading \in [reads : BOOLEAN, read : VolumeStatus, stale : BOOLEAN]
    BY <2>1 DEF WatcherTypes, ClientTypes
  <2>3. mixer \in VolumeStatus
    BY <2>1 DEF MixerTypes
  <2>4. Len(told) <= MaxTold + 2
    BY VolumeAssumption DEF ToldTypes
  <2>5. QED
    BY <2>2, <2>3, <2>4
       DEF VolumeTypeOK, MixerTypes, WriterTypes, WatcherTypes, ClientTypes
<1>3. ASSUME AtRest, last = mixer, ~stray
      PROVE  /\ display.known /\ display.available = mixer.available
             /\ mixer.available => display.level = mixer.level
  <2>1. /\ link.heard /\ told = <<>> /\ ~reading.reads /\ ~retry /\ ~Pending
        /\ edit.held = NoLevel
    BY <1>3 DEF AtRest, isBusy, Pending
  <2>2. Len(told) = 0
    BY <2>1
  <2>3. display.known
    BY <2>1, <2>2 DEF ReadingComes, Asking
  <2>4. last.available => last.level # NoLevel
    BY <1>3 DEF MixerTypes, Standing
  <2>5. QED
    BY <1>3, <2>1, <2>2, <2>3, <2>4 DEF LastIsShown, Displays
<1>4. QED
  BY <1>1, <1>2, <1>3 DEF ShownIsMixer

\* The value that is written last is the newest, and a client at rest shows the
\* mixer (createSerializedWriter, settings.ts).
THEOREM VolumeCorrect == VolumeSpec => [](VolumeTypeOK /\ LatestIsWritten /\ ShownIsMixer)
<1>1. VolumeInit => VolumeInv
  BY VolumeInitHolds
<1>2. VolumeInv /\ [VolumeNext]_volumeVars => VolumeInv'
  BY VolumeNextHolds
<1>3. VolumeInv => VolumeTypeOK /\ LatestIsWritten /\ ShownIsMixer
  BY VolumeIsSafe
<1>4. QED
  BY <1>1, <1>2, <1>3, PTL DEF VolumeSpec

-----------------------------------------------------------------------------
(* The settings and the volume side by side, as they are run.              *)

\* Neither moves while the other does, nor while the gate or the reset does.
LEMMA HostMoves ==
  [mcNext]_allVars => [SettingsNext]_settingsVars /\ [VolumeNext]_volumeVars
<1> SUFFICES ASSUME [mcNext]_allVars
             PROVE  [SettingsNext]_settingsVars /\ [VolumeNext]_volumeVars
  OBVIOUS
<1>1. CASE mcNext
  BY <1>1 DEF mcNext
<1>2. CASE UNCHANGED allVars
  BY <1>2 DEF allVars
<1>3. QED
  BY <1>1, <1>2

\* When the calls are through, the file, the protocol layer and the client hold
\* what is stored; the newest volume is written, and a client at rest shows the
\* mixer (settings.ts, storage.ts, system-volume.ts).
THEOREM HostCorrect == mcSpec => []HostHolds
<1>1. mcInit => SettingsInv /\ VolumeInv
  BY SettingsInitHolds, VolumeInitHolds DEF mcInit
<1>2. SettingsInv /\ VolumeInv /\ [mcNext]_allVars => SettingsInv' /\ VolumeInv'
  BY HostMoves, SettingsNextHolds, VolumeNextHolds
<1>3. SettingsInv /\ VolumeInv => HostHolds
  BY SettingsInvShows, VolumeIsSafe DEF HostHolds
<1>4. QED
  BY <1>1, <1>2, <1>3, PTL DEF mcSpec

=============================================================================
