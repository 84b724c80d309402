----------------------------- MODULE MCLishnets -----------------------------
(* Instances of the lishnet layer for TLC. *)
EXTENDS Lishnets, TLC

CONSTANTS n1, n2, a1, a2, w1, w2, c1, c2

OneNet == {n1}
TwoNets == {n1, n2}
NoAddr == {}
OneAddr == {a1}
TwoAddrs == {a1, a2}
OneWriter == {w1}
TwoWriters == {w1, w2}
OneController == {c1}
TwoControllers == {c1, c2}
NoFaults == {}
AllFaults == {"start", "subscribe", "libp2p", "datastore"}
Both == {"start", "stop"}
StartOnly == {"start"}

NetSymmetry == Permutations(TwoNets)

-----------------------------------------------------------------------------
\* A write is answered and a call of start or stop returns, though a join
\* dials with the lock held and a drain has no deadline (lishnets.ts
\* joinNetwork, drainReconciles).
EverybodyReturns == WriteAnswered /\ CallsReturn
=============================================================================
