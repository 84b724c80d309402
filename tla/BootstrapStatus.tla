--------------------------- MODULE BootstrapStatus ---------------------------
(***************************************************************************)
(* bootstrap-status.ts for one lishnet: the rows the user is shown, one    *)
(* for each address, and the frames that gather the changes of a dial run  *)
(* into few notifications.  Frames are told apart by identity: a clear     *)
(* drops the current one while the runs that opened it still hold it.      *)
(* Staleness is nondeterministic: a sweep may find any unproven row old.   *)
(***************************************************************************)
EXTENDS Naturals, FiniteSets, Functions, FiniteSetsExt

CONSTANTS Addrs, Dialers, StatusPeers, MaxDiscovered

ASSUME StatusAssumption == MaxDiscovered \in Nat

VARIABLES rows, frame, holds, shown, members
statusVars == <<rows, frame, holds, shown, members>>

Nobody == "nobody"
NoFrame == [id |-> 0, dirty |-> FALSE]
Untold == {<<Nobody, "untold">>}

Visible(r) == {<<a, r[a].status>> : a \in {b \in DOMAIN r : ~r[b].hidden}}
Discovered(r) == {a \in DOMAIN r : r[a].origin = "discovered"}

StatusInit ==
  /\ rows = <<>> /\ frame = NoFrame /\ holds = [d \in Dialers |-> 0]
  /\ shown = Untold /\ members = {}

\* notify: at once, or with the frame.
Notify(r) ==
  IF frame.id # 0 THEN frame' = [frame EXCEPT !.dirty = TRUE] /\ UNCHANGED shown
  ELSE shown' = Visible(r) /\ UNCHANGED frame

Changed(r) == rows' = r /\ Notify(r) /\ UNCHANGED <<holds, members>>

-----------------------------------------------------------------------------
\* batch, batchDebounced: the open frame, or a new one.
OpenFrame(d) ==
  LET free == Min((1..Cardinality(Dialers)) \ Range(holds))
  IN  /\ holds[d] = 0
      /\ frame' = IF frame.id # 0 THEN frame ELSE [id |-> free, dirty |-> FALSE]
      /\ holds' = [holds EXCEPT ![d] = frame'.id]
      /\ UNCHANGED <<rows, shown, members>>

\* The interval of batchDebounced.
Flush(d) ==
  /\ holds[d] # 0 /\ frame.id = holds[d] /\ frame.dirty
  /\ frame' = [frame EXCEPT !.dirty = FALSE] /\ shown' = Visible(rows)
  /\ UNCHANGED <<rows, holds, members>>

LastOut(d) == \A e \in Dialers \ {d} : holds[e] # holds[d]

\* Mutant: whoever is the last out of a frame closes the one that is open.
CloseAny(d) ==
  /\ holds[d] # 0 /\ holds' = [holds EXCEPT ![d] = 0]
  /\ IF LastOut(d)
     THEN /\ shown' = IF frame.dirty /\ frame.id = holds[d] THEN Visible(rows) ELSE shown
          /\ frame' = NoFrame
     ELSE UNCHANGED <<frame, shown>>
  /\ UNCHANGED <<rows, members>>

\* closeBatch: the last one out, of a frame that is still the current one.
CloseFrame(d) ==
  /\ holds[d] # 0 /\ holds' = [holds EXCEPT ![d] = 0]
  /\ IF LastOut(d) /\ frame.id = holds[d]
     THEN frame' = NoFrame /\ shown' = IF frame.dirty THEN Visible(rows) ELSE shown
     ELSE UNCHANGED <<frame, shown>>
  /\ UNCHANGED <<rows, members>>

-----------------------------------------------------------------------------
Was(a) == IF a \in DOMAIN rows THEN rows[a] ELSE [origin |-> "discovered", status |-> "pending", hidden |-> TRUE, proven |-> Nobody]
Origin(a, o) == IF Was(a).origin = "configured" THEN "configured" ELSE o
HiddenFor(o, would) == o # "configured" /\ would

Rank(r, a) == IF r[a].hidden THEN 0 ELSE IF r[a].proven \in members THEN 4
              ELSE CASE r[a].status = "connected" -> 3 [] r[a].status = "pending" -> 2 [] OTHER -> 1

\* capDiscovered: the lowest in rank goes; of equals any, by their age.
Capped(r) ==
  LET found == Discovered(r)
  IN  IF Cardinality(found) <= MaxDiscovered THEN {r}
      ELSE {Restrict(r, DOMAIN r \ {a}) : a \in {b \in found : \A c \in found : Rank(r, b) <= Rank(r, c)}}

With(a, row) == [b \in DOMAIN rows \cup {a} |-> IF b = a THEN row ELSE rows[b]]

\* Mutant: what counts is the origin of this call.
MarkPendingHidden(a, o) ==
  \E r \in Capped(With(a, [origin |-> Origin(a, o), status |-> "pending", proven |-> Was(a).proven, hidden |-> Was(a).hidden])) : Changed(r)

\* A dial begins.
MarkPending(a, o) ==
  \E r \in Capped(With(a, [origin |-> Origin(a, o), status |-> "pending", proven |-> Was(a).proven,
                           hidden |-> HiddenFor(Origin(a, o), Was(a).hidden)])) : Changed(r)

\* A dial ended: status is what it came to, who the identity it proved, if any.
RecordOutcome(a, o, status, who, verified) ==
  LET proven == IF who # Nobody THEN who ELSE Was(a).proven
      reveals == status = "connected" /\ (verified \/ proven \in members)
  IN  \E r \in Capped(With(a, [origin |-> Origin(a, o), status |-> status, proven |-> proven,
                               hidden |-> HiddenFor(Origin(a, o), ~reveals /\ Was(a).hidden)])) : Changed(r)

\* What the run of a dialer that still owns the frame does between its awaits.
Dials(d) ==
  /\ holds[d] # 0 /\ holds[d] = frame.id
  /\ \E a \in Addrs, o \in {"configured", "discovered"} :
       \/ MarkPending(a, o)
       \/ \E who \in StatusPeers, verified \in BOOLEAN : RecordOutcome(a, o, "connected", who, verified)
       \/ \E who \in StatusPeers \cup {Nobody} : RecordOutcome(a, o, "error", who, TRUE)

-----------------------------------------------------------------------------
\* A peer turns up in the mesh of the lishnet: its hidden rows come back.
RecordNetworkMember(p) ==
  LET its == {a \in Discovered(rows) : rows[a].proven = p}
      r == [a \in DOMAIN rows |-> IF a \in its THEN [rows[a] EXCEPT !.hidden = FALSE] ELSE rows[a]]
  IN  IF \E a \in its : rows[a].hidden THEN Changed(r) ELSE UNCHANGED statusVars

\* The upkeep of the node reached a configured address, or failed to.
RecordAddress(a, status) ==
  /\ a \in DOMAIN rows /\ rows[a].origin = "configured" /\ rows[a].status # status
  /\ Changed([rows EXCEPT ![a].status = status])

\* removeRow: what the user configured goes, what was found is hidden.
Removed(r, gone) ==
  [a \in DOMAIN r \ {b \in gone : r[b].origin = "configured"} |-> IF a \in gone THEN [r[a] EXCEPT !.hidden = TRUE] ELSE r[a]]

DeletePeer(a) == a \in DOMAIN rows /\ Changed(Removed(rows, {a}))

\* The rows of a peer that was evicted.
DeleteDiscovered(p) ==
  LET its == {a \in Discovered(rows) : rows[a].proven = p}
  IN  its # {} /\ Changed(Removed(rows, its))

\* sweepStale: members come back, old rows go.
SweepStale ==
  \E old \in SUBSET Discovered(rows) :
    LET ofMembers == {a \in Discovered(rows) : rows[a].proven \in members}
        hides == {a \in old \ ofMembers : ~rows[a].hidden}
        r == [a \in DOMAIN rows |-> IF a \in ofMembers THEN [rows[a] EXCEPT !.hidden = FALSE]
                                    ELSE IF a \in hides THEN [rows[a] EXCEPT !.hidden = TRUE] ELSE rows[a]]
    IN  IF r = rows THEN UNCHANGED statusVars ELSE Changed(r)

\* The user edits the list of the lishnet: only configured rows are judged by it.
PruneEntries(keep) ==
  /\ rows # <<>>
  /\ Changed(Restrict(rows, {a \in DOMAIN rows : rows[a].origin # "configured" \/ a \in keep}))

ResetNetwork == Changed(<<>>)

\* The node stops: rows and frame go untold, the runs keep what they hold.
Clear == rows' = <<>> /\ frame' = NoFrame /\ shown' = Untold /\ UNCHANGED <<holds, members>>

MembersChange == \E m \in SUBSET StatusPeers : members' = m /\ UNCHANGED <<rows, frame, holds, shown>>

StatusNext ==
  \/ \E d \in Dialers : OpenFrame(d) \/ Flush(d) \/ CloseFrame(d) \/ Dials(d)
  \/ \E p \in StatusPeers : RecordNetworkMember(p) \/ DeleteDiscovered(p)
  \/ \E a \in Addrs : DeletePeer(a) \/ \E status \in {"connected", "error"} : RecordAddress(a, status)
  \/ SweepStale \/ ResetNetwork \/ Clear \/ MembersChange
  \/ \E keep \in SUBSET Addrs : PruneEntries(keep)

-----------------------------------------------------------------------------
\* Once no frame is open, observers have been told of exactly the rows there are to see,
\* whatever runs gathered, closed late or lost to a stop of the node.
ShownIsVisible == frame.id = 0 /\ shown # Untold => shown = Visible(rows)

\* A row the user configured is never hidden and never gives way to what gossip found.
ConfiguredIsShown ==
  /\ \A a \in DOMAIN rows : rows[a].origin = "configured" => ~rows[a].hidden
  /\ Cardinality(Discovered(rows)) <= MaxDiscovered
=============================================================================
