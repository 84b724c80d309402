----------------------------- MODULE PeerTracker -----------------------------
(***************************************************************************)
(* peer-tracker.ts: what the user is shown of the peers of a LISH.  A peer *)
(* has an entry per direction; totals outlive the entry, and a client that *)
(* subscribed is sent the two directions merged.  Left out is the file a   *)
(* peer is at, which is the one of the direction that is merged last.      *)
(***************************************************************************)
EXTENDS Naturals, Sequences, FiniteSets, SequencesExt

CONSTANTS Viewers,     \* clients that may subscribe
          MaxBytes     \* bound: bytes counted

ASSUME TrackerAssumption == MaxBytes \in Nat

Direction == {"download", "upload"}
\* How a peer is connected; DIRECT is what an entry made for bytes of an unknown peer says.
Connection == {"DIRECT", "RELAY", "DCUtR"}

VARIABLES
  entries,      \* per direction, for one peer of one LISH; in the order they were made
  cumulative,   \* cumulativeBytes
  subscribers   \* clients subscribed to the LISH

trackerVars == <<entries, cumulative, subscribers>>

NoPeer == [on |-> FALSE, type |-> "DIRECT", total |-> 0, idle |-> "fresh", made |-> 0]
NothingShown == [on |-> FALSE, type |-> "DIRECT", stale |-> FALSE, down |-> 0, up |-> 0]

TrackerInit ==
  /\ entries = [d \in Direction |-> NoPeer] /\ cumulative = [d \in Direction |-> 0]
  /\ subscribers = {}

\* Entries are listed in the order they were made.
NextPlace == 1 + Cardinality({d \in Direction : entries[d].on})
Made(d, type) == [on |-> TRUE, type |-> type, total |-> cumulative[d], idle |-> "fresh", made |-> NextPlace]
Without(d) == [e \in Direction |-> IF e = d THEN NoPeer ELSE [entries[e] EXCEPT !.made = IF entries[e].on THEN 1 ELSE 0]]

\* Mutant: who comes back starts from nothing.
RegisterAnew(d, type) ==
  /\ entries' = [entries EXCEPT ![d] = IF @.on THEN [@ EXCEPT !.type = type] ELSE [Made(d, type) EXCEPT !.total = 0]]
  /\ UNCHANGED <<cumulative, subscribers>>

RegisterPeer(d, type) ==
  /\ entries' = [entries EXCEPT ![d] = IF @.on THEN [@ EXCEPT !.type = type] ELSE Made(d, type)]
  /\ UNCHANGED <<cumulative, subscribers>>

UnregisterPeer(d) == entries[d].on /\ entries' = Without(d) /\ UNCHANGED <<cumulative, subscribers>>

\* recordDownloadBytes, recordUploadBytes: an entry that was dropped meanwhile is made again.
RecordBytes(d) ==
  LET entry == IF entries[d].on THEN entries[d] ELSE Made(d, "DIRECT") IN
  /\ entry.total < MaxBytes
  /\ entries' = [entries EXCEPT ![d] = [entry EXCEPT !.total = @ + 1, !.idle = "fresh"]]
  /\ cumulative' = [cumulative EXCEPT ![d] = entry.total + 1]
  /\ UNCHANGED <<subscribers>>

TouchPeer(d) ==
  /\ entries[d].on /\ entries[d].idle # "fresh"
  /\ entries' = [entries EXCEPT ![d].idle = "fresh"] /\ UNCHANGED <<cumulative, subscribers>>

\* Half a minute without activity, then a minute.
PeerIdles(d) ==
  /\ entries[d].on /\ entries[d].idle # "dead"
  /\ entries' = [entries EXCEPT ![d].idle = IF @ = "fresh" THEN "stale" ELSE "dead"]
  /\ UNCHANGED <<cumulative, subscribers>>

\* The LISH is removed.
UnregisterAll ==
  /\ entries' = [d \in Direction |-> NoPeer] /\ cumulative' = [d \in Direction |-> 0]
  /\ UNCHANGED <<subscribers>>

Subscribe(c) == c \notin subscribers /\ subscribers' = subscribers \cup {c} /\ UNCHANGED <<entries, cumulative>>
Unsubscribe(c) == c \in subscribers /\ subscribers' = subscribers \ {c} /\ UNCHANGED <<entries, cumulative>>

\* One entry joins what is shown of its peer.
View(d, e) == [on |-> TRUE, type |-> e.type, stale |-> e.idle # "fresh",
               down |-> IF d = "download" THEN e.total ELSE 0, up |-> IF d = "upload" THEN e.total ELSE 0]
Merged(a, d, e) ==
  IF ~a.on THEN View(d, e)
  ELSE [a EXCEPT !.type = IF e.type = "DCUtR" \/ (e.type = "RELAY" /\ @ = "DIRECT") THEN e.type ELSE @,
                 !.stale = @ /\ e.idle # "fresh",
                 !.down = IF d = "download" THEN e.total ELSE @, !.up = IF d = "upload" THEN e.total ELSE @]
Joined(a, d, from) == IF from[d].on THEN Merged(a, d, from[d]) ELSE a
MergeAll(first, second, from) == Joined(Joined(NothingShown, first, from), second, from)

\* emitPeerDetails, every second: what is idle for a minute goes; then each client is sent the
\* peers of the LISHs it subscribed to, merged in the order the entries were made.
Emit ==
  LET gone == {d \in Direction : entries[d].on /\ entries[d].idle = "dead"} IN
  /\ entries' = IF gone = {} THEN entries
                 ELSE [d \in Direction |-> IF d \in gone THEN NoPeer ELSE [entries[d] EXCEPT !.made = IF @ = 0 THEN 0 ELSE 1]]
  /\ UNCHANGED <<cumulative, subscribers>>
UploadFirst == entries["upload"].made < entries["download"].made
Sent(c) ==
  IF c \notin subscribers THEN NothingShown
  ELSE IF UploadFirst THEN MergeAll("upload", "download", entries) ELSE MergeAll("download", "upload", entries)

TrackerNext ==
  \/ Emit \/ UnregisterAll
  \/ \E d \in Direction : UnregisterPeer(d) \/ RecordBytes(d) \/ TouchPeer(d) \/ PeerIdles(d) \/ \E t \in Connection : RegisterPeer(d, t)
  \/ \E c \in Viewers : Subscribe(c) \/ Unsubscribe(c)

-----------------------------------------------------------------------------
\* What a peer sent and took is counted over all its connections, however often its entry was
\* dropped and made again; and what the user sees of it does not depend on which direction
\* came first.
PeerTotalsGoOn ==
  /\ \A d \in Direction : entries[d].on => entries[d].total = cumulative[d]
  /\ \A c \in subscribers : Sent(c) = MergeAll("upload", "download", entries)
=============================================================================
