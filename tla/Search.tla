-------------------------------- MODULE Search -------------------------------
(***************************************************************************)
(* A search for LISHs (api/search.ts) and the peers that answer it         *)
(* (lish-handlers.ts).  The question goes out twice: over the topics of    *)
(* the joined lishnets, to which a peer that has something answers over a  *)
(* stream of its own, and to every connected peer over a stream that waits *)
(* for the list.  The search ends by its timeout or a cancel whatever is   *)
(* still on its way.                                                       *)
(***************************************************************************)
EXTENDS Naturals, FiniteSets

CONSTANTS Responders,    \* peers that have what is searched for
          Topics,        \* topics of joined lishnets
          Workers,       \* UNICAST_FALLBACK_PARALLEL
          MaxMoves       \* bound: peers that connect or go, and messages repeated by the mesh

ASSUME SearchAssumption == Workers \in Nat \ {0} /\ MaxMoves \in Nat

VARIABLES
  session,     \* "none", "running", "ended"
  starting,    \* startSearch and its fallback: "idle", "broadcasting", "asking", "done", "refused"
  unsent,      \* topics the question was not sent to yet
  hooks,       \* "connect", the listener of connections; "results", the handler of answers
  queried, line,      \* session.queried, and the peers the workers still have to ask
  dials,       \* peer -> dials of it that are open: asked and not answered
  dialed,      \* peer -> times it was dialed
  heard,       \* peer -> copies of the question on their way to it
  seen,        \* peers whose seenSearchIDs has it
  replying,    \* peer -> answers of its own on their way
  replied,     \* peer -> such answers made
  linked,      \* connected peers
  found,       \* peers in the rows of results
  moves

searchVars == <<session, starting, unsent, hooks, queried, line, dials, dialed, heard, seen, replying, replied, linked, found, moves>>
wire == <<heard, seen, replying, replied>>
unicast == <<queried, line, dials, dialed>>

None == [p \in Responders |-> 0]
SearchInit ==
  /\ session = "none" /\ starting = "idle" /\ unsent = {} /\ hooks = {} /\ queried = {} /\ line = {} /\ dials = None
  /\ dialed = None /\ heard = None /\ seen = {} /\ replying = None /\ replied = None
  /\ linked \in SUBSET Responders /\ found = {} /\ moves = 0

Add(f, p) == [f EXCEPT ![p] = @ + 1]
Off(f, p) == [f EXCEPT ![p] = @ - 1]

\* startSearch up to its first await; without a running node it throws.
StartSearch ==
  /\ starting = "idle"
  /\ \/ starting' = "refused" /\ UNCHANGED <<session, unsent, hooks>>
     \/ /\ starting' = "broadcasting" /\ session' = "running"
        /\ unsent' = Topics /\ hooks' = {"connect", "results"}
  /\ UNCHANGED <<unicast, wire, linked, found, moves>>

\* A topic may refuse; the others are asked all the same, also when the search has ended.
Broadcast(t) ==
  /\ starting = "broadcasting" /\ t \in unsent /\ unsent' = unsent \ {t}
  /\ heard' \in {heard, [p \in Responders |-> IF p \in linked THEN heard[p] + 1 ELSE heard[p]]}
  /\ UNCHANGED <<session, starting, hooks, unicast, seen, replying, replied, linked, found, moves>>

\* Mutant: who connected meanwhile is asked again.
AskEverybody ==
  /\ starting = "broadcasting" /\ unsent = {} /\ starting' = "asking"
  /\ line' = linked /\ queried' = queried \cup linked
  /\ UNCHANGED <<session, unsent, hooks, dials, dialed, wire, linked, found, moves>>

\* runUnicastFallback: whoever is connected and was not asked yet.
AskConnected ==
  /\ starting = "broadcasting" /\ unsent = {} /\ starting' = "asking"
  /\ line' = linked \ queried /\ queried' = queried \cup linked
  /\ UNCHANGED <<session, unsent, hooks, dials, dialed, wire, linked, found, moves>>

\* A worker takes the next peer, or finds the session gone; it asks the next when it is answered.
Busy == Cardinality({p \in queried : dials[p] > 0})
WorkerTakes ==
  /\ starting = "asking" /\ Busy < Workers
  /\ \/ /\ line # {} /\ session = "running"
        /\ \E p \in line : line' = line \ {p} /\ dials' = Add(dials, p) /\ dialed' = Add(dialed, p)
        /\ UNCHANGED <<starting, queried>>
     \/ (line = {} \/ session # "running") /\ starting' = "done" /\ line' = {} /\ UNCHANGED <<queried, dials, dialed>>
  /\ UNCHANGED <<session, unsent, hooks, wire, linked, found, moves>>

\* handleResult: no session, no result.
Result(p) == found' = IF session = "running" THEN found \cup {p} ELSE found

\* The list comes, or the dial fails; in a session that ended it is not looked at.
DialAnswered(p) ==
  /\ dials[p] > 0 /\ dials' = Off(dials, p)
  /\ \/ Result(p) \/ UNCHANGED found
  /\ UNCHANGED <<session, starting, unsent, hooks, queried, line, dialed, wire, linked, moves>>

\* handleSearchLishs: answered once, whichever topic it comes over.
Heard(p) ==
  /\ heard[p] > 0 /\ heard' = Off(heard, p)
  /\ IF p \in seen THEN UNCHANGED <<seen, replying, replied>>
     ELSE seen' = seen \cup {p} /\ replying' = Add(replying, p) /\ replied' = Add(replied, p)
  /\ UNCHANGED <<session, starting, unsent, hooks, unicast, linked, found, moves>>

\* The answer arrives, if it does; somebody must listen for it.
ReplyArrives(p) ==
  /\ replying[p] > 0 /\ replying' = Off(replying, p)
  /\ IF "results" \in hooks THEN Result(p) \/ UNCHANGED found ELSE UNCHANGED found
  /\ UNCHANGED <<session, starting, unsent, hooks, unicast, heard, seen, replied, linked, moves>>

\* Mutant: the listener of connections stays.
EndSearchOnly ==
  /\ session = "running" /\ session' = "ended" /\ hooks' = hooks \ {"results"}
  /\ UNCHANGED <<starting, unsent, unicast, wire, linked, found, moves>>

\* The timeout, cancelSearch or stopAll.
EndSearch ==
  /\ session = "running" /\ session' = "ended" /\ hooks' = {}
  /\ UNCHANGED <<starting, unsent, unicast, wire, linked, found, moves>>

\* Who connects while the search is on is asked, unless it was.
PeerConnects(p) ==
  /\ moves < MaxMoves /\ moves' = moves + 1 /\ p \notin linked /\ linked' = linked \cup {p}
  /\ IF "connect" \in hooks /\ session = "running" /\ p \notin queried
     THEN queried' = queried \cup {p} /\ dials' = Add(dials, p) /\ dialed' = Add(dialed, p)
     ELSE UNCHANGED <<queried, dials, dialed>>
  /\ UNCHANGED <<session, starting, unsent, hooks, line, wire, found>>
PeerGoes(p) ==
  /\ moves < MaxMoves /\ moves' = moves + 1 /\ p \in linked /\ linked' = linked \ {p}
  /\ UNCHANGED <<session, starting, unsent, hooks, unicast, wire, found>>
\* The mesh delivers the question over another path.
Repeats(p) ==
  /\ moves < MaxMoves /\ moves' = moves + 1 /\ p \in seen /\ heard' = Add(heard, p)
  /\ UNCHANGED <<session, starting, unsent, hooks, unicast, seen, replying, replied, linked, found>>

SearchNext ==
  \/ StartSearch \/ AskConnected \/ WorkerTakes \/ EndSearch
  \/ \E t \in Topics : Broadcast(t)
  \/ \E p \in Responders : DialAnswered(p) \/ Heard(p) \/ ReplyArrives(p) \/ PeerConnects(p) \/ PeerGoes(p) \/ Repeats(p)

-----------------------------------------------------------------------------
\* A peer is asked once over a stream and answers a question once, whichever of the topics, the
\* snapshot and the listener of connections bring it up.
AskedOnce == \A p \in Responders : dialed[p] <= 1 /\ replied[p] <= 1

\* After its end a search leaves nothing behind: no listener, no handler, no result and no worker
\* that goes on asking.
EndIsEnd ==
  [][ /\ session = "ended" => dialed' = dialed /\ found' = found
      /\ session # "running" => hooks = {} ]_searchVars
=============================================================================
