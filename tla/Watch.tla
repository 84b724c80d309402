------------------------------- MODULE Watch -------------------------------
(***************************************************************************)
(* What the frontend shows of the networks: the backend counts the peers   *)
(* of each topic and grades its mesh, pushes both to the clients that      *)
(* subscribed when one of them changed, and sends them to a client that    *)
(* subscribes; the frontend keeps the last push, ages it, and colours each *)
(* network and the footer.  The bootstrap statuses are watched beside it,  *)
(* from a snapshot and the pushes after it.                                *)
(*                                                                         *)
(* Source: frontend/src/scripts/networks.ts; backend/src/protocol/         *)
(* network.ts (peer counts and mesh health), backend/src/api/events.ts and *)
(* backend/src/api/api.ts.                                                 *)
(***************************************************************************)
EXTENDS Integers, Sequences, SequencesExt, FiniteSetsExt

CONSTANTS
    Lishnet,          \* the networks configured
    MaxPeers,         \* bound: the peers of a topic
    MaxWatchEvents,   \* bound: changes of networks, connection and pages
    MaxPushes         \* bound: messages on the way to the client

ASSUME WatchAssumption ==
    /\ IsFiniteSet(Lishnet)
    /\ MaxPeers \in Nat /\ MaxWatchEvents \in Nat /\ MaxPushes \in Nat

Never == "never"      \* no graft or prune was seen on the topic yet
Recent == "recent"    \* ... less than STABILITY_THRESHOLD_MS ago
Long == "long"
NoScore == "no score"
MaxCalls == 6
Watched == {"peers:count", "lishnets:bootstrapStatus"}

VARIABLES
    node,         \* the backend's node: which topics it is subscribed to, and
                  \* the subscribers, mesh, last change and scores of each
    wanted,       \* the networks that are enabled
    lastCounts,   \* _lastPeerCounts and _lastMeshSizes
    checks,       \* the debounced check and the delayed ones
    dialled,      \* the backend's bootstrap status of each network
    online,       \* the client is connected
    heardEvents,  \* subscribedEvents of the client's socket
    pushes,       \* events and answers on the way to the client
    calls,        \* calls on the way to the backend
    watchers,     \* subscriberCount and bootstrapSubscriberCount
    listeners,    \* how many listeners are registered for each event
    rejoins,      \* which subscribe again on a reconnect
    seen,         \* peerCounts, meshHealth and bootstrapStatuses
    watchEvents   \* how much of MaxWatchEvents is used

backendVars == <<node, wanted, lastCounts, checks, dialled>>
watcherVars == <<watchers, listeners, rejoins, seen>>
watchVars == <<backendVars, online, heardEvents, pushes, calls, watcherVars, watchEvents>>

NoMesh == [peers |-> 0, mesh |-> 0, since |-> Never, score |-> NoScore]
TopicState == [peers : 0 .. MaxPeers, mesh : 0 .. MaxPeers, since : {Never, Recent, Long},
               score : {NoScore, "negative", "positive"}]
Counts == UNION {[s -> TopicState] : s \in SUBSET Lishnet}

WatchTypeOK ==
    /\ node \in [up : BOOLEAN, topics : SUBSET Lishnet, of : [Lishnet -> TopicState]]
    /\ wanted \subseteq Lishnet
    /\ DOMAIN lastCounts \subseteq Lishnet
    /\ checks \in [soon : BOOLEAN, later : BOOLEAN]
    /\ dialled \in [Lishnet -> {"pending", "failed"}]
    /\ online \in BOOLEAN
    /\ heardEvents \subseteq Watched
    /\ Len(pushes) <= MaxPushes + 2 /\ Len(calls) <= MaxCalls
    /\ watchers \in [Watched -> 0 .. 2] /\ listeners \in [Watched -> 0 .. 2]
    /\ rejoins \subseteq Watched
    /\ seen.counts \in Counts
    /\ watchEvents \in 0 .. MaxWatchEvents

WatchInit ==
    /\ node = [up |-> TRUE, topics |-> {}, of |-> [n \in Lishnet |-> NoMesh]]
    /\ wanted = {} /\ lastCounts = <<>>
    /\ checks = [soon |-> FALSE, later |-> FALSE]
    /\ dialled = [n \in Lishnet |-> "pending"]
    /\ online = TRUE /\ heardEvents = {} /\ pushes = <<>> /\ calls = <<>>
    /\ watchers = [w \in Watched |-> 0] /\ listeners = [w \in Watched |-> 0]
    /\ rejoins = {}
    /\ seen = [counts |-> <<>>, boot |-> <<>>]
    /\ watchEvents = 0

Happened ==
    /\ watchEvents < MaxWatchEvents
    /\ watchEvents' = watchEvents + 1

Push(event, data) == [event |-> event, data |-> data]
PushRoom == Len(pushes) < MaxPushes

\* emit and broadcast of api.ts: to a client that subscribed to the event.
Emitted(list, event, data) ==
    IF online /\ event \in heardEvents THEN Append(list, Push(event, data)) ELSE list

----------------------------------------------------------------------------
(* The backend counts.                                                     *)

schedulePeerCountCheck == checks' = [checks EXCEPT !.soon = TRUE]

\* A network is enabled and joined, or disabled and left; in steps.
Enable(n) ==
    /\ Happened
    /\ wanted' = IF n \in wanted THEN wanted \ {n} ELSE wanted \cup {n}
    /\ UNCHANGED <<node, lastCounts, checks, dialled, online, heardEvents, pushes, calls, watcherVars>>

subscribeTopic(n) ==
    /\ node.up
    /\ n \in wanted \ node.topics
    /\ node' = [node EXCEPT !.topics = @ \cup {n}]
    /\ checks' = [checks EXCEPT !.later = TRUE]
    /\ UNCHANGED <<wanted, lastCounts, dialled, online, heardEvents, pushes, calls, watcherVars,
                   watchEvents>>

unsubscribeTopic(n) ==
    /\ node.up
    /\ n \in node.topics \ wanted
    /\ \E since \in {node.of[n].since, IF node.of[n].mesh = 0 THEN node.of[n].since ELSE Recent} :
           node' = [node EXCEPT !.topics = @ \ {n}, !.of[n] = [NoMesh EXCEPT !.since = since]]
    /\ schedulePeerCountCheck
    /\ UNCHANGED <<wanted, lastCounts, dialled, online, heardEvents, pushes, calls, watcherVars,
                   watchEvents>>

\* A peer of the topic connects or subscribes, is grafted, pruned, scored, or
\* leaves; what the events tell of is checked soon.
TopicChanges(n) ==
    /\ Happened
    /\ n \in node.topics
    /\ \E peers \in 0 .. MaxPeers, score \in {"negative", "positive"} :
           \E mesh \in 0 .. peers :
               node' = [node EXCEPT !.of[n] =
                            [peers |-> peers, mesh |-> mesh,
                             since |-> IF mesh = node.of[n].mesh THEN node.of[n].since
                                       ELSE Recent,
                             score |-> IF mesh = 0 THEN NoScore ELSE score]]
    /\ node' # node
    /\ schedulePeerCountCheck
    /\ UNCHANGED <<wanted, lastCounts, dialled, online, heardEvents, pushes, calls, watcherVars>>

\* A peer of some topics disconnects, of their meshes first: it counts as a
\* change of the mesh of every topic.
Fewer(topic) == LET mesh == IF topic.mesh > 0 THEN topic.mesh - 1 ELSE 0
                IN [topic EXCEPT !.peers = @ - 1, !.mesh = mesh,
                                 !.score = IF mesh = 0 THEN NoScore ELSE @]
Changed(topic) == [topic EXCEPT !.since = Recent]
Disconnects ==
    /\ Happened
    /\ \E left \in SUBSET {n \in node.topics : node.of[n].peers > 0} :
           node' = [node EXCEPT !.of = [n \in Lishnet |->
                        IF n \in left THEN Changed(Fewer(@[n]))
                        ELSE IF n \in node.topics THEN Changed(@[n]) ELSE @[n]]]
    /\ node' # node
    /\ schedulePeerCountCheck
    /\ UNCHANGED <<wanted, lastCounts, dialled, online, heardEvents, pushes, calls, watcherVars>>

DelayedCheck ==
    /\ checks.later
    /\ checks' = [soon |-> TRUE, later |-> FALSE]
    /\ UNCHANGED <<node, wanted, lastCounts, dialled, online, heardEvents, pushes, calls,
                   watcherVars, watchEvents>>

\* What is counted for the topics now.
getMeshHealth == [n \in node.topics |-> node.of[n]]
CountedNow == [n \in node.topics |-> <<node.of[n].peers, node.of[n].mesh>>]

checkPeerCounts ==
    /\ checks.soon
    /\ checks' = [checks EXCEPT !.soon = FALSE]
    /\ PushRoom
    /\ IF node.up
       THEN /\ lastCounts' = CountedNow
            /\ pushes' = IF CountedNow = lastCounts THEN pushes
                         ELSE Emitted(pushes, "peers:count", getMeshHealth)
       ELSE UNCHANGED <<lastCounts, pushes>>
    /\ UNCHANGED <<node, wanted, dialled, online, heardEvents, calls, watcherVars, watchEvents>>

NodeStops ==
    /\ Happened
    /\ node.up
    /\ node' = [up |-> FALSE, topics |-> {}, of |-> [n \in Lishnet |-> NoMesh]]
    /\ lastCounts' = <<>>
    /\ checks' = [soon |-> FALSE, later |-> FALSE]
    /\ UNCHANGED <<wanted, dialled, online, heardEvents, pushes, calls, watcherVars>>

NodeStarts ==
    /\ ~node.up
    /\ node' = [node EXCEPT !.up = TRUE]
    /\ UNCHANGED <<wanted, lastCounts, checks, dialled, online, heardEvents, pushes, calls,
                   watcherVars, watchEvents>>

\* A dial of a bootstrap peer ended otherwise than the one before.
Dialled(n) ==
    /\ Happened
    /\ PushRoom
    /\ dialled' = [dialled EXCEPT ![n] = IF @ = "pending" THEN "failed" ELSE "pending"]
    /\ pushes' = Emitted(pushes, "lishnets:bootstrapStatus", [n |-> n, status |-> dialled'[n]])
    /\ UNCHANGED <<node, wanted, lastCounts, checks, online, heardEvents, calls, watcherVars>>

----------------------------------------------------------------------------
(* The calls, answered in their order.                                     *)

\* Whoever subscribes to anything is sent the counts, if it watches them, of
\* the networks that are enabled: joined or not, and nothing if there is none.
getCurrentPeerCounts ==
    [n \in wanted |-> node.of[n]]

AddsEvent(event) ==
    /\ heardEvents' = heardEvents \cup {event}
    /\ pushes' = IF "peers:count" \in heardEvents' /\ wanted # {}
                 THEN Append(pushes, Push("peers:count", getCurrentPeerCounts))
                 ELSE pushes

Unsubscribe(event) ==
    /\ heardEvents' = heardEvents \ {event}
    /\ pushes' = Append(pushes, Push("unsubscribed", event))

Snapshot(why) ==
    /\ UNCHANGED heardEvents
    /\ pushes' = Append(pushes, Push(why, dialled))

Execute ==
    /\ online
    /\ calls # <<>>
    /\ PushRoom
    /\ calls' = Tail(calls)
    /\ LET call == Head(calls)
       IN \/ call.method = "subscribe" /\ AddsEvent(call.event)
          \/ call.method = "unsubscribe" /\ Unsubscribe(call.event)
          \/ call.method = "snapshot" /\ Snapshot(call.event)
    /\ UNCHANGED <<backendVars, online, watcherVars, watchEvents>>

----------------------------------------------------------------------------
(* The frontend watches.                                                   *)

Asks(list) ==
    /\ Len(calls) + Len(list) <= MaxCalls
    /\ calls' = calls \o list
Ask(method, event) == [method |-> method, event |-> event]

\* subscribePeerCounts: the footer once, the settings page while it is open.
subscribePeerCounts ==
    LET event == "peers:count"
    IN /\ Happened
       /\ watchers[event] < 2
       /\ watchers' = [watchers EXCEPT ![event] = @ + 1]
       /\ IF listeners[event] > 0 THEN UNCHANGED <<listeners, rejoins, calls>>
          ELSE /\ listeners' = [listeners EXCEPT ![event] = 1]
               /\ rejoins' = rejoins \cup {event}
               /\ Asks(<<Ask("subscribe", event)>>)
       /\ UNCHANGED <<backendVars, online, heardEvents, pushes, seen>>

\* subscribeBootstrapStatuses asks for the snapshot first.
subscribeBootstrapStatuses ==
    LET event == "lishnets:bootstrapStatus"
    IN /\ Happened
       /\ watchers[event] < 2
       /\ watchers' = [watchers EXCEPT ![event] = @ + 1]
       /\ IF listeners[event] > 0 THEN UNCHANGED calls
          ELSE Asks(<<Ask("snapshot", "first snapshot")>>)
       /\ UNCHANGED <<backendVars, online, heardEvents, pushes, listeners, rejoins, seen>>

\* ... and listens when it has it, whoever listens by then.
Listens ==
    LET event == "lishnets:bootstrapStatus"
    IN /\ listeners' = [listeners EXCEPT ![event] = IF @ < 2 THEN @ + 1 ELSE @]
       /\ rejoins' = rejoins \cup {event}
       /\ Asks(<<Ask("subscribe", event)>>)

\* unsubscribePeerCounts and unsubscribeBootstrapStatuses: the last one out.
unsubscribe(event) ==
    /\ Happened
    /\ watchers[event] > 0
    /\ watchers' = [watchers EXCEPT ![event] = @ - 1]
    /\ IF watchers[event] > 1 THEN UNCHANGED <<rejoins, calls>>
       ELSE /\ rejoins' = rejoins \ {event}
            /\ IF listeners[event] = 0 THEN UNCHANGED calls
               ELSE Asks(<<Ask("unsubscribe", event)>>)
    /\ UNCHANGED <<backendVars, online, heardEvents, pushes, listeners, seen>>

\* The awaited unsubscribe is answered: the listener goes, and what it showed.
Unwatched(event) ==
    /\ listeners' = [listeners EXCEPT ![event] = IF @ > 0 THEN @ - 1 ELSE 0]
    /\ seen' = IF event = "peers:count" THEN [seen EXCEPT !.counts = <<>>]
                ELSE [seen EXCEPT !.boot = <<>>]
    /\ UNCHANGED <<rejoins, calls>>

CountsArrive(data) ==
    /\ seen' = IF listeners["peers:count"] > 0 THEN [seen EXCEPT !.counts = data] ELSE seen
    /\ UNCHANGED <<listeners, rejoins, calls>>

StatusArrives(data) ==
    /\ seen' = IF listeners["lishnets:bootstrapStatus"] = 0 THEN seen
                ELSE [seen EXCEPT !.boot = [n \in DOMAIN @ \cup {data.n} |->
                                                IF n = data.n THEN data.status ELSE @[n]]]
    /\ UNCHANGED <<listeners, rejoins, calls>>

Arrives ==
    /\ pushes # <<>>
    /\ pushes' = Tail(pushes)
    /\ LET push == Head(pushes)
       IN \/ push.event = "peers:count" /\ CountsArrive(push.data)
          \/ push.event = "lishnets:bootstrapStatus" /\ StatusArrives(push.data)
          \/ push.event = "unsubscribed" /\ Unwatched(push.data)
          \/ push.event = "first snapshot" /\ Listens /\ seen' = [seen EXCEPT !.boot = push.data]
          \/ /\ push.event = "later snapshot"
             /\ seen' = [seen EXCEPT !.boot = push.data]
             /\ UNCHANGED <<listeners, rejoins, calls>>
    /\ UNCHANGED <<backendVars, online, heardEvents, watchers, watchEvents>>

\* The connection is lost with everything on the way: who waits for its first
\* snapshot listens without it, an unsubscribe that failed leaves its listener.
Waiting ==
    Cardinality({i \in DOMAIN calls : calls[i].event = "first snapshot"})
        + Cardinality({i \in DOMAIN pushes : pushes[i].event = "first snapshot"})

Drops ==
    LET event == "lishnets:bootstrapStatus"
        total == listeners[event] + Waiting
    IN /\ Happened
       /\ online
       /\ online' = FALSE /\ heardEvents' = {} /\ pushes' = <<>>
       /\ listeners' = [listeners EXCEPT ![event] = IF total < 2 THEN total ELSE 2]
       /\ IF Waiting > 0
          THEN calls' = <<Ask("subscribe", event)>> /\ rejoins' = rejoins \cup {event}
          ELSE calls' = <<>> /\ UNCHANGED rejoins
       /\ UNCHANGED <<backendVars, watchers, seen>>

\* Mutant: a reconnect leaves it to the page to subscribe again.
ReconnectsQuietly ==
    /\ ~online
    /\ online' = TRUE
    /\ UNCHANGED <<backendVars, heardEvents, pushes, calls, watcherVars, watchEvents>>

\* connected: whoever listens subscribes again, and asks for what it missed.
ConnectsAgain ==
    LET again == {e \in rejoins : listeners[e] > 0}
    IN /\ ~online
       /\ online' = TRUE
       /\ Asks(SetToSeq({Ask("subscribe", e) : e \in again}
                            \cup {Ask("snapshot", "later snapshot") : e \in again \ {"peers:count"}}))
       /\ UNCHANGED <<backendVars, heardEvents, pushes, watcherVars, watchEvents>>

\* Time: nothing was grafted or pruned for a while, here and there.
Aged(of) == [n \in DOMAIN of |-> [of[n] EXCEPT !.since = IF @ = Recent THEN Long ELSE @]]

Ages ==
    /\ node' = [node EXCEPT !.of = Aged(@)]
    /\ seen' = [seen EXCEPT !.counts = Aged(@)]
    /\ UNCHANGED <<wanted, lastCounts, checks, dialled, online, heardEvents, pushes, calls,
                   watchers, listeners, rejoins, watchEvents>>

WatchNext ==
    \/ \E n \in Lishnet : \/ Enable(n) \/ subscribeTopic(n) \/ unsubscribeTopic(n)
                          \/ TopicChanges(n) \/ Dialled(n)
    \/ Disconnects \/ DelayedCheck \/ checkPeerCounts \/ NodeStops \/ NodeStarts \/ Execute
    \/ subscribePeerCounts \/ subscribeBootstrapStatuses
    \/ \E event \in Watched : unsubscribe(event)
    \/ Arrives \/ Drops \/ ConnectsAgain \/ Ages

WatchSpec == WatchInit /\ [][WatchNext]_watchVars

----------------------------------------------------------------------------
(* The colours.                                                            *)

\* One network: its state in the settings.
evaluateNetworkMeshState(n) ==
    IF n \notin DOMAIN seen.counts THEN "disabled"
    ELSE LET entry == seen.counts[n]
         IN IF entry.score = "negative" THEN "unstable"
            ELSE IF entry.mesh = 0 \/ entry.since # Long THEN "forming"
            ELSE "stable"

\* networkSummary.
networkSummary ==
    [total |-> Cardinality(DOMAIN seen.counts),
     connected |-> Cardinality({n \in DOMAIN seen.counts : seen.counts[n].peers > 0}),
     peers |-> FoldSet(LAMBDA n, sum : sum + seen.counts[n].peers, 0, DOMAIN seen.counts)]

\* Mutant: the footer asks for a mesh before it asks for its scores.
FormsFirst ==
    LET counts == seen.counts
    IN IF networkSummary.total = 0 THEN "unknown"
       ELSE IF \E n \in DOMAIN counts : counts[n].mesh = 0 \/ counts[n].since # Long
            THEN "forming"
       ELSE IF \E n \in DOMAIN counts : counts[n].score = "negative" THEN "unstable"
       ELSE "stable"

\* All of them: the colour of the footer.
evaluateMeshStatus ==
    LET counts == seen.counts
    IN IF networkSummary.total = 0 THEN "unknown"
       ELSE IF networkSummary.peers = 0 THEN "forming"
       ELSE IF \E n \in DOMAIN counts : counts[n].score = "negative" THEN "unstable"
       ELSE IF \E n \in DOMAIN counts : counts[n].mesh = 0 \/ counts[n].since = Never
            THEN "forming"
       ELSE IF \E n \in DOMAIN counts : counts[n].since = Recent THEN "forming"
       ELSE "stable"

\* The footer shows the worst of the colours of the networks and never another
\* order than theirs: the counts and the meshes it computes them from, which
\* arrive in one push, belong together (networks.ts: the resolution order
\* mirrors the aggregate evaluator so colours stay consistent; network.ts: the
\* client never sees a count without its mesh).
OneColour ==
    LET states == {evaluateNetworkMeshState(n) : n \in DOMAIN seen.counts}
    IN evaluateMeshStatus = IF states = {} THEN "unknown"
                            ELSE IF "unstable" \in states THEN "unstable"
                            ELSE IF "forming" \in states THEN "forming"
                            ELSE "stable"

\* What listens is heardEvents: once nothing is on the way, the backend's list
\* of the client's events holds each event the frontend means to hear, through
\* lost connections and pages that come and go while their calls are answered
\* (networks.ts: re-subscribe on reconnect, the backend has a fresh
\* subscribedEvents).
ListeningIsSubscribed ==
    online /\ calls = <<>> /\ pushes = <<>>
        => \A event \in rejoins : listeners[event] > 0 => event \in heardEvents
=============================================================================
