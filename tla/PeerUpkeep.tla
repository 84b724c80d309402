----------------------------- MODULE PeerUpkeep ------------------------------
(***************************************************************************)
(* network.ts: what the node does about one remote peer from its timers,   *)
(* events and calls.  Every job awaits dials, closes or the peer store,    *)
(* and looks afterwards whether its run of the node is still the current   *)
(* one.  Others connected, backoffs that are due, old windows and what a   *)
(* dial comes to are nondeterministic.                                     *)
(***************************************************************************)
EXTENDS Naturals, FiniteSets

CONSTANTS EvictAt,    \* REDIAL_EVICT_FAILS
          MaxUpkeep   \* bound: connects, disconnects, calls, events, ticks, stops and starts

ASSUME UpkeepAssumption == EvictAt \in Nat /\ MaxUpkeep \in Nat

Ticks == {"tick1", "tick2"}
Jobs == Ticks \cup {"leave", "intake", "found"}

VARIABLES
  peer,    \* what is kept about the peer
  node,    \* epoch, running, statusTickInFlight, joined
  job,     \* per job: where it awaits, and the epoch it belongs to
  upkeep   \* moves so far
upkeepVars == <<peer, node, job, upkeep>>

NoJob == [at |-> "idle", epoch |-> 0, seen |-> FALSE]
\* link: none, or a connection that is wanted or one to a peer that was left; known: in
\* bootstrapMultiaddrs; boot: in bootstrapPeerIDs; shares: subscribed to a joined lishnet.
NewPeer == [link |-> "none", stored |-> TRUE, fails |-> 0, quarantine |-> "no", left |-> FALSE,
            shares |-> FALSE, configured |-> FALSE, known |-> FALSE, boot |-> FALSE]

UpkeepInit ==
  /\ peer = NewPeer /\ node = [epoch |-> 0, running |-> TRUE, ticking |-> FALSE, joined |-> TRUE]
  /\ job = [j \in Jobs |-> NoJob] /\ upkeep = 0

Current(j) == job[j].epoch = node.epoch
Goes(j, at) == job' = [job EXCEPT ![j].at = at]
Awaits(j, at) == job[j].at = at
SameNode == UNCHANGED <<node, upkeep>>
Moves == upkeep < MaxUpkeep /\ upkeep' = upkeep + 1
Needed == peer.configured \/ peer.shares

\* peer:connect; identify stores the addresses of the connection.
Connected(p) ==
  IF p.link # "none" THEN p
  ELSE LET left == p.left /\ ~p.shares
       IN  [p EXCEPT !.link = IF left THEN "unwanted" ELSE "wanted", !.quarantine = "no", !.fails = 0,
                     !.left = left, !.stored = TRUE]
\* noteRecoveryDialFailure
NotedFailure(p) == IF p.quarantine = "no" THEN p ELSE [p EXCEPT !.quarantine = "young"]

Starting(j, at) ==
  /\ Awaits(j, "idle") /\ node.running
  /\ job' = [job EXCEPT ![j] = [at |-> at, epoch |-> node.epoch, seen |-> peer.link # "none"]]

\* An await of a run that is over returns: whatever was going on ends.
After(j) == IF j \in Ticks THEN "ending" ELSE "idle"
Outdated(j) ==
  /\ job[j].at \notin {"idle", "ending"} /\ ~Current(j) /\ Goes(j, After(j)) /\ UNCHANGED peer /\ SameNode

-----------------------------------------------------------------------------
\* purgeStalePeer, up to its first await.
Purged(p) == [p EXCEPT !.boot = FALSE, !.known = FALSE, !.fails = 0]
PurgeAt(p) == IF p.link = "none" THEN "deleting" ELSE "closing"
AfterPurge(j) == IF j \in Ticks THEN "recovery" ELSE "idle"

Closes(j) ==
  /\ Awaits(j, "closing") /\ Current(j) /\ peer' = [peer EXCEPT !.link = "none", !.shares = FALSE]
  /\ Goes(j, "deleting") /\ SameNode

\* Mutant: the peer is not looked at again.
DeletesForGood(j) ==
  /\ Awaits(j, "deleting") /\ Current(j) /\ peer' = [peer EXCEPT !.stored = FALSE]
  /\ Goes(j, AfterPurge(j)) /\ SameNode

\* The peer leaves the store; if it came back meanwhile, and was not left, it is put back.
Deletes(j) ==
  /\ Awaits(j, "deleting") /\ Current(j)
  /\ LET back == peer.link # "none" /\ ~peer.left
     IN  /\ peer' = [peer EXCEPT !.stored = FALSE, !.quarantine = IF back THEN "no" ELSE @]
         /\ Goes(j, IF back THEN "restoring" ELSE AfterPurge(j))
  /\ SameNode

\* restorePurgedPeerState
Restores(j) ==
  /\ Awaits(j, "restoring") /\ Current(j)
  /\ peer' = [peer EXCEPT !.stored = TRUE, !.known = TRUE, !.boot = TRUE]
  /\ Goes(j, AfterPurge(j)) /\ SameNode

-----------------------------------------------------------------------------
\* setupStatusInterval: one tick at a time.
TickFires(j) ==
  /\ ~node.ticking /\ Moves /\ Starting(j, "reading") /\ node' = [node EXCEPT !.ticking = TRUE]
  /\ UNCHANGED peer

\* Mutant: a tick of an earlier run opens the way for a second one of this run.
TickEndsBlindly(j) ==
  /\ Awaits(j, "ending") /\ job' = [job EXCEPT ![j] = NoJob]
  /\ node' = [node EXCEPT !.ticking = FALSE] /\ UNCHANGED <<peer, upkeep>>

TickEnds(j) ==
  /\ Awaits(j, "ending") /\ job' = [job EXCEPT ![j] = NoJob]
  /\ node' = [node EXCEPT !.ticking = IF Current(j) THEN FALSE ELSE @] /\ UNCHANGED <<peer, upkeep>>

\* runRedialMaintenance: the peer as it was when the tick began, and as it is in the store now.
Candidate(j) ==
  /\ ~job[j].seen /\ peer.stored /\ ~peer.left
  /\ peer.quarantine = "young" => peer.configured
Chooses(j) ==
  /\ Awaits(j, "reading") /\ Current(j)
  /\ \/ /\ job[j].seen /\ Goes(j, "recovery")
        /\ peer' = [peer EXCEPT !.fails = 0, !.quarantine = "no", !.left = @ /\ ~peer.shares]
     \/ /\ ~job[j].seen /\ Goes(j, "recovery")
        /\ peer' \in {peer, [peer EXCEPT !.fails = 0]}
     \/ Candidate(j) /\ Goes(j, "redialing") /\ UNCHANGED peer
  /\ SameNode

\* A redial came through, or failed; the failure may be the last straw.
Redialed(j) ==
  /\ Awaits(j, "redialing") /\ Current(j) /\ SameNode
  /\ \/ peer' = [Connected(peer) EXCEPT !.fails = 0] /\ Goes(j, "recovery")
     \/ \E others \in BOOLEAN, longAgo \in BOOLEAN :
          LET fails == IF ~others THEN 0 ELSE IF peer.fails < EvictAt THEN peer.fails + 1 ELSE EvictAt
              evicts == others /\ ~peer.configured /\ longAgo /\ fails >= EvictAt
          IN  IF ~evicts THEN peer' = [peer EXCEPT !.fails = fails] /\ Goes(j, "recovery")
              ELSE IF peer.link # "none" THEN peer' = [peer EXCEPT !.fails = 0] /\ Goes(j, "recovery")
              ELSE /\ peer' = [Purged(peer) EXCEPT !.quarantine = "young"]
                   /\ Goes(j, PurgeAt(peer))

\* runZeroConnectionRecovery: with nobody connected the known addresses are dialed.
Recovers(j) ==
  /\ Awaits(j, "recovery") /\ Current(j) /\ UNCHANGED peer /\ SameNode
  /\ \/ Goes(j, "promotion")
     \/ /\ peer.link = "none" /\ peer.known /\ ~peer.left
        /\ peer.configured \/ peer.quarantine # "young"
        /\ Goes(j, "recovering")
Recovered(j) ==
  /\ Awaits(j, "recovering") /\ Current(j) /\ Goes(j, "promotion") /\ SameNode
  /\ peer' \in {Connected(peer), IF peer.configured THEN peer ELSE NotedFailure(peer)}

\* maybePromotePeers, every fifth time: configured addresses that failed are probed ...
Probes(j) ==
  /\ Awaits(j, "promotion") /\ Current(j) /\ peer.configured /\ peer.known /\ ~peer.left /\ peer.link = "none"
  /\ Goes(j, "probing") /\ UNCHANGED peer /\ SameNode
Probed(j) ==
  /\ Awaits(j, "probing") /\ Current(j) /\ peer' \in {peer, Connected(peer)} /\ Goes(j, "ending") /\ SameNode
\* ... and connected peers become bootstrap peers, by a dial that finds their connection.
Promotes(j) ==
  /\ Awaits(j, "promotion") /\ Current(j) /\ UNCHANGED peer /\ SameNode
  /\ \/ Goes(j, "ending")
     \/ peer.link # "none" /\ peer.stored /\ ~peer.left /\ ~peer.boot /\ Goes(j, "promoting")
Promoted(j) ==
  /\ Awaits(j, "promoting") /\ Current(j) /\ Goes(j, "ending") /\ SameNode
  /\ peer' \in {NotedFailure(peer), [Connected(peer) EXCEPT !.boot = TRUE, !.stored = TRUE, !.known = TRUE]}

-----------------------------------------------------------------------------
\* peer:discovery
Discovers ==
  /\ Moves /\ ~peer.left /\ peer.link = "none" /\ peer.quarantine # "young"
  /\ Starting("found", "dialing") /\ UNCHANGED <<peer, node>>
Found ==
  /\ Awaits("found", "dialing") /\ Current("found") /\ SameNode
  /\ \/ peer' = NotedFailure(peer) /\ Goes("found", "idle")
     \/ /\ peer' = Connected(peer)
        /\ Goes("found", IF peer.left /\ ~Needed THEN "hangingUp" ELSE "idle")
FoundHangsUp ==
  /\ Awaits("found", "hangingUp") /\ Current("found") /\ Goes("found", "idle") /\ SameNode
  /\ peer' = [peer EXCEPT !.link = "none", !.shares = FALSE]

\* dialBootstrapEntries with an address somebody announced; old quarantine is tried once.
TakesAnnounced ==
  /\ Moves /\ peer.quarantine # "young" /\ Starting("intake", "dialing")
  /\ peer' = [peer EXCEPT !.quarantine = "no"] /\ UNCHANGED node
\* ... with one the user configured.
TakesConfigured ==
  /\ Moves /\ node.joined /\ Starting("intake", "dialing") /\ UNCHANGED node
  /\ peer' = [peer EXCEPT !.configured = TRUE, !.left = FALSE, !.known = TRUE, !.boot = TRUE]
\* The dial came through: to a lishnet that was left, it is taken back.
TakenIn ==
  /\ Awaits("intake", "dialing") /\ Current("intake") /\ SameNode
  /\ LET late == (peer.left \/ ~node.joined) /\ ~Needed
     IN  IF late THEN /\ peer' = [Connected(peer) EXCEPT !.left = TRUE, !.link = "unwanted"]
                      /\ Goes("intake", "untagging")
         ELSE /\ \E verified \in BOOLEAN :
                   peer' = [Connected(peer) EXCEPT !.boot = TRUE, !.stored = TRUE, !.known = @ \/ verified]
              /\ Goes("intake", "idle")
\* It failed; the address may turn out to be somebody else's.
IntakeFails ==
  /\ Awaits("intake", "dialing") /\ Current("intake") /\ SameNode
  /\ \/ Goes("intake", "idle") /\ peer' \in {NotedFailure(peer), [peer EXCEPT !.quarantine = "young"]}
     \/ peer.link = "none" /\ Goes("intake", "deleting") /\ peer' = Purged(peer)

\* disconnectPeer for a peer of the lishnet that is left.
Leaves ==
  /\ Moves /\ node.joined /\ peer.link # "none" /\ ~peer.configured /\ Starting("leave", "untagging")
  /\ node' = [node EXCEPT !.joined = FALSE]
  /\ peer' = [peer EXCEPT !.left = TRUE, !.shares = FALSE, !.link = "unwanted"]
\* releaseIfClaimed after each await: somebody else may want the peer by now.
Untagged(j) ==
  /\ Awaits(j, "untagging") /\ Current(j) /\ SameNode
  /\ IF Needed THEN peer' = [peer EXCEPT !.left = FALSE] /\ Goes(j, "idle")
     ELSE UNCHANGED peer /\ Goes(j, "hangingUp")
HungUp(j) ==
  /\ Awaits(j, "hangingUp") /\ Current(j) /\ SameNode
  /\ \E hung \in BOOLEAN :
       LET p == IF hung THEN [peer EXCEPT !.link = "none", !.shares = FALSE] ELSE peer
       IN  IF p.configured \/ p.shares THEN peer' = [p EXCEPT !.left = FALSE] /\ Goes(j, "idle")
           ELSE peer' = Purged(p) /\ Goes(j, PurgeAt(p))

Joins == Moves /\ node' = [node EXCEPT !.joined = TRUE] /\ peer' = [peer EXCEPT !.left = FALSE] /\ UNCHANGED job
\* pruneConfiguredBootstrapPeer
Unconfigures ==
  /\ Moves /\ peer.configured /\ peer' = [peer EXCEPT !.configured = FALSE, !.boot = FALSE, !.known = FALSE]
  /\ UNCHANGED <<node, job>>

PeerDialsIn == Moves /\ node.running /\ peer.link = "none" /\ peer' = Connected(peer) /\ UNCHANGED <<node, job>>
PeerDisconnects ==
  /\ Moves /\ peer.link # "none" /\ peer' = [peer EXCEPT !.link = "none", !.shares = FALSE] /\ UNCHANGED <<node, job>>
PeerShares ==
  /\ peer.link # "none" /\ node.joined /\ ~peer.shares /\ peer' = [peer EXCEPT !.shares = TRUE]
  /\ UNCHANGED job /\ SameNode
QuarantineAges ==
  peer.quarantine = "young" /\ peer' = [peer EXCEPT !.quarantine = "old"] /\ UNCHANGED job /\ SameNode

\* teardown forgets all but the store; jobs return when their await does.
StopNode ==
  /\ Moves /\ node.running /\ peer' = [NewPeer EXCEPT !.stored = peer.stored]
  /\ node' = [epoch |-> node.epoch + 1, running |-> FALSE, ticking |-> FALSE, joined |-> FALSE] /\ UNCHANGED job
StartNode == ~node.running /\ node' = [node EXCEPT !.running = TRUE, !.joined = TRUE] /\ UNCHANGED <<peer, job, upkeep>>

UpkeepNext ==
  \/ \E j \in Jobs : Outdated(j) \/ Closes(j) \/ Deletes(j) \/ Restores(j)
  \/ \E j \in Ticks : TickFires(j) \/ TickEnds(j) \/ Chooses(j) \/ Redialed(j) \/ Recovers(j) \/ Recovered(j)
                      \/ Probes(j) \/ Probed(j) \/ Promotes(j) \/ Promoted(j)
  \/ \E j \in {"leave", "intake"} : Untagged(j) \/ HungUp(j)
  \/ Discovers \/ Found \/ FoundHangsUp \/ TakesAnnounced \/ TakesConfigured \/ TakenIn \/ IntakeFails
  \/ Leaves \/ Joins \/ Unconfigures \/ PeerDialsIn \/ PeerDisconnects \/ PeerShares \/ QuarantineAges
  \/ StopNode \/ StartNode

-----------------------------------------------------------------------------
\* A peer that is connected and was not left is in the peer store once no job is purging it,
\* also when it came back in the middle of its eviction.
KeptWhileConnected ==
  peer.link = "wanted" /\ (\A j \in Jobs : job[j].at \notin {"closing", "deleting", "restoring"}) => peer.stored

\* However long a tick of an earlier run takes, two ticks of one run never overlap.
OneTick == \A j, k \in Ticks :
  j # k => ~(/\ job[j].at # "idle" /\ job[k].at # "idle" /\ Current(j) /\ Current(k))

\* Not so (README, Divergences): a dial of the node's own that brings back a peer that was left
\* meanwhile is taken back.
LeftIsTakenBack ==
  [][peer.left /\ peer.link = "none" /\ peer'.link # "none" /\ upkeep' = upkeep
     => job'["found"].at = "hangingUp" \/ job'["intake"].at = "untagging"]_upkeepVars
=============================================================================
