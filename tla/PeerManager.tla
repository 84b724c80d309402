---------------------------- MODULE PeerManager ----------------------------
(***************************************************************************)
(* The peers of one download (peer-manager.ts) among those who change      *)
(* them: HAVE announcements and discovery probes that dial                 *)
(* (downloader.ts), the runs of the transfer engine with one loop per      *)
(* connected peer and the promises they are awaited by                     *)
(* (chunk-downloader.ts), network disconnects, disable, enable, destroy.   *)
(*                                                                         *)
(* A client is one stream, numbered in the order they are dialled.  What a *)
(* loop transfers is left out: it lives until it drops or bans its peer or *)
(* finds a reason to go home.  A probe's first stream, which is closed     *)
(* again on every path, is not counted.                                    *)
(***************************************************************************)
EXTENDS Naturals, FiniteSets

CONSTANTS Remote,
          Dialer,       \* announcements and probes that may be at work at once
          Cap,          \* maxDownloadPeersPerLISH, 0 for no limit
          MaxClients    \* bound: streams dialled

ASSUME BoundAssumption == Cap \in Nat /\ MaxClients \in Nat /\ IsFiniteSet(Remote) /\ Remote # {}

Client == 1..MaxClients
None == 0
State == {"on", "disabled", "failed", "downloaded", "destroyed", "released"}

VARIABLES peers,        \* the client of each connected peer, None if there is none
          dropped, banned, active, \* the other sets of the PeerManager
          open,         \* streams that are open
          made,         \* streams dialled so far
          dial,         \* per dialer: what it is doing, with which peer and client
          run,          \* the transfer engine: "off", "on" or "closing"
          promises, awaited, \* peerLoopPromises, and the entries it is awaiting
          toClose,      \* clients the end of a run has still to close
          loop,         \* per client: its loop, with the peer it serves and the client it closes
          state

managerVars == <<peers, dropped, banned, active>>
runVars == <<run, promises, awaited, toClose>>
peersVars == <<managerVars, open, made, dial, runVars, loop, state>>

Connected == {p \in Remote : peers[p] # None}
Clients == {peers[p] : p \in Connected}
Anyone == CHOOSE p \in Remote : TRUE
NoLoop == [at |-> "none", peer |-> Anyone, closes |-> None]
Live(p) == [at |-> "live", peer |-> p, closes |-> None]
Closed == {loop[c].closes : c \in Client}
Waiting == [at |-> "idle", peer |-> Anyone, client |-> None]
HasCapacity == Cap = 0 \/ Cardinality(Connected) < Cap
Destroyed == state \in {"destroyed", "released"}

PeersTypeOK ==
  /\ peers \in [Remote -> {None} \cup Client]
  /\ dropped \subseteq Remote /\ banned \subseteq Remote /\ active \subseteq Remote
  /\ open \subseteq Client /\ made \in 0..MaxClients
  /\ dial \in [Dialer -> [at : {"idle", "asking", "refused", "dialing", "closing"},
                          peer : Remote, client : {None} \cup Client]]
  /\ run \in {"off", "on", "closing"}
  /\ promises \in [Remote -> {None} \cup Client]
  /\ awaited \subseteq Remote \X Client
  /\ toClose \subseteq Client
  /\ loop \in [Client -> [at : {"none", "live", "dropping"}, peer : Remote,
                          closes : {None} \cup Client]]
  /\ state \in State

PeersInit ==
  /\ peers = [p \in Remote |-> None]
  /\ dropped = {} /\ banned = {} /\ active = {}
  /\ open = {} /\ made = 0
  /\ dial = [d \in Dialer |-> Waiting]
  /\ run = "off" /\ promises = [p \in Remote |-> None] /\ awaited = {} /\ toClose = {}
  /\ loop = [c \in Client |-> NoLoop]
  /\ state = "on"

-----------------------------------------------------------------------------
(* The manager *)

\* remove and removeAwait, up to the closing of the client.
Remove(p, reason) ==
  /\ peers' = [peers EXCEPT ![p] = None]
  /\ active' = active \ {p}
  /\ dropped' = IF reason = "drop" THEN dropped \cup {p} ELSE dropped
  /\ banned' = IF reason = "ban" THEN banned \cup {p} ELSE banned

\* closeAll: the streams are aborted at once.
CloseAll ==
  /\ peers' = [p \in Remote |-> None]
  /\ active' = {}
  /\ open' = open \ Clients

-----------------------------------------------------------------------------
(* Dialling *)

At(d, where, p, c) == dial' = [dial EXCEPT ![d] = [at |-> where, peer |-> p, client |-> c]]
Idles(d) == dial' = [dial EXCEPT ![d] = Waiting]

\* A HAVE ends a quarantine, and makes us dial a peer we are not connected to.
Announced(d, p) ==
  /\ dial[d].at = "idle" /\ state = "on"
  /\ p \notin banned
  /\ dropped' = dropped \ {p}
  /\ IF p \in Connected \/ ~HasCapacity THEN UNCHANGED dial ELSE At(d, "dialing", p, None)
  /\ UNCHANGED <<peers, banned, active, open, made, runVars, loop, state>>

\* A probe asks a topic peer whether it has the LISH.  A discovery that began
\* earlier goes on after a disable, an error or the end of the download.
Probe(d, p) ==
  /\ dial[d].at = "idle" /\ ~Destroyed
  /\ HasCapacity /\ p \notin Connected \cup banned \cup dropped
  /\ At(d, "asking", p, None)
  /\ UNCHANGED <<managerVars, open, made, runVars, loop, state>>

Unreachable(d) ==
  /\ dial[d].at \in {"asking", "dialing"}
  /\ Idles(d)
  /\ UNCHANGED <<managerVars, open, made, runVars, loop, state>>

\* It has not, or fails: whoever is connected under this name is dropped, and
\* again once the stream of the probe is closed.
ProbeDrops(d, next) == LET p == dial[d].peer IN
  /\ Remove(p, "drop")
  /\ open' = open \ {peers[p]}
  /\ next
  /\ UNCHANGED <<made, runVars, loop, state>>

ProbeFails(d) == dial[d].at = "asking" /\ ProbeDrops(d, At(d, "refused", dial[d].peer, None))

ProbeRefused(d) ==
  /\ dial[d].at = "refused"
  /\ \/ ~Destroyed /\ ProbeDrops(d, Idles(d))
     \/ Destroyed /\ Idles(d) /\ UNCHANGED <<managerVars, open, made, runVars, loop, state>>

ProbeAnswered(d) ==
  /\ dial[d].at = "asking"
  /\ IF Destroyed THEN Idles(d) ELSE At(d, "dialing", dial[d].peer, None)
  /\ UNCHANGED <<managerVars, open, made, runVars, loop, state>>

\* tryAdd, and spawnPeerLoop when a run listens.
Add(p, c) ==
  /\ peers' = [peers EXCEPT ![p] = c]
  /\ IF run = "on" /\ p \notin active
       THEN /\ active' = active \cup {p}
            /\ loop' = [loop EXCEPT ![c] = Live(p)]
            /\ promises' = [promises EXCEPT ![p] = c]
       ELSE UNCHANGED <<active, loop, promises>>

\* Mutant: the capacity that was checked before the dial is still good.
OfferUncapped(d, p, c) ==
  IF p \in Connected
    THEN At(d, "closing", p, c) /\ UNCHANGED <<peers, active, loop, promises>>
    ELSE Add(p, c) /\ Idles(d)

\* Mutant: the second stream to a peer takes the place of the first.
OfferOver(d, p, c) ==
  IF p \notin Connected /\ ~HasCapacity
    THEN At(d, "closing", p, c) /\ UNCHANGED <<peers, active, loop, promises>>
    ELSE Add(p, c) /\ Idles(d)

\* A member of the manager if there is room and nobody was faster, otherwise
\* to be closed.
Offer(d, p, c) ==
  IF p \in Connected \/ ~HasCapacity
    THEN At(d, "closing", p, c) /\ UNCHANGED <<peers, active, loop, promises>>
    ELSE Add(p, c) /\ Idles(d)

\* Mutant: the download is not looked at again after the dial.
DialedLate(d) ==
  /\ dial[d].at = "dialing" /\ made < MaxClients
  /\ made' = made + 1
  /\ open' = open \cup {made'}
  /\ Offer(d, dial[d].peer, made')
  /\ UNCHANGED <<dropped, banned, run, awaited, toClose, state>>

\* The stream is there: aborted after a destroy.
Dialed(d) ==
  /\ dial[d].at = "dialing" /\ made < MaxClients
  /\ made' = made + 1
  /\ IF Destroyed
       THEN Idles(d) /\ UNCHANGED <<peers, active, open, loop, promises>>
       ELSE open' = open \cup {made'} /\ Offer(d, dial[d].peer, made')
  /\ UNCHANGED <<dropped, banned, run, awaited, toClose, state>>

DialClosed(d) ==
  /\ dial[d].at = "closing"
  /\ open' = open \ {dial[d].client}
  /\ Idles(d)
  /\ UNCHANGED <<managerVars, made, runVars, loop, state>>

-----------------------------------------------------------------------------
(* Runs of the transfer engine *)

Entries(f) == {<<p, f[p]>> : p \in {q \in Remote : f[q] # None}}

\* doWork: one loop for every connected peer, and all of them awaited.  A disable
\* is noticed when doWork begins and by the loops.
RunStart ==
  /\ run = "off" /\ state \in {"on", "disabled"} /\ Connected # {}
  /\ run' = "on"
  /\ active' = active \cup Connected
  /\ loop' = [c \in Client |->
                IF c \in Clients THEN Live(CHOOSE p \in Remote : peers[p] = c) ELSE loop[c]]
  /\ promises' = peers
  /\ awaited' = Entries(peers)
  /\ UNCHANGED <<peers, dropped, banned, open, made, dial, toClose, state>>

Settled == run = "on" /\ \A e \in awaited : loop[e[2]] = NoLoop

\* Mutant: the awaited promises are kept.
RestKept == promises

\* The promises left when the awaited ones are deleted, by peer.
Rest == [p \in Remote |-> IF \E e \in awaited : e[1] = p THEN None ELSE promises[p]]

\* Loops joined meanwhile: they are awaited next.
RunGoesOn ==
  /\ Settled /\ Entries(Rest) # {}
  /\ promises' = Rest /\ awaited' = Entries(Rest)
  /\ UNCHANGED <<managerVars, open, made, dial, run, toClose, loop, state>>

\* All settled: the callback is unwired and the clients are closed.
RunSettles ==
  /\ Settled /\ Entries(Rest) = {}
  /\ run' = "closing" /\ promises' = Rest /\ awaited' = {}
  /\ toClose' = Clients
  /\ peers' = [p \in Remote |-> None] /\ active' = {}
  /\ UNCHANGED <<dropped, banned, open, made, dial, loop, state>>

RunCloses == \E c \in toClose :
  /\ run = "closing"
  /\ open' = open \ {c} /\ toClose' = toClose \ {c}
  /\ UNCHANGED <<managerVars, made, dial, run, promises, awaited, loop, state>>

\* Complete, or to be retried with new streams.
RunEnds ==
  /\ run = "closing" /\ toClose = {}
  /\ run' = "off"
  /\ \/ state \in {"on", "disabled"} /\ state' = "downloaded" /\ UNCHANGED <<peers, active, open>>
     \/ ~Destroyed /\ CloseAll /\ UNCHANGED state
     \/ Destroyed /\ UNCHANGED <<peers, active, open, state>>
  /\ UNCHANGED <<dropped, banned, made, dial, promises, awaited, toClose, loop>>

\* A loop drops its peer (a dead stream, ten busy answers, nothing it could
\* serve) or bans it (three bad chunks): whatever client the peer has by now.
LoopDrops(c, reason) == LET p == loop[c].peer IN
  /\ loop[c].at = "live"
  /\ Remove(p, reason)
  /\ loop' = [loop EXCEPT ![c].at = "dropping", ![c].closes = peers[p]]
  /\ UNCHANGED <<open, made, dial, runVars, state>>

LoopDropped(c) ==
  /\ loop[c].at = "dropping"
  /\ open' = open \ {loop[c].closes}
  /\ loop' = [loop EXCEPT ![c] = NoLoop]
  /\ active' = active \ {loop[c].peer}
  /\ UNCHANGED <<peers, dropped, banned, made, dial, runVars, state>>

\* Nothing left to do, or the download was stopped.
LoopEnds(c) ==
  /\ loop[c].at = "live"
  /\ loop' = [loop EXCEPT ![c] = NoLoop]
  /\ active' = active \ {loop[c].peer}
  /\ UNCHANGED <<peers, dropped, banned, open, made, dial, runVars, state>>

-----------------------------------------------------------------------------
(* The network and the owner *)

\* Mutant: the mark of the loop stays behind.
DisconnectMarked(p) ==
  /\ p \in Connected /\ state \in {"on", "disabled"}
  /\ peers' = [peers EXCEPT ![p] = None] /\ open' = open \ {peers[p]}
  /\ UNCHANGED <<dropped, banned, active, made, dial, runVars, loop, state>>

\* The connection is gone (the handler is released with the download).
Disconnect(p) ==
  /\ p \in Connected /\ state \in {"on", "disabled"}
  /\ Remove(p, "disconnect")
  /\ open' = open \ {peers[p]}
  /\ UNCHANGED <<made, dial, runVars, loop, state>>

Reset ==
  /\ state = "on" /\ dropped # {}
  /\ dropped' = {}
  /\ UNCHANGED <<peers, banned, active, open, made, dial, runVars, loop, state>>

Disable ==
  /\ state = "on" /\ state' = "disabled"
  /\ CloseAll
  /\ UNCHANGED <<dropped, banned, made, dial, runVars, loop>>

EnableDownload ==
  /\ state = "disabled" /\ state' = "on"
  /\ dropped' = {}
  /\ UNCHANGED <<peers, banned, active, open, made, dial, runVars, loop>>

\* setError
SetError ==
  /\ state \in {"on", "disabled"} /\ state' = "failed"
  /\ CloseAll
  /\ UNCHANGED <<dropped, banned, made, dial, runVars, loop>>

Destroy ==
  /\ state \in {"on", "disabled", "failed"} /\ state' = "destroyed"
  /\ CloseAll
  /\ UNCHANGED <<dropped, banned, made, dial, runVars, loop>>

\* destroy waits for the dials and the run, and returns.
Released ==
  /\ state = "destroyed" /\ run = "off" /\ \A d \in Dialer : dial[d].at = "idle"
  /\ state' = "released"
  /\ UNCHANGED <<managerVars, open, made, dial, runVars, loop>>

Dialing(d) == Unreachable(d) \/ ProbeFails(d) \/ ProbeRefused(d) \/ ProbeAnswered(d) \/ Dialed(d) \/ DialClosed(d)
Looping(c) == LoopEnds(c) \/ LoopDropped(c) \/ \E reason \in {"drop", "ban"} : LoopDrops(c, reason)
Running == RunGoesOn \/ RunSettles \/ RunCloses \/ RunEnds

PeersNext == \/ \E d \in Dialer, p \in Remote : Announced(d, p) \/ Probe(d, p)
             \/ \E d \in Dialer : Dialing(d)
             \/ \E c \in Client : Looping(c)
             \/ RunStart \/ Running
             \/ \E p \in Remote : Disconnect(p)
             \/ Reset \/ Disable \/ EnableDownload \/ SetError \/ Destroy \/ Released

PeersSpec == PeersInit /\ [][PeersNext]_peersVars

\* Dials and requests end with an answer or a timeout, and a loop that asks
\* a closed stream goes home: whatever is under way, something goes on.
PeersFairness == WF_peersVars(\/ \E d \in Dialer : Dialing(d)
                              \/ \E c \in Client : Looping(c)
                              \/ Running \/ Released)

PeersFairSpec == PeersSpec /\ PeersFairness

-----------------------------------------------------------------------------
(* Properties *)

\* The limit holds whatever dials are in flight when it is checked.
CapRespected == Cap = 0 \/ Cardinality(Connected) <= Cap

\* A peer is marked active only while it is connected, and every entry maps to
\* a stream that is open.
EntriesAreLive == active \subseteq Connected /\ Clients \subseteq open

\* Every open stream is in the manager or in the hands of somebody who will
\* close it.
NoStreamLeaks ==
  open \subseteq Clients \cup toClose \cup Closed \cup {dial[d].client : d \in Dialer}

\* When destroy has returned, no stream of the download is open, except one
\* that a loop no run waits for is just closing.
DestroyLeavesNobody == state = "released" => open \subseteq Closed

\* destroy returns.
DestroyReturns == (state = "destroyed") ~> (state = "released")

-----------------------------------------------------------------------------
(* What the code does not guarantee (README, Divergences) *)

\* A download that is over and has nobody dialling holds no stream.
FinishedHoldsNobody ==
  state = "downloaded" /\ run = "off" /\ (\A d \in Dialer : dial[d].at = "idle") => Connected = {}

\* A peer is in at most one of the three sets.
OnePlace == /\ Connected \cap (dropped \cup banned) = {}
            /\ dropped \cap banned = {}

\* A peer that comes back while its loop is ending does not get a second one.
OneLoopPerPeer ==
  \A c, k \in Client :
    c # k /\ loop[c] # NoLoop /\ loop[k] # NoLoop => loop[c].peer # loop[k].peer

\* A run is over only when all its loops have settled.
RunAwaitsLoops == run = "off" => \A c \in Client : loop[c] = NoLoop
=============================================================================
