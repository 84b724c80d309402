---------------------------- MODULE EngineProofs ----------------------------
(***************************************************************************)
(* Proofs about the transfer engine: one run of it (ChunkDownloader), for  *)
(* any finite set of peers, any chunks, any limits and any number of       *)
(* faults and answers; and the peers of a download over many runs          *)
(* (PeerManager), for any finite set of them, any set of dialers, any      *)
(* limit and any number of streams.                                        *)
(***************************************************************************)
EXTENDS ChunkDownloader, PeerManager, FiniteSetTheorems, WellFoundedInduction, TLAPS

-----------------------------------------------------------------------------
(***************************************************************************)
(* The peers of a download, over many runs.                                *)
(***************************************************************************)

\* A stream is numbered when it is dialled: whoever holds one, or loops on
\* one, does so with a number given out already.
Numbered ==
  /\ \A p \in Remote : peers[p] <= made
  /\ \A c \in Client : loop[c].closes <= made /\ (loop[c].at # "none" => c <= made)
  /\ \A d \in Dialer : dial[d].client <= made
  /\ \A c \in toClose : c <= made

\* Whoever has nothing to close holds no stream.
HandsEmpty ==
  /\ \A c \in Client : loop[c].at # "dropping" => loop[c].closes = None
  /\ \A d \in Dialer : dial[d].at # "closing" => dial[d].client = None
  /\ run # "closing" => toClose = {}

\* The stream of a connected peer is open, is the stream of no other peer, is
\* in nobody's hands to be closed, and its loop serves that peer and is not on
\* the way out.
HeldOnce ==
  \A p \in Remote : peers[p] # None =>
    /\ peers[p] \in open
    /\ \A q \in Remote : peers[q] = peers[p] => q = p
    /\ peers[p] \notin toClose
    /\ \A c \in Client : loop[c].closes # peers[p]
    /\ \A d \in Dialer : dial[d].client # peers[p]
    /\ loop[peers[p]].at # "dropping"
    /\ loop[peers[p]].at = "live" => loop[peers[p]].peer = p

\* A destroyed download has no peer, and one that is released has no run and no
\* dial either.
DestroyedIsEmpty ==
  /\ Destroyed => \A p \in Remote : peers[p] = None
  /\ state = "released" => run = "off" /\ \A d \in Dialer : dial[d].at = "idle"

\* What a step may do to the set of connected peers.
Room ==
  \/ Connected' \subseteq Connected
  \/ HasCapacity /\ \E p \in Remote : Connected' = Connected \cup {p}

Inv == PeersTypeOK /\ Numbered /\ HandsEmpty /\ HeldOnce /\ DestroyedIsEmpty /\ active \subseteq Connected

\* A dialer and a loop at rest are well formed and hold nothing.
LEMMA Resting ==
  /\ Waiting \in [at : {"idle", "asking", "refused", "dialing", "closing"}, peer : Remote, client : {None} \cup Client]
  /\ NoLoop \in [at : {"none", "live", "dropping"}, peer : Remote, closes : {None} \cup Client]
  /\ Waiting.at = "idle" /\ Waiting.client = None
  /\ NoLoop.at = "none" /\ NoLoop.closes = None
<1>1. Anyone \in Remote
  BY BoundAssumption DEF Anyone
<1>. QED BY <1>1 DEF Waiting, NoLoop, None

\* What a run reads: the streams of the connected peers, the peer a stream
\* belongs to, and the promises that are left.
LEMMA RunReads ==
  ASSUME PeersTypeOK
  PROVE  /\ Clients \subseteq Client
         /\ \A c \in Clients : LET p == CHOOSE p \in Remote : peers[p] = c
                              IN  p \in Remote /\ peers[p] = c
         /\ Rest \in [Remote -> {None} \cup Client]
         /\ \A f \in [Remote -> {None} \cup Client] : Entries(f) \subseteq Remote \X Client
<1>1. Clients \subseteq Client
  BY DEF PeersTypeOK, Clients, Connected, Client, None
<1>2. \A c \in Clients : \E p \in Remote : peers[p] = c
  BY DEF Clients, Connected
<1>3. Rest \in [Remote -> {None} \cup Client]
  BY DEF PeersTypeOK, Rest
<1>4. \A f \in [Remote -> {None} \cup Client] : Entries(f) \subseteq Remote \X Client
  BY DEF Entries
<1>. QED BY <1>1, <1>2, <1>3, <1>4

\* A new stream goes to its peer, if there is room and the download goes on, or
\* into the hands of the dial.
LEMMA DialedSteps ==
  ASSUME PeersTypeOK, NEW d \in Dialer, Dialed(d)
  PROVE  /\ made' = made + 1 /\ made' \in Client /\ dial[d].peer \in Remote
         /\ \A e \in Dialer \ {d} : dial'[e] = dial[e]
         /\ dial'[d].client = None \/ (dial'[d].at = "closing" /\ dial'[d].client = made')
         /\ \/ /\ UNCHANGED <<peers, active, loop, promises>>
               /\ open' = open \/ (open' = open \cup {made'} /\ dial'[d].client = made')
            \/ /\ Add(dial[d].peer, made') /\ dial'[d].client = None
               /\ open' = open \cup {made'}
               /\ peers[dial[d].peer] = None /\ HasCapacity /\ ~Destroyed
<1>1. made' = made + 1 /\ made' \in Client /\ dial[d].peer \in Remote
  BY BoundAssumption DEF Dialed, PeersTypeOK, Client
<1>2. /\ \A e \in Dialer \ {d} : dial'[e] = dial[e]
      /\ dial'[d].client = None \/ (dial'[d].at = "closing" /\ dial'[d].client = made')
  BY Resting DEF Dialed, Offer, At, Idles, PeersTypeOK
<1>3. \/ /\ UNCHANGED <<peers, active, loop, promises>>
         /\ open' = open \/ (open' = open \cup {made'} /\ dial'[d].client = made')
      \/ /\ Add(dial[d].peer, made') /\ dial'[d].client = None
         /\ open' = open \cup {made'}
         /\ peers[dial[d].peer] = None /\ HasCapacity /\ ~Destroyed
  BY <1>1, Resting DEF Dialed, Offer, At, Idles, Connected, PeersTypeOK
<1>. QED BY <1>1, <1>2, <1>3

\* What an addition does, the new stream being nobody's yet.
LEMMA AddSteps ==
  ASSUME PeersTypeOK, NEW p \in Remote, NEW c \in Client, Add(p, c)
  PROVE  /\ peers' = [peers EXCEPT ![p] = c]
         /\ Connected' = Connected \cup {p}
         /\ active' \subseteq active \cup {p}
         /\ \A k \in Client \ {c} : loop'[k] = loop[k]
         /\ loop'[c] = loop[c] \/ loop'[c] = [at |-> "live", peer |-> p, closes |-> None]
<1>1. peers' = [peers EXCEPT ![p] = c] /\ active' \subseteq active \cup {p}
  BY DEF Add
<1>2. Connected' = Connected \cup {p}
  BY <1>1 DEF Connected, Client, None, PeersTypeOK
<1>3. /\ \A k \in Client \ {c} : loop'[k] = loop[k]
      /\ loop'[c] = loop[c] \/ loop'[c] = [at |-> "live", peer |-> p, closes |-> None]
  BY DEF Add, Live, PeersTypeOK
<1>. QED BY <1>1, <1>2, <1>3

\* Every step keeps the types.
LEMMA TypeStep == PeersTypeOK /\ [PeersNext]_peersVars => PeersTypeOK'
<1>. SUFFICES ASSUME PeersTypeOK, [PeersNext]_peersVars PROVE PeersTypeOK'
  OBVIOUS
<1>1. ASSUME NEW d \in Dialer, NEW p \in Remote, Announced(d, p) PROVE PeersTypeOK'
  <2>1. dial' \in [Dialer -> [at : {"idle", "asking", "refused", "dialing", "closing"}, peer : Remote, client : {None} \cup Client]]
    BY <1>1 DEF Announced, At, PeersTypeOK
  <2>. QED BY <1>1, <2>1 DEF Announced, managerVars, runVars, PeersTypeOK
<1>2. ASSUME NEW d \in Dialer, NEW p \in Remote, Probe(d, p) PROVE PeersTypeOK'
  BY <1>2, BoundAssumption, Resting DEF Probe, At, managerVars, runVars, PeersTypeOK, Client, State, None
<1>3. ASSUME NEW d \in Dialer, Unreachable(d) PROVE PeersTypeOK'
  BY <1>3, BoundAssumption, Resting DEF Unreachable, Idles, managerVars, runVars, PeersTypeOK, Client, State, None
<1>4. ASSUME NEW d \in Dialer, ProbeFails(d) PROVE PeersTypeOK'
  BY <1>4, BoundAssumption, Resting DEF ProbeFails, ProbeDrops, Remove, At, runVars, PeersTypeOK, Client, State, None
<1>5. ASSUME NEW d \in Dialer, ProbeRefused(d) PROVE PeersTypeOK'
  <2>1. dial' \in [Dialer -> [at : {"idle", "asking", "refused", "dialing", "closing"}, peer : Remote, client : {None} \cup Client]]
    BY <1>5, Resting DEF ProbeRefused, ProbeDrops, Idles, PeersTypeOK
  <2>. QED BY <1>5, <2>1 DEF ProbeRefused, ProbeDrops, Remove, managerVars, runVars, PeersTypeOK
<1>6. ASSUME NEW d \in Dialer, ProbeAnswered(d) PROVE PeersTypeOK'
  BY <1>6, BoundAssumption, Resting DEF ProbeAnswered, At, Idles, managerVars, runVars, PeersTypeOK, Client, State, None
<1>7. ASSUME NEW d \in Dialer, Dialed(d) PROVE PeersTypeOK'
  <2>1. made' \in Client /\ made' \in 0..MaxClients
    BY <1>7, BoundAssumption DEF Dialed, PeersTypeOK, Client
  <2>2. dial' \in [Dialer -> [at : {"idle", "asking", "refused", "dialing", "closing"}, peer : Remote, client : {None} \cup Client]]
    BY <1>7, <2>1, Resting DEF Dialed, Offer, At, Idles, PeersTypeOK
  <2>3. dial[d].peer \in Remote
    BY DEF PeersTypeOK
  <2>4. CASE Add(dial[d].peer, made')
    <3>1. Live(dial[d].peer) \in [at : {"none", "live", "dropping"}, peer : Remote, closes : {None} \cup Client]
      BY <2>3 DEF Live
    <3>2. loop' \in [Client -> [at : {"none", "live", "dropping"}, peer : Remote, closes : {None} \cup Client]]
      BY <2>1, <2>4, <3>1 DEF Add, PeersTypeOK
    <3>3. peers' \in [Remote -> {None} \cup Client]
      BY <2>1, <2>3, <2>4 DEF Add, PeersTypeOK
    <3>4. active' \subseteq Remote /\ promises' \in [Remote -> {None} \cup Client]
      BY <2>1, <2>3, <2>4 DEF Add, PeersTypeOK
    <3>. QED BY <1>7, <2>1, <2>2, <3>2, <3>3, <3>4 DEF Dialed, PeersTypeOK
  <2>5. CASE UNCHANGED <<peers, active, loop, promises>>
    BY <1>7, <2>1, <2>2, <2>5 DEF Dialed, PeersTypeOK
  <2>. QED BY <1>7, <2>4, <2>5 DEF Dialed, Offer
<1>8. ASSUME NEW d \in Dialer, DialClosed(d) PROVE PeersTypeOK'
  BY <1>8, BoundAssumption, Resting DEF DialClosed, Idles, managerVars, runVars, PeersTypeOK, Client, State, None
<1>9. ASSUME NEW c \in Client, LoopEnds(c) PROVE PeersTypeOK'
  BY <1>9, BoundAssumption, Resting DEF LoopEnds, runVars, PeersTypeOK, Client, State, None
<1>10. ASSUME NEW c \in Client, LoopDropped(c) PROVE PeersTypeOK'
  BY <1>10, BoundAssumption, Resting DEF LoopDropped, runVars, PeersTypeOK, Client, State, None
<1>11. ASSUME NEW c \in Client, NEW reason, LoopDrops(c, reason) PROVE PeersTypeOK'
  <2>1. loop[c].peer \in Remote /\ peers[loop[c].peer] \in {None} \cup Client
    BY DEF PeersTypeOK
  <2>2. loop' \in [Client -> [at : {"none", "live", "dropping"}, peer : Remote, closes : {None} \cup Client]]
    <3>1. loop \in [Client -> [at : {"none", "live", "dropping"}, peer : Remote, closes : {None} \cup Client]]
      BY DEF PeersTypeOK
    <3>2. loop' = [loop EXCEPT ![c].at = "dropping", ![c].closes = peers[loop[c].peer]]
      BY <1>11 DEF LoopDrops
    <3>3. loop'[c] \in [at : {"none", "live", "dropping"}, peer : Remote, closes : {None} \cup Client]
      <4>1. loop'[c] = [loop[c] EXCEPT !.at = "dropping", !.closes = peers[loop[c].peer]]
        BY <3>1, <3>2
      <4>2. loop[c] \in [at : {"none", "live", "dropping"}, peer : Remote, closes : {None} \cup Client]
        BY <3>1
      <4>3. QED
        BY <2>1, <4>1, <4>2
    <3>4. \A k \in Client : k # c => loop'[k] = loop[k]
      BY <3>1, <3>2
    <3>5. DOMAIN loop' = Client /\ loop' = [k \in Client |-> loop'[k]]
      BY <3>1, <3>2
    <3>6. QED
      BY <3>1, <3>3, <3>4, <3>5
  <2>. QED BY <1>11, <2>1, <2>2 DEF LoopDrops, Remove, runVars, PeersTypeOK
<1>12. CASE RunStart
  <2>1. loop' \in [Client -> [at : {"none", "live", "dropping"}, peer : Remote, closes : {None} \cup Client]]
    BY <1>12, RunReads DEF RunStart, Live, PeersTypeOK
  <2>2. awaited' \subseteq Remote \X Client
    BY <1>12, RunReads DEF RunStart, PeersTypeOK
  <2>. QED BY <1>12, <2>1, <2>2 DEF RunStart, Connected, PeersTypeOK
<1>13. CASE RunGoesOn
  BY <1>13, RunReads DEF RunGoesOn, managerVars, PeersTypeOK
<1>14. CASE RunSettles
  BY <1>14, RunReads DEF RunSettles, PeersTypeOK
<1>15. CASE RunCloses
  BY <1>15, BoundAssumption, Resting DEF RunCloses, managerVars, PeersTypeOK, Client, State, None
<1>16. CASE RunEnds
  BY <1>16, BoundAssumption, Resting DEF RunEnds, CloseAll, PeersTypeOK, Client, State, None
<1>17. ASSUME NEW p \in Remote, Disconnect(p) PROVE PeersTypeOK'
  BY <1>17, BoundAssumption, Resting DEF Disconnect, Remove, runVars, PeersTypeOK, Client, State, None
<1>18. CASE Reset
  BY <1>18, BoundAssumption, Resting DEF Reset, runVars, PeersTypeOK, Client, State, None
<1>19. CASE Disable
  BY <1>19, BoundAssumption, Resting DEF Disable, CloseAll, runVars, PeersTypeOK, Client, State, None
<1>20. CASE EnableDownload
  BY <1>20, BoundAssumption, Resting DEF EnableDownload, runVars, PeersTypeOK, Client, State, None
<1>21. CASE SetError
  BY <1>21, BoundAssumption, Resting DEF SetError, CloseAll, runVars, PeersTypeOK, Client, State, None
<1>22. CASE Destroy
  BY <1>22, BoundAssumption, Resting DEF Destroy, CloseAll, runVars, PeersTypeOK, Client, State, None
<1>23. CASE Released
  BY <1>23, BoundAssumption, Resting DEF Released, managerVars, runVars, PeersTypeOK, Client, State, None
<1>24. CASE UNCHANGED peersVars
  BY <1>24 DEF peersVars, managerVars, runVars, PeersTypeOK, Client, State, None
<1>. QED BY <1>1, <1>2, <1>3, <1>4, <1>5, <1>6, <1>7, <1>8, <1>9, <1>10, <1>11, <1>12,
          <1>13, <1>14, <1>15, <1>16, <1>17, <1>18, <1>19, <1>20, <1>21, <1>22, <1>23, <1>24
       DEF PeersNext, Dialing, Looping, Running

\* Peers only leave, except the one a new stream is added for while there is room.
LEMMA Joining == PeersTypeOK /\ [PeersNext]_peersVars => Room
<1>. SUFFICES ASSUME PeersTypeOK, [PeersNext]_peersVars PROVE Room
  OBVIOUS
<1>1. ASSUME NEW d \in Dialer, NEW p \in Remote, Announced(d, p) PROVE Room
  BY <1>1 DEF Announced, At, managerVars, runVars, Room, PeersTypeOK, Connected
<1>2. ASSUME NEW d \in Dialer, NEW p \in Remote, Probe(d, p) PROVE Room
  BY <1>2 DEF Probe, At, managerVars, runVars, Room, PeersTypeOK, Connected
<1>3. ASSUME NEW d \in Dialer, Unreachable(d) PROVE Room
  BY <1>3 DEF Unreachable, Idles, managerVars, runVars, Room, PeersTypeOK, Connected
<1>4. ASSUME NEW d \in Dialer, ProbeFails(d) PROVE Room
  BY <1>4 DEF ProbeFails, ProbeDrops, Remove, At, runVars, Room, PeersTypeOK, Connected
<1>5. ASSUME NEW d \in Dialer, ProbeRefused(d) PROVE Room
  BY <1>5 DEF ProbeRefused, ProbeDrops, Remove, Idles, managerVars, runVars, Room, PeersTypeOK, Connected
<1>6. ASSUME NEW d \in Dialer, ProbeAnswered(d) PROVE Room
  BY <1>6 DEF ProbeAnswered, At, Idles, managerVars, runVars, Room, PeersTypeOK, Connected
<1>7. ASSUME NEW d \in Dialer, Dialed(d) PROVE Room
  BY <1>7, DialedSteps, AddSteps DEF Room, Connected
<1>8. ASSUME NEW d \in Dialer, DialClosed(d) PROVE Room
  BY <1>8 DEF DialClosed, Idles, managerVars, runVars, Room, PeersTypeOK, Connected
<1>9. ASSUME NEW c \in Client, LoopEnds(c) PROVE Room
  BY <1>9 DEF LoopEnds, runVars, Room, PeersTypeOK, Connected
<1>10. ASSUME NEW c \in Client, LoopDropped(c) PROVE Room
  BY <1>10 DEF LoopDropped, runVars, Room, PeersTypeOK, Connected
<1>11. ASSUME NEW c \in Client, NEW reason, LoopDrops(c, reason) PROVE Room
  BY <1>11 DEF LoopDrops, Remove, runVars, Room, PeersTypeOK, Connected
<1>12. CASE RunStart
  BY <1>12 DEF RunStart, Room, Connected
<1>13. CASE RunGoesOn
  BY <1>13 DEF RunGoesOn, managerVars, Room, PeersTypeOK, Connected
<1>14. CASE RunSettles
  BY <1>14 DEF RunSettles, Room, PeersTypeOK, Connected
<1>15. CASE RunCloses
  BY <1>15 DEF RunCloses, managerVars, Room, PeersTypeOK, Connected
<1>16. CASE RunEnds
  BY <1>16 DEF RunEnds, CloseAll, Room, PeersTypeOK, Connected
<1>17. ASSUME NEW p \in Remote, Disconnect(p) PROVE Room
  BY <1>17 DEF Disconnect, Remove, runVars, Room, PeersTypeOK, Connected
<1>18. CASE Reset
  BY <1>18 DEF Reset, runVars, Room, PeersTypeOK, Connected
<1>19. CASE Disable
  BY <1>19 DEF Disable, CloseAll, runVars, Room, PeersTypeOK, Connected
<1>20. CASE EnableDownload
  BY <1>20 DEF EnableDownload, runVars, Room, PeersTypeOK, Connected
<1>21. CASE SetError
  BY <1>21 DEF SetError, CloseAll, runVars, Room, PeersTypeOK, Connected
<1>22. CASE Destroy
  BY <1>22 DEF Destroy, CloseAll, runVars, Room, PeersTypeOK, Connected
<1>23. CASE Released
  BY <1>23 DEF Released, managerVars, runVars, Room, PeersTypeOK, Connected
<1>24. CASE UNCHANGED peersVars
  BY <1>24 DEF peersVars, managerVars, runVars, Room, PeersTypeOK, Connected
<1>. QED BY <1>1, <1>2, <1>3, <1>4, <1>5, <1>6, <1>7, <1>8, <1>9, <1>10, <1>11, <1>12,
          <1>13, <1>14, <1>15, <1>16, <1>17, <1>18, <1>19, <1>20, <1>21, <1>22, <1>23, <1>24
       DEF PeersNext, Dialing, Looping, Running

\* Numbers are given out in order.
LEMMA NumberedStep == PeersTypeOK /\ Numbered /\ [PeersNext]_peersVars => Numbered'
<1>. SUFFICES ASSUME PeersTypeOK, Numbered, [PeersNext]_peersVars PROVE Numbered'
  OBVIOUS
<1>1. ASSUME NEW d \in Dialer, NEW p \in Remote, Announced(d, p) PROVE Numbered'
  BY <1>1, Resting, BoundAssumption DEF Announced, At, managerVars, runVars, PeersTypeOK, Numbered, Client, None
<1>2. ASSUME NEW d \in Dialer, NEW p \in Remote, Probe(d, p) PROVE Numbered'
  BY <1>2, Resting, BoundAssumption DEF Probe, At, managerVars, runVars, PeersTypeOK, Numbered, Client, None
<1>3. ASSUME NEW d \in Dialer, Unreachable(d) PROVE Numbered'
  BY <1>3, Resting, BoundAssumption DEF Unreachable, Idles, managerVars, runVars, PeersTypeOK, Numbered, Client, None
<1>4. ASSUME NEW d \in Dialer, ProbeFails(d) PROVE Numbered'
  BY <1>4, Resting, BoundAssumption DEF ProbeFails, ProbeDrops, Remove, At, runVars, PeersTypeOK, Numbered, Client, None
<1>5. ASSUME NEW d \in Dialer, ProbeRefused(d) PROVE Numbered'
  <2>1. \A e \in Dialer : dial'[e] = dial[e] \/ dial'[e].client = None
    BY <1>5, Resting DEF ProbeRefused, ProbeDrops, At, Idles, PeersTypeOK
  <2>. QED BY <1>5, <2>1 DEF ProbeRefused, ProbeDrops, Remove, managerVars, runVars, PeersTypeOK, Numbered, None
<1>6. ASSUME NEW d \in Dialer, ProbeAnswered(d) PROVE Numbered'
  <2>1. \A e \in Dialer : dial'[e] = dial[e] \/ dial'[e].client = None
    BY <1>6, Resting DEF ProbeAnswered, At, Idles, PeersTypeOK
  <2>. QED BY <1>6, <2>1 DEF ProbeAnswered, Remove, managerVars, runVars, PeersTypeOK, Numbered, None
<1>7. ASSUME NEW d \in Dialer, Dialed(d) PROVE Numbered'
  <2>1. made' = made + 1 /\ \A q \in Remote : peers'[q] \in {peers[q], made'}
    <3>1. CASE Add(dial[d].peer, made')
      <4>1. peers' = [peers EXCEPT ![dial[d].peer] = made'] /\ dial[d].peer \in Remote
        <5>1. made' \in Client /\ dial[d].peer \in Remote
          BY <1>7, DialedSteps
        <5>2. Add(dial[d].peer, made')
          BY <3>1
        <5>3. QED
          BY <5>1, <5>2, AddSteps
      <4>. QED BY <1>7, <4>1, DialedSteps DEF PeersTypeOK
    <3>. QED BY <1>7, <3>1, DialedSteps
  <2>2. \A c \in Client : loop'[c] = loop[c] \/ (c = made' /\ loop'[c] = [at |-> "live", peer |-> dial[d].peer, closes |-> None])
    <3>1. CASE Add(dial[d].peer, made')
      BY <1>7, <3>1, DialedSteps, AddSteps
    <3>. QED BY <1>7, <3>1, DialedSteps
  <2>3. \A e \in Dialer : dial'[e].client \in {dial[e].client, None, made'}
    BY <1>7, DialedSteps
  <2>4. toClose' = toClose /\ toClose \subseteq Client /\ made \in Nat
    BY <1>7, BoundAssumption DEF Dialed, PeersTypeOK
  <2>5. \A q \in Remote : peers'[q] <= made'
    BY <2>1, <2>4 DEF Numbered, PeersTypeOK, Client, None
  <2>6. \A c \in Client : loop'[c].closes <= made' /\ (loop'[c].at # "none" => c <= made')
    <3>1. SUFFICES ASSUME NEW c \in Client PROVE loop'[c].closes <= made' /\ (loop'[c].at # "none" => c <= made')
      OBVIOUS
    <3>2. loop[c].closes \in Nat /\ loop[c].closes <= made /\ (loop[c].at # "none" => c <= made) /\ c \in Nat
      BY DEF Numbered, PeersTypeOK, Client, None
    <3>3. CASE loop'[c] = loop[c]
      BY <2>1, <2>4, <3>2, <3>3
    <3>4. CASE c = made' /\ loop'[c] = [at |-> "live", peer |-> dial[d].peer, closes |-> None]
      BY <2>1, <2>4, <3>4 DEF None
    <3>. QED BY <2>2, <3>3, <3>4
  <2>7. \A e \in Dialer : dial'[e].client <= made'
    BY <2>1, <2>3, <2>4 DEF Numbered, PeersTypeOK, Client, None
  <2>8. \A c \in toClose' : c <= made'
    BY <2>1, <2>4 DEF Numbered, PeersTypeOK, Client
  <2>. QED BY <2>5, <2>6, <2>7, <2>8 DEF Numbered
<1>8. ASSUME NEW d \in Dialer, DialClosed(d) PROVE Numbered'
  BY <1>8, Resting, BoundAssumption DEF DialClosed, Idles, managerVars, runVars, PeersTypeOK, Numbered, Client, None
<1>9. ASSUME NEW c \in Client, LoopEnds(c) PROVE Numbered'
  BY <1>9, Resting, BoundAssumption DEF LoopEnds, runVars, PeersTypeOK, Numbered, Client, None
<1>10. ASSUME NEW c \in Client, LoopDropped(c) PROVE Numbered'
  BY <1>10, Resting, BoundAssumption DEF LoopDropped, runVars, PeersTypeOK, Numbered, Client, None
<1>11. ASSUME NEW c \in Client, NEW reason, LoopDrops(c, reason) PROVE Numbered'
  BY <1>11, Resting, BoundAssumption DEF LoopDrops, Remove, runVars, PeersTypeOK, Numbered, Client, None
<1>12. CASE RunStart
  <2>1. \A c \in Client : loop'[c] = loop[c] \/ (c <= made /\ loop'[c].closes = None)
    BY <1>12, RunReads DEF RunStart, Live, Numbered, PeersTypeOK
  <2>. QED BY <1>12, <2>1 DEF RunStart, Numbered, PeersTypeOK, None
<1>13. CASE RunGoesOn
  BY <1>13, Resting, BoundAssumption DEF RunGoesOn, managerVars, PeersTypeOK, Numbered, Client, None
<1>14. CASE RunSettles
  <2>1. \A c \in Clients : c <= made
    BY DEF Clients, Connected, Numbered
  <2>. QED BY <1>14, <2>1 DEF RunSettles, Numbered, PeersTypeOK, None
<1>15. CASE RunCloses
  BY <1>15, Resting, BoundAssumption DEF RunCloses, managerVars, PeersTypeOK, Numbered, Client, None
<1>16. CASE RunEnds
  BY <1>16, Resting, BoundAssumption DEF RunEnds, CloseAll, PeersTypeOK, Numbered, Client, None
<1>17. ASSUME NEW p \in Remote, Disconnect(p) PROVE Numbered'
  BY <1>17, Resting, BoundAssumption DEF Disconnect, Remove, runVars, PeersTypeOK, Numbered, Client, None
<1>18. CASE Reset
  BY <1>18, Resting, BoundAssumption DEF Reset, runVars, PeersTypeOK, Numbered, Client, None
<1>19. CASE Disable
  BY <1>19, Resting, BoundAssumption DEF Disable, CloseAll, runVars, PeersTypeOK, Numbered, Client, None
<1>20. CASE EnableDownload
  BY <1>20, Resting, BoundAssumption DEF EnableDownload, runVars, PeersTypeOK, Numbered, Client, None
<1>21. CASE SetError
  BY <1>21, Resting, BoundAssumption DEF SetError, CloseAll, runVars, PeersTypeOK, Numbered, Client, None
<1>22. CASE Destroy
  BY <1>22, Resting, BoundAssumption DEF Destroy, CloseAll, runVars, PeersTypeOK, Numbered, Client, None
<1>23. CASE Released
  BY <1>23, Resting, BoundAssumption DEF Released, managerVars, runVars, PeersTypeOK, Numbered, Client, None
<1>24. CASE UNCHANGED peersVars
  BY <1>24 DEF peersVars, managerVars, runVars, PeersTypeOK, Numbered, Client, None
<1>. QED BY <1>1, <1>2, <1>3, <1>4, <1>5, <1>6, <1>7, <1>8, <1>9, <1>10, <1>11, <1>12,
          <1>13, <1>14, <1>15, <1>16, <1>17, <1>18, <1>19, <1>20, <1>21, <1>22, <1>23, <1>24
       DEF PeersNext, Dialing, Looping, Running

\* What is closed is no longer held.
LEMMA HandsStep == PeersTypeOK /\ HandsEmpty /\ [PeersNext]_peersVars => HandsEmpty'
<1>. SUFFICES ASSUME PeersTypeOK, HandsEmpty, [PeersNext]_peersVars PROVE HandsEmpty'
  OBVIOUS
<1>1. ASSUME NEW d \in Dialer, NEW p \in Remote, Announced(d, p) PROVE HandsEmpty'
  BY <1>1, Resting DEF Announced, At, managerVars, runVars, PeersTypeOK, HandsEmpty, None
<1>2. ASSUME NEW d \in Dialer, NEW p \in Remote, Probe(d, p) PROVE HandsEmpty'
  BY <1>2, Resting DEF Probe, At, managerVars, runVars, PeersTypeOK, HandsEmpty, None
<1>3. ASSUME NEW d \in Dialer, Unreachable(d) PROVE HandsEmpty'
  BY <1>3, Resting DEF Unreachable, Idles, managerVars, runVars, PeersTypeOK, HandsEmpty, None
<1>4. ASSUME NEW d \in Dialer, ProbeFails(d) PROVE HandsEmpty'
  BY <1>4, Resting DEF ProbeFails, ProbeDrops, Remove, At, runVars, PeersTypeOK, HandsEmpty, None
<1>5. ASSUME NEW d \in Dialer, ProbeRefused(d) PROVE HandsEmpty'
  BY <1>5, Resting DEF ProbeRefused, ProbeDrops, Remove, Idles, managerVars, runVars, PeersTypeOK, HandsEmpty, None
<1>6. ASSUME NEW d \in Dialer, ProbeAnswered(d) PROVE HandsEmpty'
  BY <1>6, Resting DEF ProbeAnswered, At, Idles, managerVars, runVars, PeersTypeOK, HandsEmpty, None
<1>7. ASSUME NEW d \in Dialer, Dialed(d) PROVE HandsEmpty'
  BY <1>7, Resting DEF Dialed, Offer, Add, Live, At, Idles, managerVars, runVars, PeersTypeOK, HandsEmpty, None
<1>8. ASSUME NEW d \in Dialer, DialClosed(d) PROVE HandsEmpty'
  BY <1>8, Resting DEF DialClosed, Idles, managerVars, runVars, PeersTypeOK, HandsEmpty, None
<1>9. ASSUME NEW c \in Client, LoopEnds(c) PROVE HandsEmpty'
  BY <1>9, Resting DEF LoopEnds, runVars, PeersTypeOK, HandsEmpty, None
<1>10. ASSUME NEW c \in Client, LoopDropped(c) PROVE HandsEmpty'
  BY <1>10, Resting DEF LoopDropped, runVars, PeersTypeOK, HandsEmpty, None
<1>11. ASSUME NEW c \in Client, NEW reason, LoopDrops(c, reason) PROVE HandsEmpty'
  BY <1>11, Resting DEF LoopDrops, Remove, runVars, PeersTypeOK, HandsEmpty, None
<1>12. CASE RunStart
  BY <1>12, Resting DEF RunStart, Live, PeersTypeOK, HandsEmpty, None
<1>13. CASE RunGoesOn
  BY <1>13, Resting DEF RunGoesOn, managerVars, PeersTypeOK, HandsEmpty, None
<1>14. CASE RunSettles
  BY <1>14, Resting DEF RunSettles, PeersTypeOK, HandsEmpty, None
<1>15. CASE RunCloses
  BY <1>15, Resting DEF RunCloses, managerVars, PeersTypeOK, HandsEmpty, None
<1>16. CASE RunEnds
  BY <1>16, Resting DEF RunEnds, CloseAll, PeersTypeOK, HandsEmpty, None
<1>17. ASSUME NEW p \in Remote, Disconnect(p) PROVE HandsEmpty'
  BY <1>17, Resting DEF Disconnect, Remove, runVars, PeersTypeOK, HandsEmpty, None
<1>18. CASE Reset
  BY <1>18, Resting DEF Reset, runVars, PeersTypeOK, HandsEmpty, None
<1>19. CASE Disable
  BY <1>19, Resting DEF Disable, CloseAll, runVars, PeersTypeOK, HandsEmpty, None
<1>20. CASE EnableDownload
  BY <1>20, Resting DEF EnableDownload, runVars, PeersTypeOK, HandsEmpty, None
<1>21. CASE SetError
  BY <1>21, Resting DEF SetError, CloseAll, runVars, PeersTypeOK, HandsEmpty, None
<1>22. CASE Destroy
  BY <1>22, Resting DEF Destroy, CloseAll, runVars, PeersTypeOK, HandsEmpty, None
<1>23. CASE Released
  BY <1>23, Resting DEF Released, managerVars, runVars, PeersTypeOK, HandsEmpty, None
<1>24. CASE UNCHANGED peersVars
  BY <1>24 DEF peersVars, managerVars, runVars, PeersTypeOK, HandsEmpty, None
<1>. QED BY <1>1, <1>2, <1>3, <1>4, <1>5, <1>6, <1>7, <1>8, <1>9, <1>10, <1>11, <1>12,
          <1>13, <1>14, <1>15, <1>16, <1>17, <1>18, <1>19, <1>20, <1>21, <1>22, <1>23, <1>24
       DEF PeersNext, Dialing, Looping, Running

\* Nothing is added to a destroyed download.
LEMMA DestroyedStep == PeersTypeOK /\ DestroyedIsEmpty /\ [PeersNext]_peersVars => DestroyedIsEmpty'
<1>. SUFFICES ASSUME PeersTypeOK, DestroyedIsEmpty, [PeersNext]_peersVars PROVE DestroyedIsEmpty'
  OBVIOUS
<1>1. ASSUME NEW d \in Dialer, NEW p \in Remote, Announced(d, p) PROVE DestroyedIsEmpty'
  BY <1>1, Resting DEF Announced, At, managerVars, runVars, PeersTypeOK, DestroyedIsEmpty, Destroyed
<1>2. ASSUME NEW d \in Dialer, NEW p \in Remote, Probe(d, p) PROVE DestroyedIsEmpty'
  BY <1>2, Resting DEF Probe, At, managerVars, runVars, PeersTypeOK, DestroyedIsEmpty, Destroyed
<1>3. ASSUME NEW d \in Dialer, Unreachable(d) PROVE DestroyedIsEmpty'
  BY <1>3, Resting DEF Unreachable, Idles, managerVars, runVars, PeersTypeOK, DestroyedIsEmpty, Destroyed
<1>4. ASSUME NEW d \in Dialer, ProbeFails(d) PROVE DestroyedIsEmpty'
  BY <1>4, Resting DEF ProbeFails, ProbeDrops, Remove, At, runVars, PeersTypeOK, DestroyedIsEmpty, Destroyed
<1>5. ASSUME NEW d \in Dialer, ProbeRefused(d) PROVE DestroyedIsEmpty'
  BY <1>5, Resting DEF ProbeRefused, ProbeDrops, Remove, Idles, managerVars, runVars, PeersTypeOK, DestroyedIsEmpty, Destroyed
<1>6. ASSUME NEW d \in Dialer, ProbeAnswered(d) PROVE DestroyedIsEmpty'
  BY <1>6, Resting DEF ProbeAnswered, At, Idles, managerVars, runVars, PeersTypeOK, DestroyedIsEmpty, Destroyed
<1>7. ASSUME NEW d \in Dialer, Dialed(d) PROVE DestroyedIsEmpty'
  BY <1>7, Resting DEF Dialed, Offer, Add, Live, At, Idles, managerVars, runVars, PeersTypeOK, DestroyedIsEmpty, Destroyed
<1>8. ASSUME NEW d \in Dialer, DialClosed(d) PROVE DestroyedIsEmpty'
  BY <1>8, Resting DEF DialClosed, Idles, managerVars, runVars, PeersTypeOK, DestroyedIsEmpty, Destroyed
<1>9. ASSUME NEW c \in Client, LoopEnds(c) PROVE DestroyedIsEmpty'
  BY <1>9, Resting DEF LoopEnds, runVars, PeersTypeOK, DestroyedIsEmpty, Destroyed
<1>10. ASSUME NEW c \in Client, LoopDropped(c) PROVE DestroyedIsEmpty'
  BY <1>10, Resting DEF LoopDropped, runVars, PeersTypeOK, DestroyedIsEmpty, Destroyed
<1>11. ASSUME NEW c \in Client, NEW reason, LoopDrops(c, reason) PROVE DestroyedIsEmpty'
  BY <1>11, Resting DEF LoopDrops, Remove, runVars, PeersTypeOK, DestroyedIsEmpty, Destroyed
<1>12. CASE RunStart
  BY <1>12, Resting DEF RunStart, Live, PeersTypeOK, DestroyedIsEmpty, Destroyed
<1>13. CASE RunGoesOn
  BY <1>13, Resting DEF RunGoesOn, managerVars, PeersTypeOK, DestroyedIsEmpty, Destroyed
<1>14. CASE RunSettles
  BY <1>14 DEF RunSettles, Settled, DestroyedIsEmpty, Destroyed
<1>15. CASE RunCloses
  BY <1>15, Resting DEF RunCloses, managerVars, PeersTypeOK, DestroyedIsEmpty, Destroyed
<1>16. CASE RunEnds
  BY <1>16, Resting DEF RunEnds, CloseAll, PeersTypeOK, DestroyedIsEmpty, Destroyed
<1>17. ASSUME NEW p \in Remote, Disconnect(p) PROVE DestroyedIsEmpty'
  BY <1>17, Resting DEF Disconnect, Remove, runVars, PeersTypeOK, DestroyedIsEmpty, Destroyed
<1>18. CASE Reset
  BY <1>18, Resting DEF Reset, runVars, PeersTypeOK, DestroyedIsEmpty, Destroyed
<1>19. CASE Disable
  BY <1>19, Resting DEF Disable, CloseAll, runVars, PeersTypeOK, DestroyedIsEmpty, Destroyed
<1>20. CASE EnableDownload
  BY <1>20, Resting DEF EnableDownload, runVars, PeersTypeOK, DestroyedIsEmpty, Destroyed
<1>21. CASE SetError
  BY <1>21, Resting DEF SetError, CloseAll, runVars, PeersTypeOK, DestroyedIsEmpty, Destroyed
<1>22. CASE Destroy
  BY <1>22, Resting DEF Destroy, CloseAll, runVars, PeersTypeOK, DestroyedIsEmpty, Destroyed
<1>23. CASE Released
  BY <1>23, Resting DEF Released, managerVars, runVars, PeersTypeOK, DestroyedIsEmpty, Destroyed
<1>24. CASE UNCHANGED peersVars
  BY <1>24 DEF peersVars, managerVars, runVars, PeersTypeOK, DestroyedIsEmpty, Destroyed
<1>. QED BY <1>1, <1>2, <1>3, <1>4, <1>5, <1>6, <1>7, <1>8, <1>9, <1>10, <1>11, <1>12,
          <1>13, <1>14, <1>15, <1>16, <1>17, <1>18, <1>19, <1>20, <1>21, <1>22, <1>23, <1>24
       DEF PeersNext, Dialing, Looping, Running

\* A mark of a loop goes with its peer.
LEMMA ActiveStep == PeersTypeOK /\ active \subseteq Connected /\ [PeersNext]_peersVars => (active \subseteq Connected)'
<1>. SUFFICES ASSUME PeersTypeOK, active \subseteq Connected, [PeersNext]_peersVars PROVE (active \subseteq Connected)'
  OBVIOUS
<1>1. ASSUME NEW d \in Dialer, NEW p \in Remote, Announced(d, p) PROVE (active \subseteq Connected)'
  BY <1>1 DEF Announced, At, managerVars, runVars, PeersTypeOK, Connected
<1>2. ASSUME NEW d \in Dialer, NEW p \in Remote, Probe(d, p) PROVE (active \subseteq Connected)'
  BY <1>2 DEF Probe, At, managerVars, runVars, PeersTypeOK, Connected
<1>3. ASSUME NEW d \in Dialer, Unreachable(d) PROVE (active \subseteq Connected)'
  BY <1>3 DEF Unreachable, Idles, managerVars, runVars, PeersTypeOK, Connected
<1>4. ASSUME NEW d \in Dialer, ProbeFails(d) PROVE (active \subseteq Connected)'
  BY <1>4 DEF ProbeFails, ProbeDrops, Remove, At, runVars, PeersTypeOK, Connected
<1>5. ASSUME NEW d \in Dialer, ProbeRefused(d) PROVE (active \subseteq Connected)'
  BY <1>5 DEF ProbeRefused, ProbeDrops, Remove, Idles, managerVars, runVars, PeersTypeOK, Connected
<1>6. ASSUME NEW d \in Dialer, ProbeAnswered(d) PROVE (active \subseteq Connected)'
  BY <1>6 DEF ProbeAnswered, At, Idles, managerVars, runVars, PeersTypeOK, Connected
<1>7. ASSUME NEW d \in Dialer, Dialed(d) PROVE (active \subseteq Connected)'
  <2>1. CASE UNCHANGED <<peers, active, loop, promises>>
    BY <2>1 DEF Connected
  <2>2. CASE Add(dial[d].peer, made')
    <3>1. made' \in Client /\ dial[d].peer \in Remote
      BY <1>7, DialedSteps
    <3>2. Connected' = Connected \cup {dial[d].peer} /\ active' \subseteq active \cup {dial[d].peer}
      BY <2>2, <3>1, AddSteps
    <3>3. QED
      BY <3>2
  <2>3. QED
    BY <1>7, <2>1, <2>2, DialedSteps
<1>8. ASSUME NEW d \in Dialer, DialClosed(d) PROVE (active \subseteq Connected)'
  BY <1>8 DEF DialClosed, Idles, managerVars, runVars, PeersTypeOK, Connected
<1>9. ASSUME NEW c \in Client, LoopEnds(c) PROVE (active \subseteq Connected)'
  BY <1>9 DEF LoopEnds, runVars, PeersTypeOK, Connected
<1>10. ASSUME NEW c \in Client, LoopDropped(c) PROVE (active \subseteq Connected)'
  BY <1>10 DEF LoopDropped, runVars, PeersTypeOK, Connected
<1>11. ASSUME NEW c \in Client, NEW reason, LoopDrops(c, reason) PROVE (active \subseteq Connected)'
  BY <1>11 DEF LoopDrops, Remove, runVars, PeersTypeOK, Connected
<1>12. CASE RunStart
  BY <1>12 DEF RunStart, Live, PeersTypeOK, Connected
<1>13. CASE RunGoesOn
  BY <1>13 DEF RunGoesOn, managerVars, PeersTypeOK, Connected
<1>14. CASE RunSettles
  BY <1>14 DEF RunSettles, PeersTypeOK, Connected
<1>15. CASE RunCloses
  BY <1>15 DEF RunCloses, managerVars, PeersTypeOK, Connected
<1>16. CASE RunEnds
  BY <1>16 DEF RunEnds, CloseAll, PeersTypeOK, Connected
<1>17. ASSUME NEW p \in Remote, Disconnect(p) PROVE (active \subseteq Connected)'
  BY <1>17 DEF Disconnect, Remove, runVars, PeersTypeOK, Connected
<1>18. CASE Reset
  BY <1>18 DEF Reset, runVars, PeersTypeOK, Connected
<1>19. CASE Disable
  BY <1>19 DEF Disable, CloseAll, runVars, PeersTypeOK, Connected
<1>20. CASE EnableDownload
  BY <1>20 DEF EnableDownload, runVars, PeersTypeOK, Connected
<1>21. CASE SetError
  BY <1>21 DEF SetError, CloseAll, runVars, PeersTypeOK, Connected
<1>22. CASE Destroy
  BY <1>22 DEF Destroy, CloseAll, runVars, PeersTypeOK, Connected
<1>23. CASE Released
  BY <1>23 DEF Released, managerVars, runVars, PeersTypeOK, Connected
<1>24. CASE UNCHANGED peersVars
  BY <1>24 DEF peersVars, managerVars, runVars, PeersTypeOK, Connected
<1>. QED BY <1>1, <1>2, <1>3, <1>4, <1>5, <1>6, <1>7, <1>8, <1>9, <1>10, <1>11, <1>12,
          <1>13, <1>14, <1>15, <1>16, <1>17, <1>18, <1>19, <1>20, <1>21, <1>22, <1>23, <1>24
       DEF PeersNext, Dialing, Looping, Running

\* The stream of a connected peer stays open and its own.
LEMMA HeldStep == PeersTypeOK /\ Numbered /\ HandsEmpty /\ HeldOnce /\ [PeersNext]_peersVars => HeldOnce'
<1>. SUFFICES ASSUME PeersTypeOK, Numbered, HandsEmpty, HeldOnce, [PeersNext]_peersVars PROVE HeldOnce'
  OBVIOUS
<1>1. ASSUME NEW d \in Dialer, NEW p \in Remote, Announced(d, p) PROVE HeldOnce'
  BY <1>1, Resting DEF Announced, At, managerVars, runVars, PeersTypeOK, Numbered, HandsEmpty, HeldOnce, None
<1>2. ASSUME NEW d \in Dialer, NEW p \in Remote, Probe(d, p) PROVE HeldOnce'
  BY <1>2, Resting DEF Probe, At, managerVars, runVars, PeersTypeOK, Numbered, HandsEmpty, HeldOnce, None
<1>3. ASSUME NEW d \in Dialer, Unreachable(d) PROVE HeldOnce'
  BY <1>3, Resting DEF Unreachable, Idles, managerVars, runVars, PeersTypeOK, Numbered, HandsEmpty, HeldOnce, None
<1>4. ASSUME NEW d \in Dialer, ProbeFails(d) PROVE HeldOnce'
  BY <1>4, Resting DEF ProbeFails, ProbeDrops, Remove, At, runVars, PeersTypeOK, Numbered, HandsEmpty, HeldOnce, None
<1>5. ASSUME NEW d \in Dialer, ProbeRefused(d) PROVE HeldOnce'
  BY <1>5, Resting DEF ProbeRefused, ProbeDrops, Remove, Idles, managerVars, runVars, PeersTypeOK, Numbered, HandsEmpty, HeldOnce, None
<1>6. ASSUME NEW d \in Dialer, ProbeAnswered(d) PROVE HeldOnce'
  <2>1. \A e \in Dialer : dial'[e].client \in {dial[e].client, None}
    BY <1>6, Resting DEF ProbeAnswered, At, Idles, PeersTypeOK
  <2>. QED BY <1>6, <2>1 DEF ProbeAnswered, managerVars, runVars, PeersTypeOK, HeldOnce, None
<1>7. ASSUME NEW d \in Dialer, Dialed(d) PROVE HeldOnce'
  <2>1. made' = made + 1 /\ made' \in Client /\ made \in Nat
    BY <1>7, DialedSteps, BoundAssumption DEF PeersTypeOK
  <2>2. /\ \A q \in Remote : peers[q] # made'
        /\ \A c \in Client : loop[c].closes # made'
        /\ loop[made'].at = "none"
        /\ \A e \in Dialer : dial[e].client # made'
        /\ made' \notin toClose
    BY <2>1 DEF Numbered, PeersTypeOK, Client, None
  <2>3. CASE UNCHANGED <<peers, active, loop, promises>>
    <3>1. \A q \in Remote, e \in Dialer : peers[q] # None => dial'[e].client # peers[q]
      BY <1>7, <2>2, DialedSteps DEF HeldOnce
    <3>. QED BY <1>7, <2>3, <3>1 DEF Dialed, HeldOnce
  <2>4. CASE Add(dial[d].peer, made') /\ dial'[d].client = None /\ ~Destroyed
    <3>1. peers' = [peers EXCEPT ![dial[d].peer] = made'] /\ dial[d].peer \in Remote
      BY <1>7, <2>4, DialedSteps, AddSteps
    <3>2. open' = open \cup {made'} /\ toClose' = toClose
      BY <1>7, <2>4 DEF Dialed
    <3>3. \A c \in Client : loop'[c] = loop[c] \/ (c = made' /\ loop'[c] = [at |-> "live", peer |-> dial[d].peer, closes |-> None])
      BY <1>7, <2>4, DialedSteps, AddSteps
    <3>4. \A e \in Dialer : dial'[e].client \in {dial[e].client, None}
      BY <1>7, <2>4, DialedSteps
    <3>5. \A q \in Remote : peers'[q] # None => peers'[q] \in Client
      BY <2>1, <3>1 DEF PeersTypeOK
    <3>6. made' # None
      BY <2>1 DEF Client, None
    <3>7. ASSUME NEW q \in Remote, peers'[q] # None, NEW c \in Client PROVE loop'[c].closes # peers'[q]
      BY <2>2, <3>1, <3>3, <3>6, <3>7 DEF HeldOnce, PeersTypeOK
    <3>8. ASSUME NEW q \in Remote, peers'[q] # None, NEW e \in Dialer PROVE dial'[e].client # peers'[q]
      BY <2>2, <3>1, <3>4, <3>6, <3>8 DEF HeldOnce, PeersTypeOK
    <3>9. ASSUME NEW q \in Remote, peers'[q] # None
          PROVE  /\ loop'[peers'[q]].at # "dropping"
                 /\ loop'[peers'[q]].at = "live" => loop'[peers'[q]].peer = q
      <4>1. CASE q = dial[d].peer
        <5>1. peers'[q] = made'
          BY <3>1, <4>1 DEF PeersTypeOK
        <5>2. loop'[made'] = loop[made'] \/ loop'[made'] = [at |-> "live", peer |-> q, closes |-> None]
          BY <2>1, <3>3, <4>1
        <5>. QED BY <2>2, <5>1, <5>2
      <4>2. CASE q # dial[d].peer
        <5>1. peers'[q] = peers[q] /\ loop'[peers[q]] = loop[peers[q]]
          BY <2>2, <3>1, <3>3, <3>5, <3>9, <4>2 DEF PeersTypeOK
        <5>. QED BY <3>9, <5>1 DEF HeldOnce
      <4>. QED BY <4>1, <4>2
    <3>10. ASSUME NEW q \in Remote, peers'[q] # None
          PROVE  /\ peers'[q] \in open' /\ peers'[q] \notin toClose'
                 /\ \A r \in Remote : peers'[r] = peers'[q] => r = q
      BY <2>2, <3>1, <3>2, <3>10 DEF HeldOnce, PeersTypeOK
    <3>. QED BY <3>7, <3>8, <3>9, <3>10 DEF HeldOnce
  <2>. QED BY <1>7, <2>3, <2>4, DialedSteps
<1>8. ASSUME NEW d \in Dialer, DialClosed(d) PROVE HeldOnce'
  BY <1>8, Resting DEF DialClosed, Idles, managerVars, runVars, PeersTypeOK, Numbered, HandsEmpty, HeldOnce, None
<1>9. ASSUME NEW c \in Client, LoopEnds(c) PROVE HeldOnce'
  BY <1>9, Resting DEF LoopEnds, runVars, PeersTypeOK, Numbered, HandsEmpty, HeldOnce, None
<1>10. ASSUME NEW c \in Client, LoopDropped(c) PROVE HeldOnce'
  BY <1>10, Resting DEF LoopDropped, runVars, PeersTypeOK, Numbered, HandsEmpty, HeldOnce, None
<1>11. ASSUME NEW c \in Client, NEW reason, LoopDrops(c, reason) PROVE HeldOnce'
  BY <1>11, Resting DEF LoopDrops, Remove, runVars, PeersTypeOK, Numbered, HandsEmpty, HeldOnce, None
<1>12. CASE RunStart
  BY <1>12, Resting DEF RunStart, Live, PeersTypeOK, Numbered, HandsEmpty, HeldOnce, None
<1>13. CASE RunGoesOn
  BY <1>13, Resting DEF RunGoesOn, managerVars, PeersTypeOK, Numbered, HandsEmpty, HeldOnce, None
<1>14. CASE RunSettles
  BY <1>14, Resting DEF RunSettles, PeersTypeOK, Numbered, HandsEmpty, HeldOnce, None
<1>15. CASE RunCloses
  BY <1>15, Resting DEF RunCloses, managerVars, PeersTypeOK, Numbered, HandsEmpty, HeldOnce, None
<1>16. CASE RunEnds
  BY <1>16, Resting DEF RunEnds, CloseAll, PeersTypeOK, Numbered, HandsEmpty, HeldOnce, None
<1>17. ASSUME NEW p \in Remote, Disconnect(p) PROVE HeldOnce'
  BY <1>17, Resting DEF Disconnect, Remove, runVars, PeersTypeOK, Numbered, HandsEmpty, HeldOnce, None
<1>18. CASE Reset
  BY <1>18, Resting DEF Reset, runVars, PeersTypeOK, Numbered, HandsEmpty, HeldOnce, None
<1>19. CASE Disable
  BY <1>19, Resting DEF Disable, CloseAll, runVars, PeersTypeOK, Numbered, HandsEmpty, HeldOnce, None
<1>20. CASE EnableDownload
  BY <1>20, Resting DEF EnableDownload, runVars, PeersTypeOK, Numbered, HandsEmpty, HeldOnce, None
<1>21. CASE SetError
  BY <1>21, Resting DEF SetError, CloseAll, runVars, PeersTypeOK, Numbered, HandsEmpty, HeldOnce, None
<1>22. CASE Destroy
  BY <1>22, Resting DEF Destroy, CloseAll, runVars, PeersTypeOK, Numbered, HandsEmpty, HeldOnce, None
<1>23. CASE Released
  BY <1>23, Resting DEF Released, managerVars, runVars, PeersTypeOK, Numbered, HandsEmpty, HeldOnce, None
<1>24. CASE UNCHANGED peersVars
  BY <1>24 DEF peersVars, managerVars, runVars, PeersTypeOK, Numbered, HandsEmpty, HeldOnce, None
<1>. QED BY <1>1, <1>2, <1>3, <1>4, <1>5, <1>6, <1>7, <1>8, <1>9, <1>10, <1>11, <1>12,
          <1>13, <1>14, <1>15, <1>16, <1>17, <1>18, <1>19, <1>20, <1>21, <1>22, <1>23, <1>24
       DEF PeersNext, Dialing, Looping, Running

\* A stream that leaves the manager goes into somebody's hands.
LEMMA LeakStep == PeersTypeOK /\ Numbered /\ HandsEmpty /\ HeldOnce /\ NoStreamLeaks /\ [PeersNext]_peersVars => NoStreamLeaks'
<1>. SUFFICES ASSUME PeersTypeOK, Numbered, HandsEmpty, HeldOnce, NoStreamLeaks, [PeersNext]_peersVars PROVE NoStreamLeaks'
  OBVIOUS
<1>1. ASSUME NEW d \in Dialer, NEW p \in Remote, Announced(d, p) PROVE NoStreamLeaks'
  <2>1. \A e \in Dialer : dial'[e].client = dial[e].client
    BY <1>1 DEF Announced, At, HandsEmpty, PeersTypeOK
  <2>. QED BY <1>1, <2>1 DEF Announced, runVars, NoStreamLeaks, Clients, Connected, Closed
<1>2. ASSUME NEW d \in Dialer, NEW p \in Remote, Probe(d, p) PROVE NoStreamLeaks'
  BY <1>2, Resting DEF Probe, At, managerVars, runVars, PeersTypeOK, HandsEmpty, NoStreamLeaks, Clients, Connected, Closed, None
<1>3. ASSUME NEW d \in Dialer, Unreachable(d) PROVE NoStreamLeaks'
  BY <1>3, Resting DEF Unreachable, Idles, managerVars, runVars, PeersTypeOK, HandsEmpty, NoStreamLeaks, Clients, Connected, Closed, None
<1>4. ASSUME NEW d \in Dialer, ProbeFails(d) PROVE NoStreamLeaks'
  BY <1>4, Resting DEF ProbeFails, ProbeDrops, Remove, At, runVars, PeersTypeOK, HandsEmpty, NoStreamLeaks, Clients, Connected, Closed, None
<1>5. ASSUME NEW d \in Dialer, ProbeRefused(d) PROVE NoStreamLeaks'
  <2>1. \A e \in Dialer : dial'[e].client = dial[e].client
    BY <1>5, Resting DEF ProbeRefused, ProbeDrops, Idles, HandsEmpty, PeersTypeOK
  <2>2. UNCHANGED <<toClose, Closed>>
    BY <1>5 DEF ProbeRefused, ProbeDrops, runVars, Closed
  <2>3. open' \ Clients' \subseteq open \ Clients
    BY <1>5 DEF ProbeRefused, ProbeDrops, Remove, managerVars, Clients, Connected, PeersTypeOK
  <2>. QED BY <2>1, <2>2, <2>3 DEF NoStreamLeaks
<1>6. ASSUME NEW d \in Dialer, ProbeAnswered(d) PROVE NoStreamLeaks'
  <2>1. \A e \in Dialer : dial'[e].client = dial[e].client
    BY <1>6, Resting DEF ProbeAnswered, At, Idles, HandsEmpty, PeersTypeOK
  <2>. QED BY <1>6, <2>1 DEF ProbeAnswered, managerVars, runVars, NoStreamLeaks, Clients, Connected, Closed
<1>7. ASSUME NEW d \in Dialer, Dialed(d) PROVE NoStreamLeaks'
  <2>1. dial[d].client = None /\ made' # None /\ UNCHANGED toClose
    BY <1>7, DialedSteps DEF Dialed, HandsEmpty, Client, None
  <2>2. ASSUME NEW s \in open, s \notin Clients', NEW e \in Dialer, dial[e].client = s
        PROVE  dial'[e].client = s
    <3>1. s # None
      BY DEF PeersTypeOK, Client, None
    <3>. QED BY <1>7, <2>1, <2>2, <3>1, DialedSteps
  <2>3. CASE UNCHANGED <<peers, active, loop, promises>> /\ (open' = open \/ (open' = open \cup {made'} /\ dial'[d].client = made'))
    <3>1. Clients' = Clients /\ Closed' = Closed
      BY <2>3 DEF Clients, Connected, Closed
    <3>. QED BY <2>1, <2>2, <2>3, <3>1 DEF NoStreamLeaks
  <2>4. CASE Add(dial[d].peer, made') /\ open' = open \cup {made'} /\ peers[dial[d].peer] = None
    <3>1. peers' = [peers EXCEPT ![dial[d].peer] = made'] /\ dial[d].peer \in Remote /\ made' \in Client
      <4>1. made' \in Client /\ dial[d].peer \in Remote
        BY <1>7, DialedSteps
      <4>2. Add(dial[d].peer, made')
        BY <2>4
      <4>3. QED
        BY <4>1, <4>2, AddSteps
    <3>2. Clients' = Clients \cup {made'}
      BY <2>1, <2>4, <3>1 DEF Clients, Connected, PeersTypeOK
    <3>3. loop[made'].closes = None
      <4>1. loop[made'].at = "none"
        BY <1>7, <3>1, DialedSteps, BoundAssumption DEF Numbered, PeersTypeOK
      <4>. QED BY <3>1, <4>1 DEF HandsEmpty
    <3>4. ASSUME NEW c \in Client, loop[c].closes # None PROVE loop'[c].closes = loop[c].closes
      BY <1>7, <2>4, <3>1, <3>3, <3>4, AddSteps
    <3>5. open \cap Closed \subseteq Closed'
      BY <3>4 DEF Closed, PeersTypeOK, Client, None
    <3>. QED BY <2>1, <2>2, <2>4, <3>2, <3>5 DEF NoStreamLeaks
  <2>. QED BY <1>7, <2>3, <2>4, DialedSteps
<1>8. ASSUME NEW d \in Dialer, DialClosed(d) PROVE NoStreamLeaks'
  BY <1>8, Resting DEF DialClosed, Idles, managerVars, runVars, PeersTypeOK, HandsEmpty, NoStreamLeaks, Clients, Connected, Closed, None
<1>9. ASSUME NEW c \in Client, LoopEnds(c) PROVE NoStreamLeaks'
  BY <1>9, Resting DEF LoopEnds, runVars, PeersTypeOK, HandsEmpty, NoStreamLeaks, Clients, Connected, Closed, None
<1>10. ASSUME NEW c \in Client, LoopDropped(c) PROVE NoStreamLeaks'
  BY <1>10, Resting DEF LoopDropped, runVars, PeersTypeOK, HandsEmpty, NoStreamLeaks, Clients, Connected, Closed, None
<1>11. ASSUME NEW c \in Client, NEW reason, LoopDrops(c, reason) PROVE NoStreamLeaks'
  BY <1>11, Resting DEF LoopDrops, Remove, runVars, PeersTypeOK, HandsEmpty, NoStreamLeaks, Clients, Connected, Closed, None
<1>12. CASE RunStart
  <2>1. \A c \in Client : loop'[c].closes = loop[c].closes
    <3>1. ASSUME NEW c \in Clients PROVE loop[c].closes = None
      BY <3>1, RunReads DEF HeldOnce, HandsEmpty, Clients, Connected
    <3>. QED BY <1>12, <3>1 DEF RunStart, Live, PeersTypeOK
  <2>2. UNCHANGED <<Clients, Closed>>
    BY <1>12, <2>1 DEF RunStart, Clients, Connected, Closed
  <2>. QED BY <1>12, <2>2 DEF RunStart, NoStreamLeaks
<1>13. CASE RunGoesOn
  BY <1>13, Resting DEF RunGoesOn, managerVars, PeersTypeOK, HandsEmpty, NoStreamLeaks, Clients, Connected, Closed, None
<1>14. CASE RunSettles
  <2>1. toClose = {} /\ toClose' = Clients /\ Closed' = Closed
    BY <1>14 DEF RunSettles, Settled, HandsEmpty, Closed
  <2>. QED BY <1>14, <2>1 DEF RunSettles, NoStreamLeaks
<1>15. CASE RunCloses
  BY <1>15, Resting DEF RunCloses, managerVars, PeersTypeOK, HandsEmpty, NoStreamLeaks, Clients, Connected, Closed, None
<1>16. CASE RunEnds
  BY <1>16, Resting DEF RunEnds, CloseAll, PeersTypeOK, HandsEmpty, NoStreamLeaks, Clients, Connected, Closed, None
<1>17. ASSUME NEW p \in Remote, Disconnect(p) PROVE NoStreamLeaks'
  BY <1>17, Resting DEF Disconnect, Remove, runVars, PeersTypeOK, HandsEmpty, NoStreamLeaks, Clients, Connected, Closed, None
<1>18. CASE Reset
  BY <1>18, Resting DEF Reset, runVars, PeersTypeOK, HandsEmpty, NoStreamLeaks, Clients, Connected, Closed, None
<1>19. CASE Disable
  BY <1>19, Resting DEF Disable, CloseAll, runVars, PeersTypeOK, HandsEmpty, NoStreamLeaks, Clients, Connected, Closed, None
<1>20. CASE EnableDownload
  BY <1>20, Resting DEF EnableDownload, runVars, PeersTypeOK, HandsEmpty, NoStreamLeaks, Clients, Connected, Closed, None
<1>21. CASE SetError
  BY <1>21, Resting DEF SetError, CloseAll, runVars, PeersTypeOK, HandsEmpty, NoStreamLeaks, Clients, Connected, Closed, None
<1>22. CASE Destroy
  BY <1>22, Resting DEF Destroy, CloseAll, runVars, PeersTypeOK, HandsEmpty, NoStreamLeaks, Clients, Connected, Closed, None
<1>23. CASE Released
  BY <1>23, Resting DEF Released, managerVars, runVars, PeersTypeOK, HandsEmpty, NoStreamLeaks, Clients, Connected, Closed, None
<1>24. CASE UNCHANGED peersVars
  BY <1>24 DEF peersVars, managerVars, runVars, PeersTypeOK, HandsEmpty, NoStreamLeaks, Clients, Connected, Closed, None
<1>. QED BY <1>1, <1>2, <1>3, <1>4, <1>5, <1>6, <1>7, <1>8, <1>9, <1>10, <1>11, <1>12,
          <1>13, <1>14, <1>15, <1>16, <1>17, <1>18, <1>19, <1>20, <1>21, <1>22, <1>23, <1>24
       DEF PeersNext, Dialing, Looping, Running

\* The limit survives every step: peers only leave, or one joins while there is room.
LEMMA CapStep == PeersTypeOK /\ CapRespected /\ [PeersNext]_peersVars => CapRespected'
<1>. SUFFICES ASSUME PeersTypeOK, CapRespected, [PeersNext]_peersVars, Cap # 0
              PROVE  Cardinality(Connected') <= Cap
  BY DEF CapRespected
<1>1. IsFiniteSet(Connected) /\ Cardinality(Connected) \in Nat
  BY BoundAssumption, FS_Subset, FS_CardinalityType DEF Connected
<1>2. CASE Connected' \subseteq Connected
  <2>1. Cardinality(Connected') \in Nat /\ Cardinality(Connected') <= Cardinality(Connected)
    BY <1>1, <1>2, FS_Subset, FS_CardinalityType
  <2>. QED BY <1>1, <2>1, BoundAssumption DEF CapRespected
<1>3. ASSUME HasCapacity, NEW p \in Remote, Connected' = Connected \cup {p}
      PROVE  Cardinality(Connected') <= Cap
  <2>1. Cardinality(Connected') <= Cardinality(Connected) + 1
    BY <1>1, <1>3, FS_AddElement
  <2>2. Cardinality(Connected') \in Nat
    BY <1>1, <1>3, FS_AddElement, FS_CardinalityType
  <2>. QED BY <1>1, <1>3, <2>1, <2>2, BoundAssumption DEF HasCapacity
<1>. QED BY <1>2, <1>3, Joining DEF Room

\* The state of the peer manager, the dials, the run and the loops is well formed.
THEOREM PeersCorrect == PeersSpec => []PeersTypeOK
<1>1. PeersInit => PeersTypeOK
  BY Resting, BoundAssumption DEF PeersInit, PeersTypeOK, State
<1>. QED BY <1>1, TypeStep, PTL DEF PeersSpec

LEMMA InvAlways == PeersSpec => []Inv
<1>1. PeersInit => Numbered /\ HandsEmpty /\ HeldOnce /\ DestroyedIsEmpty /\ active \subseteq Connected
  BY Resting DEF PeersInit, Numbered, HandsEmpty, HeldOnce, DestroyedIsEmpty, Destroyed, None
<1>. QED BY <1>1, PeersCorrect, NumberedStep, HandsStep, HeldStep, DestroyedStep, ActiveStep, PTL DEF PeersSpec, Inv

\* The limit of peers holds whatever dials are in flight when it is checked:
\* tryAdd looks again after the dial.
THEOREM CapHolds == PeersSpec => []CapRespected
<1>1. PeersInit => CapRespected
  <2>1. ASSUME PeersInit PROVE Connected = {}
    BY <2>1 DEF PeersInit, Connected
  <2>. QED BY <2>1, FS_EmptySet, BoundAssumption DEF CapRespected
<1>. QED BY <1>1, PeersCorrect, CapStep, PTL DEF PeersSpec

\* Every entry of the manager is a stream that is open, and a mark of a loop
\* goes with its peer.
THEOREM EntriesHold == PeersSpec => []EntriesAreLive
<1>1. Inv => EntriesAreLive
  BY DEF Inv, HeldOnce, EntriesAreLive, Clients, Connected
<1>. QED BY <1>1, InvAlways, PTL

\* No stream is forgotten: it is a member's, or somebody is about to close it.
THEOREM NoLeakHolds == PeersSpec => []NoStreamLeaks
<1>1. PeersInit => NoStreamLeaks
  BY DEF PeersInit, NoStreamLeaks
<1>2. Inv => PeersTypeOK /\ Numbered /\ HandsEmpty /\ HeldOnce
  BY DEF Inv
<1>. QED BY <1>1, <1>2, LeakStep, InvAlways, PTL DEF PeersSpec

\* When destroy has returned no stream is open, except one that a loop is
\* just closing.
THEOREM DestroyedHoldsNobody == PeersSpec => []DestroyLeavesNobody
<1>1. ASSUME Inv, NoStreamLeaks PROVE DestroyLeavesNobody
  <2>1. SUFFICES ASSUME state = "released" PROVE open \subseteq Closed
    BY DEF DestroyLeavesNobody
  <2>2. Clients = {} /\ toClose = {} /\ \A d \in Dialer : dial[d].client = None
    BY <1>1, <2>1 DEF Inv, DestroyedIsEmpty, HandsEmpty, Destroyed, Clients, Connected
  <2>3. None \notin open
    BY <1>1 DEF Inv, PeersTypeOK, Client, None
  <2>. QED BY <1>1, <2>2, <2>3 DEF NoStreamLeaks
<1>. QED BY <1>1, InvAlways, NoLeakHolds, PTL

-----------------------------------------------------------------------------
(***************************************************************************)
(* One run.                                                                *)
(***************************************************************************)

\* A set of numbers that is not empty has a first one.
LEMMA FirstOf ==
  ASSUME NEW S \in SUBSET Nat, S # {}
  PROVE  First(S) \in S /\ \A y \in S : First(S) <= y
<1>1. OpToRel(<, Nat) = {ss \in Nat \X Nat : ss[1] < ss[2]}
  BY Zenon DEF OpToRel
<1>2. PICK x \in S : \A y \in S : <<y, x>> \notin {ss \in Nat \X Nat : ss[1] < ss[2]}
  <2>1. IsWellFoundedOn({ss \in Nat \X Nat : ss[1] < ss[2]}, Nat)
    BY NatLessThanWellFounded, <1>1, Zenon
  <2>. QED BY <2>1, WFMin, Zenon
<1>3. ASSUME NEW y \in S PROVE x <= y
  <2>1. x \in Nat /\ y \in Nat
    OBVIOUS
  <2>2. ~(y < x)
    BY <1>2, <2>1, Zenon
  <2>. QED BY <2>1, <2>2
<1>. QED BY <1>3, Zenon DEF First

-----------------------------------------------------------------------------
(* The inductive invariant *)

Restoring == {"sleep", "alloc", "verify"}
Gone == {p \in Peer : pc[p] = "gone"}

StoreKinds ==
  /\ have \subseteq Slot /\ present \subseteq File /\ good \subseteq Slot
  /\ todo \in [files : SUBSET File, slots : SUBSET Slot]
RunKinds ==
  /\ stop \in {"no", "disabled", "destroyed"}
  /\ paused \in BOOLEAN
  /\ recovering \in Peer \cup {NoPeer}
  /\ attempts \in Nat /\ retries \in Nat
  /\ deletions \in 0..MaxDeletions /\ enables \in 0..MaxEnables /\ gains \in 0..MaxGains
LoopKinds ==
  /\ queue \in [Slot -> Nat]
  /\ pc \in [Peer -> Idle \cup Claiming \cup {"top", "parked", "idle", "leaving"}]
  /\ held \in [Peer -> Slot \cup {NoSlot}]
  /\ writes \in [Peer -> SUBSET Slot]
  /\ skips \in [Peer -> Nat] /\ corrupt \in [Peer -> Nat]
NewsKinds ==
  /\ notFound \in [Peer -> SUBSET Sums]
  /\ woken \in [Peer -> BOOLEAN]
  /\ news \in [Peer -> [fresh : BOOLEAN, chunks : SUBSET Sums]]
  /\ holds \in [Peer -> SUBSET Sums]
Kinds == StoreKinds /\ RunKinds /\ LoopKinds /\ NewsKinds

\* A loop holds a slot exactly between taking it and giving it up, and it has
\* something to write while it writes.
Holding ==
  \A p \in Peer :
    /\ held[p] # NoSlot <=> pc[p] \in Claiming \ {"banning"}
    /\ Writing(p) => writes[p] # {} /\ writes[p] \subseteq Same(held[p])

\* The loop that restores the files is the one that is noted.
OneRestores == \A p \in Peer : recovering = p <=> pc[p] \in Restoring

\* The last step of a count takes the loop or the peer out.
PeersCounted ==
  \A p \in Peer :
    /\ skips[p] <= MaxSkips /\ (skips[p] = MaxSkips => pc[p] \in {"banning", "gone"})
    /\ corrupt[p] <= MaxCorrupt /\ (corrupt[p] = MaxCorrupt => pc[p] \in {"banning", "gone"})
RunCounted ==
  /\ attempts <= MaxRealloc + Cardinality(Gone)
  /\ retries <= MaxRetries + Cardinality(Gone)

Base == Kinds /\ Holding /\ OneRestores /\ PeersCounted /\ RunCounted

\* Slots of one content are flagged together.
Together == \A s, t \in Slot : SumOf[s] = SumOf[t] /\ s \in have => t \in have

\* Each missing slot is in the queue or in the hands of a loop.
Queued ==
  stop = "no" /\ enables = 0 /\ recovering = NoPeer =>
    \A s \in Slot \ have : queue[s] > 0 \/ \E p \in Peer : held[p] = s

\* Nobody deletes: what is written stays, and what is flagged was written.
Untouched ==
  /\ present = File /\ recovering = NoPeer /\ deletions = 0
  /\ have \subseteq good
  /\ \A p \in Peer : Writing(p) => Same(held[p]) \ writes[p] \subseteq good

\* What a recovery has in doubt it has still to verify.
Doubted ==
  stop # "destroyed" =>
    \A s \in have : FileOf[s] \in present /\ s \notin good =>
      s \in todo.slots /\ \E p \in Peer : pc[p] \in {"alloc", "verify"}
Listed == \A p \in Peer : pc[p] = "alloc" => todo.slots = Slot /\ todo.files \cap present = {}

\* What its peer denied the last HAVE did not name, or there is a newer one.
Heard ==
  \A p \in Peer :
    /\ news[p].chunks \subseteq holds[p]
    /\ ~news[p].fresh => /\ notFound[p] \cap news[p].chunks = {}
                         /\ pc[p] = "denied" => SumOf[held[p]] \notin news[p].chunks

\* No two slots have one content.
OwnContents == \A s, t \in Slot : SumOf[s] = SumOf[t] => s = t
\* No allocation is refused when another file was made before it.
NoneHalfway == "alloc" \notin Faults \/ \A f, g \in File : f = g

-----------------------------------------------------------------------------
(* Types *)

\* A loop that writes has a slot to write next.
LEMMA WritesNext ==
  ASSUME Kinds, Holding, NEW p \in Peer, Writing(p)
  PROVE  First(writes[p]) \in Slot /\ FileOf[First(writes[p])] \in File
<1>1. writes[p] \in SUBSET Nat /\ writes[p] # {} /\ writes[p] \subseteq Slot
  BY SlotAssumption DEF Kinds, LoopKinds, Holding
<1>2. First(writes[p]) \in writes[p]
  BY <1>1, FirstOf
<1>. QED BY <1>1, <1>2 DEF File

\* Files, flags and the list of a recovery are of this download.
LEMMA StoreKindsStay ==
  ASSUME Kinds, Holding, [Next]_vars
  PROVE  StoreKinds'
<1>. USE DEF storeVars, peerVars, worldVars, pauseVars, Kinds, StoreKinds, LoopKinds, Go, Requeue,
   Break, Fail
<1>1. ASSUME NEW p \in Peer, Write(p)
      PROVE  StoreKinds'
  <2>1. First(writes[p]) \in Slot /\ Same(held[p]) \subseteq Slot
    BY <1>1, WritesNext DEF Write, Same
  <2>. QED BY <1>1, <2>1 DEF Write
<1>2. ASSUME NEW p \in Peer, Allocate(p)
      PROVE  StoreKinds'
  <2>1. CASE pc' = pc
    <3>1. PICK f : f = First(todo.files)
      OBVIOUS
    <3>2. todo.files # {} /\ todo.files \in SUBSET Nat
      BY <1>2, <2>1, SlotAssumption DEF Allocate, File
    <3>3. f \in File
      BY <3>1, <3>2, FirstOf
    <3>4. /\ todo' = [todo EXCEPT !.files = @ \ {f}] /\ present' = present \cup {f}
          /\ have' = have /\ good' \subseteq good
      BY <1>2, <2>1, <3>1 DEF Allocate
    <3>. QED BY <3>3, <3>4
  <2>2. CASE UNCHANGED <<storeVars, todo>>
    BY <2>2
  <2>. QED BY <1>2, <2>1, <2>2 DEF Allocate
<1>3. ASSUME NEW p \in Peer, Verify(p)
      PROVE  StoreKinds'
  BY <1>3 DEF Verify
<1>4. ASSUME NEW p \in Peer, Gain(p) \/ Have(p)
      PROVE  StoreKinds'
  BY <1>4 DEF Gain, Have
<1>5. ASSUME NEW p \in Peer, Turn(p) \/ Poll(p) \/ Close(p) \/ Join(p) \/ Dead(p) \/ Deny(p)
                             \/ Take(p) \/ Nothing(p)
      PROVE  StoreKinds'
  BY <1>5 DEF Turn, Poll, Close, Join, Dead, Deny, Take, Nothing
<1>6. ASSUME NEW p \in Peer, Cut(p) \/ Dropped(p) \/ Absent(p) \/ Busy(p) \/ Garbage(p) \/ Data(p)
      PROVE  StoreKinds'
  BY <1>6 DEF Cut, Dropped, Absent, Busy, Garbage, Data
<1>7. ASSUME NEW p \in Peer, WriteCut(p) \/ WriteFails(p) \/ Waited(p) \/ RewriteFails(p)
                             \/ Cooled(p) \/ FileGone(p) \/ WriteRefused(p)
      PROVE  StoreKinds'
  BY <1>7 DEF WriteCut, WriteFails, Waited, RewriteFails, Cooled, FileGone, WriteRefused
<1>8. ASSUME NEW p \in Peer, Slept(p) \/ AllocationFails(p) \/ Rebuild(p) \/ RecoveryCut(p)
      PROVE  StoreKinds'
  BY <1>8 DEF Slept, AllocationFails, Rebuild, RecoveryCut
<1>9. ASSUME NEW how \in Stops, Stop(how)
      PROVE  StoreKinds'
  BY <1>9 DEF Stop
<1>10. ASSUME NEW f \in File, Delete(f)
      PROVE  StoreKinds'
  BY <1>10 DEF Delete
<1>11. CASE Enable
  BY <1>11 DEF Enable
<1>12. CASE UNCHANGED vars
  BY <1>12 DEF vars
<1>. QED BY <1>1, <1>2, <1>3, <1>4, <1>5, <1>6, <1>7, <1>8, <1>9, <1>10, <1>11, <1>12 DEF Next, Loop,
   Request, Writes, Recovery, Done

\* The run's own figures stay in their ranges.
LEMMA RunKindsStay ==
  ASSUME Kinds, Holding, [Next]_vars
  PROVE  RunKinds'
<1>. USE DEF storeVars, peerVars, worldVars, pauseVars, Kinds, RunKinds, Recovered, Go, Requeue,
   Break, Fail
<1>1. ASSUME NEW p \in Peer, Write(p)
      PROVE  RunKinds'
  <2>1. paused' \in BOOLEAN
    BY <1>1, Zenon DEF Write, Resume
  <2>. QED BY <1>1, <2>1 DEF Write
<1>2. ASSUME NEW p \in Peer, WriteCut(p) \/ WriteFails(p)
      PROVE  RunKinds'
  <2>1. paused' \in BOOLEAN
    BY <1>2, Zenon DEF WriteCut, WriteFails, Resume
  <2>. QED BY <1>2, <2>1 DEF WriteCut, WriteFails
<1>3. ASSUME NEW p \in Peer, FileGone(p)
      PROVE  RunKinds'
  <2>1. paused' \in BOOLEAN
    BY <1>3, Zenon DEF FileGone
  <2>. QED BY <1>3, <2>1 DEF FileGone
<1>4. ASSUME NEW p \in Peer, WriteRefused(p)
      PROVE  RunKinds'
  <2>1. paused' \in BOOLEAN
    BY <1>4, Zenon DEF WriteRefused
  <2>. QED BY <1>4, <2>1 DEF WriteRefused
<1>5. ASSUME NEW p \in Peer, Gain(p) \/ Have(p)
      PROVE  RunKinds'
  <2>1. CASE Gain(p)
    BY <2>1, LimitAssumption DEF Gain
  <2>2. CASE Have(p)
    BY <2>2 DEF Have
  <2>. QED BY <1>5, <2>1, <2>2
<1>6. ASSUME NEW p \in Peer, Turn(p) \/ Poll(p) \/ Close(p) \/ Join(p) \/ Dead(p) \/ Deny(p)
                             \/ Take(p) \/ Nothing(p)
      PROVE  RunKinds'
  BY <1>6 DEF Turn, Poll, Close, Join, Dead, Deny, Take, Nothing
<1>7. ASSUME NEW p \in Peer, Cut(p) \/ Dropped(p) \/ Absent(p) \/ Busy(p) \/ Garbage(p) \/ Data(p)
      PROVE  RunKinds'
  BY <1>7 DEF Cut, Dropped, Absent, Busy, Garbage, Data
<1>8. ASSUME NEW p \in Peer, Waited(p) \/ RewriteFails(p) \/ Cooled(p)
      PROVE  RunKinds'
  BY <1>8 DEF Waited, RewriteFails, Cooled
<1>9. ASSUME NEW p \in Peer, Slept(p) \/ AllocationFails(p) \/ Rebuild(p) \/ RecoveryCut(p)
      PROVE  RunKinds'
  BY <1>9 DEF Slept, AllocationFails, Rebuild, RecoveryCut
<1>10. ASSUME NEW p \in Peer, Allocate(p) \/ Verify(p)
      PROVE  RunKinds'
  BY <1>10 DEF Allocate, Verify
<1>11. ASSUME NEW how \in Stops, Stop(how)
      PROVE  RunKinds'
  BY <1>11, LimitAssumption DEF Stop
<1>12. ASSUME NEW f \in File, Delete(f)
      PROVE  RunKinds'
  BY <1>12, LimitAssumption DEF Delete
<1>13. CASE Enable
  BY <1>13, LimitAssumption DEF Enable
<1>14. CASE UNCHANGED vars
  BY <1>14 DEF vars
<1>. QED BY <1>1, <1>2, <1>3, <1>4, <1>5, <1>6, <1>7, <1>8, <1>9, <1>10, <1>11, <1>12, <1>13,
   <1>14 DEF Next, Loop, Request, Writes, Recovery, Done

\* A queue counts its slots, and a loop holds a slot of this download.
LEMMA LoopKindsStay ==
  ASSUME Kinds, Holding, [Next]_vars
  PROVE  LoopKinds'
<1>. USE DEF storeVars, peerVars, worldVars, pauseVars, Kinds, LoopKinds, StoreKinds, Holding,
   Claiming, Idle, Onward, Go, Requeue, Break, Fail
<1>1. ASSUME NEW p \in Peer, Take(p)
      PROVE  LoopKinds'
  <2>1. PICK s \in Servable(p) : /\ queue' = [queue EXCEPT ![s] = @ - 1]
                               /\ held' = [held EXCEPT ![p] = s]
                               /\ Go(p, "fetch") /\ UNCHANGED <<writes, skips, corrupt>>
    BY <1>1 DEF Take
  <2>2. s \in Slot /\ queue[s] \in Nat \ {0}
    BY DEF Servable
  <2>. QED BY <2>1, <2>2
<1>2. ASSUME NEW p \in Peer, Data(p)
      PROVE  LoopKinds'
  BY <1>2 DEF Data, Targets, Same
<1>3. ASSUME NEW p \in Peer, Write(p)
      PROVE  LoopKinds'
  BY <1>3 DEF Write
<1>4. ASSUME NEW p \in Peer, Cooled(p)
      PROVE  LoopKinds'
  BY <1>4 DEF Cooled, Targets, Same
<1>5. ASSUME NEW p \in Peer, Gain(p) \/ Have(p)
      PROVE  LoopKinds'
  BY <1>5 DEF Gain, Have
<1>6. ASSUME NEW p \in Peer, Turn(p) \/ Poll(p) \/ Close(p) \/ Join(p) \/ Dead(p) \/ Deny(p)
                             \/ Nothing(p)
      PROVE  LoopKinds'
  BY <1>6 DEF Turn, Poll, Close, Join, Dead, Deny, Nothing
<1>7. ASSUME NEW p \in Peer, Cut(p) \/ Dropped(p) \/ Absent(p) \/ Busy(p) \/ Garbage(p)
      PROVE  LoopKinds'
  BY <1>7 DEF Cut, Dropped, Absent, Busy, Garbage
<1>8. ASSUME NEW p \in Peer, WriteCut(p) \/ WriteFails(p) \/ Waited(p) \/ RewriteFails(p)
                             \/ FileGone(p) \/ WriteRefused(p)
      PROVE  LoopKinds'
  BY <1>8 DEF WriteCut, WriteFails, Waited, RewriteFails, FileGone, WriteRefused
<1>9. ASSUME NEW p \in Peer, Slept(p) \/ AllocationFails(p) \/ Rebuild(p) \/ RecoveryCut(p)
      PROVE  LoopKinds'
  BY <1>9 DEF Slept, AllocationFails, Rebuild, RecoveryCut
<1>10. ASSUME NEW p \in Peer, Allocate(p) \/ Verify(p)
      PROVE  LoopKinds'
  BY <1>10 DEF Allocate, Verify
<1>11. ASSUME NEW how \in Stops, Stop(how)
      PROVE  LoopKinds'
  BY <1>11 DEF Stop
<1>12. ASSUME NEW f \in File, Delete(f)
      PROVE  LoopKinds'
  BY <1>12 DEF Delete
<1>13. CASE Enable
  BY <1>13 DEF Enable
<1>14. CASE UNCHANGED vars
  BY <1>14 DEF vars
<1>. QED BY <1>1, <1>2, <1>3, <1>4, <1>5, <1>6, <1>7, <1>8, <1>9, <1>10, <1>11, <1>12, <1>13,
   <1>14 DEF Next, Loop, Request, Writes, Recovery, Done

\* A look at the queue reads the news and forgets the misses they answer.
LEMMA LookKinds ==
  ASSUME NewsKinds, NEW p \in Peer, Look(p), holds' = holds
  PROVE  NewsKinds'
<1>1. KnownMisses(p) \in SUBSET Sums
  BY DEF KnownMisses, NewsKinds
<1>2. notFound' \in [Peer -> SUBSET Sums]
  BY <1>1 DEF Look, NewsKinds
<1>3. woken' \in [Peer -> BOOLEAN]
  BY Zenon DEF Look, NewsKinds
<1>4. news' \in [Peer -> [fresh : BOOLEAN, chunks : SUBSET Sums]]
  BY DEF Look, NewsKinds
<1>. QED BY <1>2, <1>3, <1>4 DEF NewsKinds

\* What peers have, said and denied are checksums of this download.
LEMMA NewsKindsStay ==
  ASSUME Kinds, Holding, [Next]_vars
  PROVE  NewsKinds'
<1>. USE DEF storeVars, peerVars, worldVars, pauseVars, Kinds, NewsKinds, Go, Requeue, Break, Fail
<1>1. ASSUME NEW p \in Peer, Take(p)
      PROVE  NewsKinds'
  BY <1>1, LookKinds DEF Take
<1>2. ASSUME NEW p \in Peer, Nothing(p)
      PROVE  NewsKinds'
  BY <1>2, LookKinds DEF Nothing
<1>3. ASSUME NEW p \in Peer, Absent(p) \/ Busy(p) \/ Garbage(p)
      PROVE  NewsKinds'
  <2>1. woken' \in [Peer -> BOOLEAN] /\ news' = news /\ holds' = holds
    BY <1>3 DEF Absent, Busy, Garbage
  <2>2. CASE notFound' = notFound
    BY <2>1, <2>2
  <2>3. CASE Absent(p)
    <3>1. SumOf[held[p]] \in Sums
      BY <2>3 DEF Absent, Holding, Claiming, Sums, LoopKinds
    <3>. QED BY <2>1, <2>3, <3>1 DEF Absent
  <2>. QED BY <1>3, <2>2, <2>3 DEF Busy, Garbage
<1>4. ASSUME NEW p \in Peer, Write(p)
      PROVE  NewsKinds'
  BY <1>4 DEF Write
<1>5. ASSUME NEW p \in Peer, Gain(p) \/ Have(p)
      PROVE  NewsKinds'
  <2>1. CASE Gain(p)
    BY <2>1 DEF Gain
  <2>2. CASE Have(p)
    <3>1. [fresh |-> TRUE, chunks |-> holds[p]] \in [fresh : BOOLEAN, chunks : SUBSET Sums]
      OBVIOUS
    <3>. QED BY <2>2, <3>1 DEF Have
  <2>. QED BY <1>5, <2>1, <2>2
<1>6. ASSUME NEW p \in Peer, Turn(p) \/ Poll(p) \/ Close(p) \/ Join(p) \/ Dead(p) \/ Deny(p)
      PROVE  NewsKinds'
  BY <1>6 DEF Turn, Poll, Close, Join, Dead, Deny
<1>7. ASSUME NEW p \in Peer, Cut(p) \/ Dropped(p) \/ Data(p)
      PROVE  NewsKinds'
  BY <1>7 DEF Cut, Dropped, Data
<1>8. ASSUME NEW p \in Peer, WriteCut(p) \/ WriteFails(p) \/ Waited(p) \/ RewriteFails(p)
                             \/ Cooled(p) \/ FileGone(p) \/ WriteRefused(p)
      PROVE  NewsKinds'
  BY <1>8 DEF WriteCut, WriteFails, Waited, RewriteFails, Cooled, FileGone, WriteRefused
<1>9. ASSUME NEW p \in Peer, Slept(p) \/ AllocationFails(p) \/ Rebuild(p) \/ RecoveryCut(p)
      PROVE  NewsKinds'
  BY <1>9 DEF Slept, AllocationFails, Rebuild, RecoveryCut
<1>10. ASSUME NEW p \in Peer, Allocate(p) \/ Verify(p)
      PROVE  NewsKinds'
  BY <1>10 DEF Allocate, Verify
<1>11. ASSUME NEW how \in Stops, Stop(how)
      PROVE  NewsKinds'
  BY <1>11 DEF Stop
<1>12. ASSUME NEW f \in File, Delete(f)
      PROVE  NewsKinds'
  BY <1>12 DEF Delete
<1>13. CASE Enable
  BY <1>13 DEF Enable
<1>14. CASE UNCHANGED vars
  BY <1>14 DEF vars
<1>. QED BY <1>1, <1>2, <1>3, <1>4, <1>5, <1>6, <1>7, <1>8, <1>9, <1>10, <1>11, <1>12, <1>13,
   <1>14 DEF Next, Loop, Request, Writes, Recovery, Done

-----------------------------------------------------------------------------
(* Loops and their slots *)

\* A slot is taken with the step into the try block and given up with the step out of it.
LEMMA HoldingStays ==
  ASSUME Kinds, Holding, [Next]_vars
  PROVE  Holding'
<1>. USE DEF storeVars, peerVars, worldVars, pauseVars, Kinds, StoreKinds, RunKinds, LoopKinds,
   Holding, Writing, Recovered, Claiming, Idle, Onward, Asked, Go, Requeue, Break, Fail
<1>1. ASSUME NEW p \in Peer, Take(p)
      PROVE  Holding'
  BY <1>1, SlotAssumption DEF Take, Look, Looking, Servable
<1>2. ASSUME NEW p \in Peer, Nothing(p)
      PROVE  Holding'
  BY <1>2 DEF Nothing, Look, Looking
<1>3. ASSUME NEW p \in Peer, Data(p)
      PROVE  Holding'
  BY <1>3, SlotAssumption DEF Data, Same, Targets
<1>4. ASSUME NEW p \in Peer, Write(p)
      PROVE  Holding'
  <2>1. CASE writes[p] # {First(writes[p])}
    <3>1. writes[p] \ {First(writes[p])} # {}
      BY <1>4, <2>1 DEF Write
    <3>. QED BY <1>4, <2>1, <3>1 DEF Write
  <2>2. CASE writes[p] = {First(writes[p])}
    BY <1>4, <2>2 DEF Write
  <2>. QED BY <2>1, <2>2
<1>5. ASSUME NEW p \in Peer, Cooled(p)
      PROVE  Holding'
  BY <1>5, SlotAssumption DEF Cooled, Same, Targets
<1>6. ASSUME NEW p \in Peer, Gain(p) \/ Have(p)
      PROVE  Holding'
  BY <1>6 DEF Gain, Have
<1>7. ASSUME NEW p \in Peer, Turn(p) \/ Poll(p) \/ Close(p) \/ Join(p) \/ Dead(p) \/ Deny(p)
      PROVE  Holding'
  BY <1>7 DEF Turn, Poll, Close, Join, Dead, Deny
<1>8. ASSUME NEW p \in Peer, Cut(p) \/ Dropped(p) \/ Absent(p) \/ Busy(p) \/ Garbage(p)
      PROVE  Holding'
  BY <1>8 DEF Cut, Dropped, Absent, Busy, Garbage
<1>9. ASSUME NEW p \in Peer, WriteCut(p) \/ WriteFails(p) \/ Waited(p) \/ RewriteFails(p)
                             \/ FileGone(p) \/ WriteRefused(p)
      PROVE  Holding'
  BY <1>9 DEF WriteCut, WriteFails, Waited, RewriteFails, FileGone, WriteRefused
<1>10. ASSUME NEW p \in Peer, Slept(p) \/ AllocationFails(p) \/ Rebuild(p) \/ RecoveryCut(p)
      PROVE  Holding'
  BY <1>10 DEF Slept, AllocationFails, Rebuild, RecoveryCut
<1>11. ASSUME NEW p \in Peer, Allocate(p) \/ Verify(p)
      PROVE  Holding'
  BY <1>11 DEF Allocate, Verify
<1>12. ASSUME NEW how \in Stops, Stop(how)
      PROVE  Holding'
  BY <1>12 DEF Stop
<1>13. ASSUME NEW f \in File, Delete(f)
      PROVE  Holding'
  BY <1>13 DEF Delete
<1>14. CASE Enable
  BY <1>14 DEF Enable
<1>15. CASE UNCHANGED vars
  BY <1>15 DEF vars
<1>. QED BY <1>1, <1>2, <1>3, <1>4, <1>5, <1>6, <1>7, <1>8, <1>9, <1>10, <1>11, <1>12, <1>13, <1>14,
   <1>15 DEF Next, Loop, Request, Writes, Recovery, Done

\* A recovery begins and ends with the note of who runs it.
LEMMA OneRestoresStays ==
  ASSUME Kinds, OneRestores, [Next]_vars
  PROVE  OneRestores'
<1>. USE DEF storeVars, peerVars, worldVars, pauseVars, Kinds, StoreKinds, RunKinds, LoopKinds,
   OneRestores, Restoring, Recovered, Claiming, Idle, Onward, Asked, Looking, Writing, Resume, Go,
   Requeue, Break, Fail
<1>1. ASSUME NEW p \in Peer, Write(p)
      PROVE  OneRestores'
  <2>1. pc'[p] \notin Restoring
    BY <1>1 DEF Write
  <2>. QED BY <1>1, <2>1 DEF Write
<1>2. ASSUME NEW p \in Peer, FileGone(p)
      PROVE  OneRestores'
  BY <1>2, PeerAssumption DEF FileGone
<1>3. ASSUME NEW p \in Peer, Slept(p)
      PROVE  OneRestores'
  BY <1>3, PeerAssumption DEF Slept
<1>4. ASSUME NEW p \in Peer, AllocationFails(p)
      PROVE  OneRestores'
  BY <1>4, PeerAssumption DEF AllocationFails
<1>5. ASSUME NEW p \in Peer, Rebuild(p) \/ RecoveryCut(p)
      PROVE  OneRestores'
  BY <1>5, PeerAssumption DEF Rebuild, RecoveryCut
<1>6. ASSUME NEW p \in Peer, Gain(p) \/ Have(p)
      PROVE  OneRestores'
  BY <1>6 DEF Gain, Have
<1>7. ASSUME NEW p \in Peer, Turn(p) \/ Poll(p) \/ Close(p) \/ Join(p) \/ Dead(p) \/ Deny(p)
                             \/ Take(p) \/ Nothing(p)
      PROVE  OneRestores'
  BY <1>7 DEF Turn, Poll, Close, Join, Dead, Deny, Take, Nothing
<1>8. ASSUME NEW p \in Peer, Cut(p) \/ Dropped(p) \/ Absent(p) \/ Busy(p) \/ Garbage(p) \/ Data(p)
      PROVE  OneRestores'
  BY <1>8 DEF Cut, Dropped, Absent, Busy, Garbage, Data
<1>9. ASSUME NEW p \in Peer, WriteCut(p) \/ WriteFails(p) \/ Waited(p) \/ RewriteFails(p)
                             \/ Cooled(p) \/ WriteRefused(p)
      PROVE  OneRestores'
  <2>1. CASE WriteRefused(p)
    BY <2>1 DEF WriteRefused
  <2>2. CASE WriteCut(p) \/ WriteFails(p) \/ Waited(p) \/ RewriteFails(p) \/ Cooled(p)
    BY <2>2 DEF WriteCut, WriteFails, Waited, RewriteFails, Cooled
  <2>. QED BY <1>9, <2>1, <2>2
<1>10. ASSUME NEW p \in Peer, Allocate(p) \/ Verify(p)
      PROVE  OneRestores'
  BY <1>10 DEF Allocate, Verify
<1>11. ASSUME NEW how \in Stops, Stop(how)
      PROVE  OneRestores'
  BY <1>11 DEF Stop
<1>12. ASSUME NEW f \in File, Delete(f)
      PROVE  OneRestores'
  BY <1>12 DEF Delete
<1>13. CASE Enable
  BY <1>13 DEF Enable
<1>14. CASE UNCHANGED vars
  BY <1>14 DEF vars
<1>. QED BY <1>1, <1>2, <1>3, <1>4, <1>5, <1>6, <1>7, <1>8, <1>9, <1>10, <1>11, <1>12, <1>13,
   <1>14 DEF Next, Loop, Request, Writes, Recovery, Done

-----------------------------------------------------------------------------
(* Counts *)

\* A peer is banned with the last busy answer and the last bad chunk it may give.
LEMMA PeersCountedStay ==
  ASSUME Kinds, PeersCounted, [Next]_vars
  PROVE  PeersCounted'
<1>. USE DEF storeVars, peerVars, worldVars, pauseVars, Kinds, LoopKinds, PeersCounted, Go, Requeue,
   Break, Fail
<1>1. ASSUME NEW p \in Peer, Turn(p) \/ Poll(p) \/ Close(p) \/ Join(p)
      PROVE  PeersCounted'
  BY <1>1 DEF Turn, Poll, Close, Join
<1>2. ASSUME NEW p \in Peer, Take(p)
      PROVE  PeersCounted'
  BY <1>2 DEF Take, Looking
<1>3. ASSUME NEW p \in Peer, Nothing(p)
      PROVE  PeersCounted'
  BY <1>3 DEF Nothing, Looking
<1>4. ASSUME NEW p \in Peer, Dead(p) \/ Deny(p)
      PROVE  PeersCounted'
  BY <1>4 DEF Dead, Deny, Asked
<1>5. ASSUME NEW p \in Peer, Cut(p) \/ Dropped(p)
      PROVE  PeersCounted'
  BY <1>5 DEF Cut, Dropped
<1>6. ASSUME NEW p \in Peer, Absent(p) \/ Busy(p) \/ Garbage(p)
      PROVE  PeersCounted'
  <2>. DEFINE same(q) == skips'[q] = skips[q] /\ corrupt'[q] = corrupt[q]
  <2>1. CASE Absent(p)
    BY <2>1, LimitAssumption DEF Absent, Onward
  <2>2. CASE Busy(p)
    BY <2>2, LimitAssumption DEF Busy, Onward, Asked
  <2>3. CASE Garbage(p)
    BY <2>3, LimitAssumption DEF Garbage, Asked
  <2>. QED BY <1>6, <2>1, <2>2, <2>3
<1>7. ASSUME NEW p \in Peer, Data(p)
      PROVE  PeersCounted'
  BY <1>7, LimitAssumption DEF Data, Asked
<1>8. ASSUME NEW p \in Peer, Write(p)
      PROVE  PeersCounted'
  BY <1>8 DEF Write, Writing
<1>9. ASSUME NEW p \in Peer, Gain(p) \/ Have(p)
      PROVE  PeersCounted'
  BY <1>9 DEF Gain, Have
<1>10. ASSUME NEW p \in Peer, WriteCut(p) \/ WriteFails(p) \/ Waited(p) \/ RewriteFails(p)
                              \/ Cooled(p) \/ FileGone(p) \/ WriteRefused(p)
      PROVE  PeersCounted'
  BY <1>10 DEF WriteCut, WriteFails, Waited, RewriteFails, Cooled, FileGone, WriteRefused
<1>11. ASSUME NEW p \in Peer, Slept(p) \/ AllocationFails(p) \/ Rebuild(p) \/ RecoveryCut(p)
      PROVE  PeersCounted'
  BY <1>11 DEF Slept, AllocationFails, Rebuild, RecoveryCut
<1>12. ASSUME NEW p \in Peer, Allocate(p) \/ Verify(p)
      PROVE  PeersCounted'
  BY <1>12 DEF Allocate, Verify
<1>13. ASSUME NEW how \in Stops, Stop(how)
      PROVE  PeersCounted'
  BY <1>13 DEF Stop
<1>14. ASSUME NEW f \in File, Delete(f)
      PROVE  PeersCounted'
  BY <1>14 DEF Delete
<1>15. CASE Enable
  BY <1>15 DEF Enable
<1>16. CASE UNCHANGED vars
  BY <1>16 DEF vars
<1>. QED BY <1>1, <1>2, <1>3, <1>4, <1>5, <1>6, <1>7, <1>8, <1>9, <1>10, <1>11, <1>12, <1>13, <1>14,
   <1>15, <1>16 DEF Next, Loop, Request, Writes, Recovery, Done

\* A loop that has gone home does not come back.
LEMMA GoneStays ==
  ASSUME Kinds, [Next]_vars
  PROVE  Gone \subseteq Gone'
<1>. USE DEF Kinds, LoopKinds, Gone, Looking, Asked, Writing, Go, Requeue, Break, Fail
<1>1. ASSUME NEW p \in Peer, Write(p)
      PROVE  Gone \subseteq Gone'
  BY <1>1 DEF Write
<1>2. ASSUME NEW p \in Peer, Gain(p) \/ Have(p)
      PROVE  Gone \subseteq Gone'
  BY <1>2 DEF Gain, Have
<1>3. ASSUME NEW p \in Peer, Turn(p) \/ Poll(p) \/ Close(p) \/ Join(p) \/ Dead(p) \/ Deny(p)
                             \/ Take(p) \/ Nothing(p)
      PROVE  Gone \subseteq Gone'
  BY <1>3 DEF Turn, Poll, Close, Join, Dead, Deny, Take, Nothing
<1>4. ASSUME NEW p \in Peer, Cut(p) \/ Dropped(p) \/ Absent(p) \/ Busy(p) \/ Garbage(p) \/ Data(p)
      PROVE  Gone \subseteq Gone'
  BY <1>4 DEF Cut, Dropped, Absent, Busy, Garbage, Data
<1>5. ASSUME NEW p \in Peer, WriteCut(p) \/ WriteFails(p) \/ Waited(p) \/ RewriteFails(p)
                             \/ Cooled(p) \/ FileGone(p) \/ WriteRefused(p)
      PROVE  Gone \subseteq Gone'
  BY <1>5 DEF WriteCut, WriteFails, Waited, RewriteFails, Cooled, FileGone, WriteRefused
<1>6. ASSUME NEW p \in Peer, Slept(p) \/ AllocationFails(p) \/ Rebuild(p) \/ RecoveryCut(p)
      PROVE  Gone \subseteq Gone'
  BY <1>6 DEF Slept, AllocationFails, Rebuild, RecoveryCut
<1>7. ASSUME NEW p \in Peer, Allocate(p) \/ Verify(p)
      PROVE  Gone \subseteq Gone'
  BY <1>7 DEF Allocate, Verify
<1>8. ASSUME NEW how \in Stops, Stop(how)
      PROVE  Gone \subseteq Gone'
  BY <1>8 DEF Stop
<1>9. ASSUME NEW f \in File, Delete(f)
      PROVE  Gone \subseteq Gone'
  BY <1>9 DEF Delete
<1>10. CASE Enable
  BY <1>10 DEF Enable
<1>11. CASE UNCHANGED vars
  BY <1>11 DEF vars
<1>. QED BY <1>1, <1>2, <1>3, <1>4, <1>5, <1>6, <1>7, <1>8, <1>9, <1>10, <1>11 DEF Next, Loop,
   Request, Writes, Recovery, Done

\* One loop more is gone, and their number can be counted.
LEMMA GoneCount ==
  ASSUME Kinds, [Next]_vars
  PROVE  /\ Cardinality(Gone) \in Nat /\ Cardinality(Gone') \in Nat
         /\ Cardinality(Gone) <= Cardinality(Gone')
         /\ \A p \in Gone' \ Gone : Cardinality(Gone) + 1 <= Cardinality(Gone')
<1>1. IsFiniteSet(Gone) /\ IsFiniteSet(Gone')
  BY PeerAssumption, FS_Subset DEF Gone
<1>2. /\ Cardinality(Gone) \in Nat /\ Cardinality(Gone') \in Nat
      /\ Cardinality(Gone) <= Cardinality(Gone')
  BY <1>1, GoneStays, FS_Subset, FS_CardinalityType
<1>3. ASSUME NEW p \in Gone' \ Gone
      PROVE  Cardinality(Gone) + 1 <= Cardinality(Gone')
  <2>1. IsFiniteSet(Gone \cup {p}) /\ Cardinality(Gone \cup {p}) = Cardinality(Gone) + 1
    BY <1>1, FS_AddElement
  <2>2. Gone \cup {p} \subseteq Gone'
    BY GoneStays
  <2>. QED BY <1>1, <2>1, <2>2, FS_Subset
<1>. QED BY <1>2, <1>3

\* Whoever tries once too often goes home for it.
LEMMA RunCountedStays ==
  ASSUME Kinds, RunCounted, [Next]_vars
  PROVE  RunCounted'
<1>1. /\ Cardinality(Gone) \in Nat /\ Cardinality(Gone') \in Nat
      /\ Cardinality(Gone) <= Cardinality(Gone')
      /\ attempts \in Nat /\ retries \in Nat /\ MaxRealloc \in Nat /\ MaxRetries \in Nat
  BY GoneCount, LimitAssumption DEF Kinds, RunKinds
<1>2. ASSUME attempts' \in {attempts, 0}, retries' \in {retries, 0}
      PROVE  RunCounted'
  BY <1>1, <1>2 DEF RunCounted
<1>. USE DEF pauseVars
<1>3. ASSUME NEW p \in Peer, FileGone(p)
      PROVE  RunCounted'
  <2>1. CASE UNCHANGED attempts
    BY <1>2, <1>3, <2>1 DEF FileGone
  <2>2. CASE attempts' = attempts + 1 /\ attempts < MaxRealloc
    BY <1>1, <1>3, <2>2 DEF FileGone, RunCounted
  <2>3. CASE attempts' = attempts + 1 /\ Fail(p)
    <3>1. p \in Gone' \ Gone
      BY <1>3, <2>3 DEF FileGone, Fail, Break, Go, Gone, Kinds, LoopKinds
    <3>. QED BY <1>1, <1>3, <2>3, <3>1, GoneCount DEF FileGone, RunCounted
  <2>. QED BY <1>1, <1>3, <2>1, <2>2, <2>3 DEF FileGone
<1>4. ASSUME NEW p \in Peer, WriteRefused(p)
      PROVE  RunCounted'
  <2>1. CASE UNCHANGED retries
    BY <1>2, <1>4, <2>1 DEF WriteRefused
  <2>2. CASE retries' = retries + 1 /\ retries < MaxRetries
    BY <1>1, <1>4, <2>2 DEF WriteRefused, RunCounted
  <2>3. CASE retries' = retries + 1 /\ Fail(p)
    <3>1. p \in Gone' \ Gone
      BY <1>4, <2>3 DEF WriteRefused, Fail, Break, Go, Gone, Kinds, LoopKinds
    <3>. QED BY <1>1, <1>4, <2>3, <3>1, GoneCount DEF WriteRefused, RunCounted
  <2>. QED BY <1>1, <1>4, <2>1, <2>2, <2>3 DEF WriteRefused
<1>5. ASSUME NEW p \in Peer, Turn(p) \/ Poll(p) \/ Close(p) \/ Join(p) \/ Take(p) \/ Nothing(p)
                             \/ Dead(p) \/ Deny(p) \/ Cut(p) \/ Dropped(p) \/ Absent(p) \/ Busy(p)
                             \/ Garbage(p) \/ Data(p)
      PROVE  RunCounted'
  BY <1>2, <1>5 DEF Turn, Poll, Close, Join, Take, Nothing, Dead, Deny, Cut, Dropped, Absent, Busy,
     Garbage, Data
<1>6. ASSUME NEW p \in Peer, Write(p) \/ WriteCut(p) \/ WriteFails(p) \/ Waited(p)
                             \/ RewriteFails(p) \/ Cooled(p)
      PROVE  RunCounted'
  BY <1>2, <1>6 DEF Write, WriteCut, WriteFails, Waited, RewriteFails, Cooled
<1>7. ASSUME NEW p \in Peer, Slept(p) \/ Allocate(p) \/ AllocationFails(p) \/ Verify(p)
                             \/ Rebuild(p) \/ RecoveryCut(p) \/ Gain(p) \/ Have(p)
      PROVE  RunCounted'
  BY <1>2, <1>7 DEF Slept, Allocate, AllocationFails, Verify, Rebuild, RecoveryCut, Gain, Have
<1>8. ASSUME NEW how \in Stops, Stop(how)
      PROVE  RunCounted'
  BY <1>2, <1>8 DEF Stop
<1>9. ASSUME NEW f \in File, Delete(f)
      PROVE  RunCounted'
  BY <1>2, <1>9 DEF Delete
<1>10. CASE Enable
  BY <1>2, <1>10 DEF Enable
<1>11. CASE UNCHANGED vars
  BY <1>2, <1>11 DEF vars
<1>. QED BY <1>3, <1>4, <1>5, <1>6, <1>7, <1>8, <1>9, <1>10, <1>11 DEF Next, Loop, Request, Writes,
   Recovery, Done

-----------------------------------------------------------------------------
(* Chunks *)

\* Outside a recovery, flags are set for all slots of a content at once.
LEMMA TogetherStays ==
  ASSUME OneRestores, recovering = NoPeer, Together, [Next]_vars
  PROVE  Together'
<1>. USE DEF storeVars, peerVars, worldVars, pauseVars, Together, Same, Go, Requeue, Break, Fail
<1>1. ASSUME NEW p \in Peer, Write(p)
      PROVE  Together'
  BY <1>1 DEF Write
<1>2. ASSUME NEW p \in Peer, Allocate(p)
      PROVE  Together'
  BY <1>2 DEF Allocate
<1>3. ASSUME NEW p \in Peer, Verify(p)
      PROVE  Together'
  BY <1>3, PeerAssumption DEF Verify, OneRestores, Restoring
<1>4. ASSUME NEW p \in Peer, Gain(p) \/ Have(p)
      PROVE  Together'
  BY <1>4 DEF Gain, Have
<1>5. ASSUME NEW p \in Peer, Turn(p) \/ Poll(p) \/ Close(p) \/ Join(p) \/ Dead(p) \/ Deny(p)
                             \/ Take(p) \/ Nothing(p)
      PROVE  Together'
  BY <1>5 DEF Turn, Poll, Close, Join, Dead, Deny, Take, Nothing
<1>6. ASSUME NEW p \in Peer, Cut(p) \/ Dropped(p) \/ Absent(p) \/ Busy(p) \/ Garbage(p) \/ Data(p)
      PROVE  Together'
  BY <1>6 DEF Cut, Dropped, Absent, Busy, Garbage, Data
<1>7. ASSUME NEW p \in Peer, WriteCut(p) \/ WriteFails(p) \/ Waited(p) \/ RewriteFails(p)
                             \/ Cooled(p) \/ FileGone(p) \/ WriteRefused(p)
      PROVE  Together'
  BY <1>7 DEF WriteCut, WriteFails, Waited, RewriteFails, Cooled, FileGone, WriteRefused
<1>8. ASSUME NEW p \in Peer, Slept(p) \/ AllocationFails(p) \/ Rebuild(p) \/ RecoveryCut(p)
      PROVE  Together'
  BY <1>8 DEF Slept, AllocationFails, Rebuild, RecoveryCut
<1>9. ASSUME NEW how \in Stops, Stop(how)
      PROVE  Together'
  BY <1>9 DEF Stop
<1>10. ASSUME NEW f \in File, Delete(f)
      PROVE  Together'
  BY <1>10 DEF Delete
<1>11. CASE Enable
  BY <1>11 DEF Enable
<1>12. CASE UNCHANGED vars
  BY <1>12 DEF vars
<1>. QED BY <1>1, <1>2, <1>3, <1>4, <1>5, <1>6, <1>7, <1>8, <1>9, <1>10, <1>11, <1>12 DEF Next, Loop,
   Request, Writes, Recovery, Done

\* To ask by checksum is to ask for the slot while the slots of a content go together.
LEMMA OneContent ==
  ASSUME Together, NEW s \in Slot
  PROVE  Downloaded(s) <=> s \in have
<1>1. Same(s) \in SUBSET Nat /\ s \in Same(s)
  BY SlotAssumption DEF Same
<1>2. First(Same(s)) \in Same(s)
  BY <1>1, FirstOf
<1>. QED BY <1>2 DEF Downloaded, Together, Same

\* A slot leaves the queue into the hands of a loop, and leaves those flagged or requeued.
LEMMA QueuedStays ==
  ASSUME Kinds, Holding, OneRestores, Together, Queued, [Next]_vars
  PROVE  Queued'
<1>. USE DEF storeVars, peerVars, worldVars, pauseVars, Kinds, StoreKinds, RunKinds, LoopKinds,
   Holding, OneRestores, Restoring, Queued, Recovered, Go, Requeue, Break, Fail
<1>1. ASSUME NEW p \in Peer, Take(p)
      PROVE  Queued'
  <2>1. PICK s \in Servable(p) : /\ queue' = [queue EXCEPT ![s] = @ - 1]
                               /\ held' = [held EXCEPT ![p] = s]
                               /\ UNCHANGED <<storeVars, worldVars, stop, pauseVars>>
    BY <1>1 DEF Take
  <2>2. held[p] = NoSlot
    BY <1>1 DEF Take, Looking, Claiming
  <2>. QED BY <2>1, <2>2, SlotAssumption DEF Servable
<1>2. ASSUME NEW p \in Peer, Nothing(p)
      PROVE  Queued'
  BY <1>2, OneContent DEF Nothing, Look
<1>3. ASSUME NEW p \in Peer, Write(p)
      PROVE  Queued'
  BY <1>3 DEF Write, Same
<1>4. ASSUME NEW p \in Peer, Allocate(p)
      PROVE  Queued'
  BY <1>4 DEF Allocate
<1>5. ASSUME NEW p \in Peer, Verify(p)
      PROVE  Queued'
  BY <1>5, PeerAssumption DEF Verify
<1>6. ASSUME NEW p \in Peer, Gain(p) \/ Have(p)
      PROVE  Queued'
  BY <1>6 DEF Gain, Have
<1>7. ASSUME NEW p \in Peer, Turn(p) \/ Poll(p) \/ Close(p) \/ Join(p) \/ Dead(p) \/ Deny(p)
      PROVE  Queued'
  BY <1>7 DEF Turn, Poll, Close, Join, Dead, Deny
<1>8. ASSUME NEW p \in Peer, Cut(p) \/ Dropped(p) \/ Absent(p) \/ Busy(p) \/ Garbage(p) \/ Data(p)
      PROVE  Queued'
  BY <1>8 DEF Cut, Dropped, Absent, Busy, Garbage, Data
<1>9. ASSUME NEW p \in Peer, WriteCut(p) \/ WriteFails(p) \/ Waited(p) \/ RewriteFails(p)
                             \/ Cooled(p) \/ FileGone(p) \/ WriteRefused(p)
      PROVE  Queued'
  BY <1>9 DEF WriteCut, WriteFails, Waited, RewriteFails, Cooled, FileGone, WriteRefused
<1>10. ASSUME NEW p \in Peer, Slept(p) \/ AllocationFails(p) \/ Rebuild(p) \/ RecoveryCut(p)
      PROVE  Queued'
  BY <1>10 DEF Slept, AllocationFails, Rebuild, RecoveryCut
<1>11. ASSUME NEW how \in Stops, Stop(how)
      PROVE  Queued'
  BY <1>11, LimitAssumption DEF Stop
<1>12. ASSUME NEW f \in File, Delete(f)
      PROVE  Queued'
  BY <1>12 DEF Delete
<1>13. CASE Enable
  BY <1>13 DEF Enable
<1>14. CASE UNCHANGED vars
  BY <1>14 DEF vars
<1>. QED BY <1>1, <1>2, <1>3, <1>4, <1>5, <1>6, <1>7, <1>8, <1>9, <1>10, <1>11, <1>12, <1>13,
   <1>14 DEF Next, Loop, Request, Writes, Recovery, Done

\* A write adds to the disk what the flags will say, and nothing is taken from it.
LEMMA UntouchedStays ==
  ASSUME MaxDeletions = 0, Kinds, Holding, OneRestores, Untouched, [Next]_vars
  PROVE  Untouched'
<1>. USE DEF storeVars, peerVars, worldVars, pauseVars, Kinds, StoreKinds, RunKinds, LoopKinds,
   Holding, OneRestores, Restoring, Untouched, Writing, Recovered, Go, Requeue, Break, Fail
<1>1. ASSUME NEW p \in Peer, Data(p)
      PROVE  Untouched'
  <2>1. /\ writes'[p] = Same(held[p]) /\ held' = held
        /\ \A q \in Peer \ {p} : pc'[q] = pc[q] /\ writes'[q] = writes[q]
    BY <1>1 DEF Data, Targets
  <2>2. UNCHANGED <<storeVars, worldVars, pauseVars>>
    BY <1>1 DEF Data
  <2>. QED BY <2>1, <2>2 DEF Same
<1>2. ASSUME NEW p \in Peer, Write(p)
      PROVE  Untouched'
  <2>. DEFINE t == First(writes[p])
  <2>1. /\ good' = good \cup {t} /\ UNCHANGED <<present, deletions, recovering>>
        /\ Writing(p) /\ Same(held[p]) \ writes[p] \subseteq good
    BY <1>2 DEF Write
  <2>2. CASE writes[p] # {t}
    <3>1. writes' = [writes EXCEPT ![p] = @ \ {t}] /\ UNCHANGED <<have, pc, held>>
      BY <1>2, <2>2 DEF Write
    <3>. HIDE DEF t
    <3>. QED BY <2>1, <3>1 DEF Same
  <2>3. CASE writes[p] = {t}
    <3>1. /\ have' \subseteq have \cup Same(held[p]) /\ pc'[p] \notin {"write", "rewrite"}
          /\ \A q \in Peer \ {p} : pc'[q] = pc[q] /\ held'[q] = held[q] /\ writes'[q] = writes[q]
      BY <1>2, <2>3 DEF Write
    <3>. HIDE DEF t
    <3>. QED BY <2>1, <2>3, <3>1 DEF Same
  <2>. QED BY <2>2, <2>3
<1>3. ASSUME NEW p \in Peer, FileGone(p)
      PROVE  Untouched'
  BY <1>3, WritesNext DEF FileGone
<1>4. ASSUME NEW p \in Peer, WriteRefused(p)
      PROVE  Untouched'
  <2>1. /\ UNCHANGED <<storeVars, worldVars, recovering>>
        /\ \A q \in Peer : Writing(q)' => Writing(q) /\ held'[q] = held[q] /\ writes'[q] = writes[q]
    BY <1>4 DEF WriteRefused
  <2>. QED BY <2>1 DEF Same
<1>5. ASSUME NEW p \in Peer, Cooled(p)
      PROVE  Untouched'
  <2>1. /\ UNCHANGED <<storeVars, worldVars, recovering>>
        /\ \A q \in Peer \ {p} : pc'[q] = pc[q] /\ held'[q] = held[q] /\ writes'[q] = writes[q]
        /\ Writing(p)' => held'[p] = held[p] /\ writes'[p] = Same(held[p])
    BY <1>5 DEF Cooled, Targets
  <2>. QED BY <2>1 DEF Same
<1>6. ASSUME NEW p \in Peer, Slept(p)
      PROVE  Untouched'
  BY <1>6, PeerAssumption DEF Slept
<1>7. ASSUME NEW p \in Peer, Allocate(p)
      PROVE  Untouched'
  BY <1>7, PeerAssumption DEF Allocate
<1>8. ASSUME NEW p \in Peer, AllocationFails(p)
      PROVE  Untouched'
  BY <1>8, PeerAssumption DEF AllocationFails
<1>9. ASSUME NEW p \in Peer, Verify(p)
      PROVE  Untouched'
  BY <1>9, PeerAssumption DEF Verify
<1>10. ASSUME NEW p \in Peer, Rebuild(p) \/ RecoveryCut(p)
      PROVE  Untouched'
  BY <1>10, PeerAssumption DEF Rebuild, RecoveryCut
<1>11. ASSUME NEW p \in Peer, Gain(p) \/ Have(p)
      PROVE  Untouched'
  BY <1>11 DEF Gain, Have
<1>12. ASSUME NEW p \in Peer, Cut(p) \/ Dropped(p) \/ Absent(p) \/ Busy(p) \/ Garbage(p)
      PROVE  Untouched'
  <2>1. /\ pc'[p] \notin {"write", "rewrite"}
        /\ \A q \in Peer \ {p} : pc'[q] = pc[q] /\ held'[q] = held[q] /\ writes'[q] = writes[q]
    BY <1>12 DEF Cut, Dropped, Absent, Busy, Garbage, Onward
  <2>2. UNCHANGED <<storeVars, worldVars, pauseVars>>
    BY <1>12 DEF Cut, Dropped, Absent, Busy, Garbage
  <2>. QED BY <2>1, <2>2 DEF Same
<1>13. ASSUME NEW p \in Peer, Turn(p) \/ Poll(p) \/ Close(p) \/ Join(p) \/ Dead(p) \/ Deny(p)
                              \/ Take(p) \/ Nothing(p)
      PROVE  Untouched'
  BY <1>13 DEF Turn, Poll, Close, Join, Dead, Deny, Take, Nothing
<1>14. ASSUME NEW p \in Peer, WriteCut(p) \/ WriteFails(p) \/ Waited(p) \/ RewriteFails(p)
      PROVE  Untouched'
  BY <1>14 DEF WriteCut, WriteFails, Waited, RewriteFails
<1>15. ASSUME NEW how \in Stops, Stop(how)
      PROVE  Untouched'
  BY <1>15 DEF Stop
<1>16. ASSUME NEW f \in File, Delete(f)
      PROVE  Untouched'
  BY <1>16 DEF Delete
<1>17. CASE Enable
  BY <1>17 DEF Enable
<1>18. CASE UNCHANGED vars
  BY <1>18 DEF vars
<1>. QED BY <1>1, <1>2, <1>3, <1>4, <1>5, <1>6, <1>7, <1>8, <1>9, <1>10, <1>11, <1>12, <1>13, <1>14,
   <1>15, <1>16, <1>17, <1>18 DEF Next, Loop, Request, Writes, Recovery, Done

-----------------------------------------------------------------------------
(* Recovery *)

\* A recovery that allocates has everything to verify and knows the missing files.
LEMMA ListedStays ==
  ASSUME Kinds, Holding, OneRestores, Listed, [Next]_vars
  PROVE  Listed'
<1>. USE DEF storeVars, peerVars, worldVars, pauseVars, Kinds, StoreKinds, RunKinds, LoopKinds,
   OneRestores, Restoring, Listed, Recovered, Onward, Go, Requeue, Break, Fail
<1>1. ASSUME NEW p \in Peer, Write(p)
      PROVE  Listed'
  BY <1>1 DEF Write
<1>2. ASSUME NEW p \in Peer, Gain(p) \/ Have(p)
      PROVE  Listed'
  BY <1>2 DEF Gain, Have
<1>3. ASSUME NEW p \in Peer, Turn(p) \/ Poll(p) \/ Close(p) \/ Join(p) \/ Dead(p) \/ Deny(p)
                             \/ Take(p) \/ Nothing(p)
      PROVE  Listed'
  BY <1>3 DEF Turn, Poll, Close, Join, Dead, Deny, Take, Nothing
<1>4. ASSUME NEW p \in Peer, Cut(p) \/ Dropped(p) \/ Absent(p) \/ Busy(p) \/ Garbage(p) \/ Data(p)
      PROVE  Listed'
  BY <1>4 DEF Cut, Dropped, Absent, Busy, Garbage, Data
<1>5. ASSUME NEW p \in Peer, WriteCut(p) \/ WriteFails(p) \/ Waited(p) \/ RewriteFails(p)
                             \/ Cooled(p) \/ FileGone(p) \/ WriteRefused(p)
      PROVE  Listed'
  BY <1>5 DEF WriteCut, WriteFails, Waited, RewriteFails, Cooled, FileGone, WriteRefused
<1>6. ASSUME NEW p \in Peer, Slept(p) \/ AllocationFails(p) \/ Rebuild(p) \/ RecoveryCut(p)
      PROVE  Listed'
  BY <1>6 DEF Slept, AllocationFails, Rebuild, RecoveryCut
<1>7. ASSUME NEW p \in Peer, Allocate(p) \/ Verify(p)
      PROVE  Listed'
  BY <1>7 DEF Allocate, Verify
<1>8. ASSUME NEW how \in Stops, Stop(how)
      PROVE  Listed'
  BY <1>8 DEF Stop
<1>9. ASSUME NEW f \in File, Delete(f)
      PROVE  Listed'
  BY <1>9 DEF Delete
<1>10. CASE Enable
  BY <1>10 DEF Enable
<1>11. CASE UNCHANGED vars
  BY <1>11 DEF vars
<1>. QED BY <1>1, <1>2, <1>3, <1>4, <1>5, <1>6, <1>7, <1>8, <1>9, <1>10, <1>11 DEF Next, Loop,
   Request, Writes, Recovery, Done

\* A file made anew is in doubt until each of its slots has been read.
LEMMA DoubtedStays ==
  ASSUME OwnContents, NoneHalfway, Kinds, Holding, OneRestores, Doubted, Listed, [Next]_vars
  PROVE  Doubted'
<1>. USE DEF storeVars, peerVars, worldVars, pauseVars, Kinds, StoreKinds, RunKinds, LoopKinds,
   Holding, OneRestores, Restoring, Doubted, Listed, Recovered, Onward, Asked, Looking, Writing, Go,
   Requeue, Break, Fail
<1>1. ASSUME NEW p \in Peer, Write(p)
      PROVE  Doubted'
  <2>. DEFINE t == First(writes[p])
  <2>1. Same(held[p]) = {held[p]} /\ writes[p] = {t} /\ t = held[p]
    <3>1. /\ held[p] \in Slot /\ writes[p] # {}
          /\ writes[p] \subseteq Same(held[p]) /\ writes[p] \in SUBSET Nat
      BY <1>1, SlotAssumption DEF Write, Claiming
    <3>2. Same(held[p]) = {held[p]}
      BY <3>1 DEF Same, OwnContents
    <3>3. t \in writes[p]
      BY <3>1, FirstOf
    <3>. QED BY <3>1, <3>2, <3>3
  <2>2. /\ good' = good \cup {t} /\ have' \subseteq have \cup Same(held[p])
        /\ pc[p] \notin {"alloc", "verify"} /\ pc'[p] \notin {"alloc", "verify"}
        /\ \A q \in Peer \ {p} : pc'[q] = pc[q]
        /\ UNCHANGED <<present, stop, todo>>
    BY <1>1, <2>1 DEF Write
  <2>. HIDE DEF t
  <2>. QED BY <2>1, <2>2
<1>2. ASSUME NEW p \in Peer, Waited(p) \/ RewriteFails(p)
      PROVE  Doubted'
  <2>1. /\ UNCHANGED <<storeVars, stop, todo>> /\ pc[p] \notin {"alloc", "verify"}
        /\ \A q \in Peer \ {p} : pc'[q] = pc[q]
    BY <1>2 DEF Waited, RewriteFails
  <2>. QED BY <2>1
<1>3. ASSUME NEW p \in Peer, AllocationFails(p)
      PROVE  Doubted'
  <2>1. present = {}
    BY <1>3 DEF AllocationFails, NoneHalfway
  <2>. QED BY <1>3, <2>1 DEF AllocationFails
<1>4. ASSUME NEW p \in Peer, Gain(p) \/ Have(p)
      PROVE  Doubted'
  BY <1>4 DEF Gain, Have
<1>5. ASSUME NEW p \in Peer, Turn(p) \/ Poll(p) \/ Close(p) \/ Join(p) \/ Dead(p) \/ Deny(p)
                             \/ Take(p) \/ Nothing(p)
      PROVE  Doubted'
  BY <1>5 DEF Turn, Poll, Close, Join, Dead, Deny, Take, Nothing
<1>6. ASSUME NEW p \in Peer, Cut(p) \/ Dropped(p) \/ Absent(p) \/ Busy(p) \/ Garbage(p) \/ Data(p)
      PROVE  Doubted'
  BY <1>6 DEF Cut, Dropped, Absent, Busy, Garbage, Data
<1>7. ASSUME NEW p \in Peer, WriteCut(p) \/ WriteFails(p) \/ Cooled(p) \/ FileGone(p)
                             \/ WriteRefused(p)
      PROVE  Doubted'
  BY <1>7 DEF WriteCut, WriteFails, Cooled, FileGone, WriteRefused
<1>8. ASSUME NEW p \in Peer, Slept(p) \/ Rebuild(p) \/ RecoveryCut(p)
      PROVE  Doubted'
  BY <1>8 DEF Slept, Rebuild, RecoveryCut
<1>9. ASSUME NEW p \in Peer, Allocate(p) \/ Verify(p)
      PROVE  Doubted'
  BY <1>9 DEF Allocate, Verify
<1>10. ASSUME NEW how \in Stops, Stop(how)
      PROVE  Doubted'
  BY <1>10 DEF Stop
<1>11. ASSUME NEW f \in File, Delete(f)
      PROVE  Doubted'
  BY <1>11 DEF Delete, SlotsOf
<1>12. CASE Enable
  BY <1>12 DEF Enable
<1>13. CASE UNCHANGED vars
  BY <1>13 DEF vars
<1>. QED BY <1>1, <1>2, <1>3, <1>4, <1>5, <1>6, <1>7, <1>8, <1>9, <1>10, <1>11, <1>12,
   <1>13 DEF Next, Loop, Request, Writes, Recovery, Done

-----------------------------------------------------------------------------
(* Answers and announcements *)

\* A HAVE that was read has taken back the misses it answers.
LEMMA HeardStays ==
  ASSUME Kinds, Holding, Heard, [Next]_vars
  PROVE  Heard'
<1>. USE DEF storeVars, peerVars, worldVars, pauseVars, Kinds, LoopKinds, NewsKinds, Holding, Heard,
   Go, Requeue, Break, Fail
<1>1. ASSUME NEW p \in Peer, Take(p)
      PROVE  Heard'
  <2>1. PICK s \in Servable(p) : held' = [held EXCEPT ![p] = s] /\ pc' = [pc EXCEPT ![p] = "fetch"]
    BY <1>1 DEF Take
  <2>2. /\ notFound' = [notFound EXCEPT ![p] = KnownMisses(p)]
        /\ news' = [news EXCEPT ![p].fresh = FALSE] /\ holds' = holds
    BY <1>1 DEF Take, Look
  <2>. QED BY <2>1, <2>2 DEF KnownMisses
<1>2. ASSUME NEW p \in Peer, Nothing(p)
      PROVE  Heard'
  <2>1. pc' = [pc EXCEPT ![p] = pc'[p]] /\ pc'[p] # "denied" /\ held' = held
    BY <1>2 DEF Nothing
  <2>2. /\ notFound' = [notFound EXCEPT ![p] = KnownMisses(p)]
        /\ news' = [news EXCEPT ![p].fresh = FALSE] /\ holds' = holds
    BY <1>2 DEF Nothing, Look
  <2>. QED BY <2>1, <2>2 DEF KnownMisses
<1>3. ASSUME NEW p \in Peer, Absent(p) \/ Busy(p) \/ Garbage(p)
      PROVE  Heard'
  <2>1. /\ news' = news /\ holds' = holds /\ pc'[p] # "denied"
        /\ \A q \in Peer \ {p} : pc'[q] = pc[q] /\ held'[q] = held[q] /\ notFound'[q] = notFound[q]
        /\ \/ notFound'[p] = notFound[p]
           \/ pc[p] = "denied" /\ notFound'[p] = notFound[p] \cup {SumOf[held[p]]}
    BY <1>3 DEF Absent, Busy, Garbage, Onward
  <2>. QED BY <2>1
<1>4. ASSUME NEW p \in Peer, Write(p)
      PROVE  Heard'
  BY <1>4 DEF Write
<1>5. ASSUME NEW p \in Peer, Gain(p) \/ Have(p)
      PROVE  Heard'
  <2>1. CASE Gain(p)
    BY <2>1 DEF Gain
  <2>2. CASE Have(p)
    BY <2>2 DEF Have
  <2>. QED BY <1>5, <2>1, <2>2
<1>6. ASSUME NEW p \in Peer, Turn(p) \/ Poll(p) \/ Close(p) \/ Join(p) \/ Dead(p) \/ Deny(p)
      PROVE  Heard'
  BY <1>6 DEF Turn, Poll, Close, Join, Dead, Deny
<1>7. ASSUME NEW p \in Peer, Cut(p) \/ Dropped(p) \/ Data(p)
      PROVE  Heard'
  BY <1>7 DEF Cut, Dropped, Data
<1>8. ASSUME NEW p \in Peer, WriteCut(p) \/ WriteFails(p) \/ Waited(p) \/ RewriteFails(p)
                             \/ Cooled(p) \/ FileGone(p) \/ WriteRefused(p)
      PROVE  Heard'
  BY <1>8 DEF WriteCut, WriteFails, Waited, RewriteFails, Cooled, FileGone, WriteRefused
<1>9. ASSUME NEW p \in Peer, Slept(p) \/ AllocationFails(p) \/ Rebuild(p) \/ RecoveryCut(p)
      PROVE  Heard'
  BY <1>9 DEF Slept, AllocationFails, Rebuild, RecoveryCut
<1>10. ASSUME NEW p \in Peer, Allocate(p) \/ Verify(p)
      PROVE  Heard'
  BY <1>10 DEF Allocate, Verify
<1>11. ASSUME NEW how \in Stops, Stop(how)
      PROVE  Heard'
  BY <1>11 DEF Stop
<1>12. ASSUME NEW f \in File, Delete(f)
      PROVE  Heard'
  BY <1>12 DEF Delete
<1>13. CASE Enable
  BY <1>13 DEF Enable
<1>14. CASE UNCHANGED vars
  BY <1>14 DEF vars
<1>. QED BY <1>1, <1>2, <1>3, <1>4, <1>5, <1>6, <1>7, <1>8, <1>9, <1>10, <1>11, <1>12, <1>13,
   <1>14 DEF Next, Loop, Request, Writes, Recovery, Done

-----------------------------------------------------------------------------
(* The theorems *)

\* What holds of every run.
Always == Base /\ Heard

\* It holds whatever the answers, the faults and the user do.
LEMMA AlwaysHolds == Spec => []Always
<1>1. ASSUME Init
      PROVE  Always
  <2>. USE <1>1 DEF Init
  <2>1. Kinds
    <3>1. StoreKinds
      BY DEF StoreKinds
    <3>2. RunKinds
      <4>1. paused \in BOOLEAN
        BY Zenon
      <4>. QED BY <4>1, LimitAssumption DEF RunKinds
    <3>3. LoopKinds
      BY DEF LoopKinds, Idle, Claiming
    <3>4. NewsKinds
      BY DEF NewsKinds
    <3>. QED BY <3>1, <3>2, <3>3, <3>4 DEF Kinds
  <2>2. Holding
    BY SlotAssumption DEF Holding, Writing, Claiming
  <2>3. OneRestores
    BY PeerAssumption DEF OneRestores, Restoring
  <2>4. PeersCounted
    BY LimitAssumption DEF PeersCounted
  <2>5. RunCounted
    <3>1. Gone = {}
      BY DEF Gone
    <3>. QED BY <3>1, FS_EmptySet, LimitAssumption DEF RunCounted
  <2>6. Heard
    BY DEF Heard
  <2>. QED BY <2>1, <2>2, <2>3, <2>4, <2>5, <2>6 DEF Always, Base
<1>2. ASSUME Always, [Next]_vars
      PROVE  Always'
  <2>1. Kinds'
    BY <1>2, StoreKindsStay, RunKindsStay, LoopKindsStay, NewsKindsStay DEF Always, Base, Kinds
  <2>. QED BY <1>2, <2>1, HoldingStays, OneRestoresStays, PeersCountedStay, RunCountedStays, HeardStays
           DEF Always, Base
<1>. QED BY <1>1, <1>2, PTL DEF Spec

\* Every variable of a run keeps its type and every count its limit: no peer is tolerated
\* longer than it may be, and no more attempts are made than one over the limit by every
\* loop that went home for it (chunk-downloader.ts peerLoop).
THEOREM TypeCorrect == Spec => []TypeOK
<1>1. ASSUME Base
      PROVE  TypeOK
  <2>1. /\ Cardinality(Gone) \in Nat /\ Cardinality(Peer) \in Nat
        /\ Cardinality(Gone) <= Cardinality(Peer)
    BY PeerAssumption, FS_Subset, FS_CardinalityType DEF Gone
  <2>2. /\ attempts \in 0..(MaxRealloc + Cardinality(Peer))
        /\ retries \in 0..(MaxRetries + Cardinality(Peer))
    BY <1>1, <2>1, LimitAssumption DEF Base, Kinds, RunKinds, RunCounted
  <2>3. /\ skips \in [Peer -> 0..MaxSkips]
        /\ corrupt \in [Peer -> 0..MaxCorrupt]
    BY <1>1, LimitAssumption DEF Base, Kinds, LoopKinds, PeersCounted
  <2>. QED BY <1>1, <2>2, <2>3, Zenon
           DEF TypeOK, Base, Kinds, StoreKinds, RunKinds, LoopKinds, NewsKinds
<1>. QED BY <1>1, AlwaysHolds, PTL DEF Always

\* Only a loop that found nothing goes home for want of work.
LEMMA OnlyNothing ==
  ASSUME Kinds, NEW p \in Peer,
         \/ pc[p] # "leaving" /\ pc'[p] = "leaving"
         \/ Looking(p) /\ stop = "no" /\ pc'[p] \in {"gone", "leaving"},
         [Next]_vars
  PROVE  Nothing(p)
<1>. USE DEF Kinds, LoopKinds, Looking, Asked, Onward, Writing, Go, Requeue, Break, Fail
<1>1. ASSUME NEW q \in Peer, Write(q)
      PROVE  Nothing(p)
  BY <1>1 DEF Write
<1>2. ASSUME NEW q \in Peer, Gain(q) \/ Have(q)
      PROVE  Nothing(p)
  BY <1>2 DEF Gain, Have
<1>3. ASSUME NEW q \in Peer, Turn(q) \/ Poll(q) \/ Close(q) \/ Join(q) \/ Dead(q) \/ Deny(q)
                             \/ Take(q) \/ Nothing(q)
      PROVE  Nothing(p)
  BY <1>3 DEF Turn, Poll, Close, Join, Dead, Deny, Take, Nothing
<1>4. ASSUME NEW q \in Peer, Cut(q) \/ Dropped(q) \/ Absent(q) \/ Busy(q) \/ Garbage(q) \/ Data(q)
      PROVE  Nothing(p)
  BY <1>4 DEF Cut, Dropped, Absent, Busy, Garbage, Data
<1>5. ASSUME NEW q \in Peer, WriteCut(q) \/ WriteFails(q) \/ Waited(q) \/ RewriteFails(q)
                             \/ Cooled(q) \/ FileGone(q) \/ WriteRefused(q)
      PROVE  Nothing(p)
  BY <1>5 DEF WriteCut, WriteFails, Waited, RewriteFails, Cooled, FileGone, WriteRefused
<1>6. ASSUME NEW q \in Peer, Slept(q) \/ AllocationFails(q) \/ Rebuild(q) \/ RecoveryCut(q)
      PROVE  Nothing(p)
  BY <1>6 DEF Slept, AllocationFails, Rebuild, RecoveryCut
<1>7. ASSUME NEW q \in Peer, Allocate(q) \/ Verify(q)
      PROVE  Nothing(p)
  BY <1>7 DEF Allocate, Verify
<1>8. ASSUME NEW how \in Stops, Stop(how)
      PROVE  Nothing(p)
  BY <1>8 DEF Stop
<1>9. ASSUME NEW f \in File, Delete(f)
      PROVE  Nothing(p)
  BY <1>9 DEF Delete
<1>10. CASE Enable
  BY <1>10 DEF Enable
<1>11. CASE UNCHANGED vars
  BY <1>11 DEF vars
<1>. QED BY <1>1, <1>2, <1>3, <1>4, <1>5, <1>6, <1>7, <1>8, <1>9, <1>10, <1>11 DEF Next, Loop,
   Request, Writes, Recovery, Done

\* A peer is never dropped for having none of the missing chunks when its last HAVE
\* names one of them (chunk-downloader.ts applyHaveUpdate), whatever happens in a run.
THEOREM HaveHeard == Spec => HaveIsHeard
<1>1. ASSUME Always, [Next]_vars, NEW p \in Peer, pc[p] # "leaving", pc'[p] = "leaving",
             NEW s \in Slot, queue'[s] > 0
      PROVE  SumOf[s] \notin news[p].chunks
  <2>1. Nothing(p)
    BY <1>1, OnlyNothing DEF Always, Base
  <2>2. Servable(p) = {} /\ queue[s] > 0 /\ ~Downloaded(s)
    BY <1>1, <2>1 DEF Nothing
  <2>3. SumOf[s] \in KnownMisses(p)
    BY <2>2 DEF Servable
  <2>. QED BY <1>1, <2>3 DEF KnownMisses, Always, Heard, Base, Kinds, NewsKinds
<1>2. Always /\ [Next]_vars =>
        [\A p \in Peer : pc[p] # "leaving" /\ pc'[p] = "leaving" =>
           \A s \in Slot : queue'[s] > 0 => SumOf[s] \notin news[p].chunks]_vars
  BY <1>1
<1>. QED BY <1>2, AlwaysHolds, PTL DEF Spec, HaveIsHeard

-----------------------------------------------------------------------------
\* What the flags and the queue are worth when nobody deletes files, or when each
\* chunk has a content of its own.
Sound ==
  /\ Always /\ Together /\ Queued
  /\ MaxDeletions = 0 => Untouched
  /\ OwnContents /\ NoneHalfway => Doubted /\ Listed

\* What is missing is in the queue or in the hands of a loop.
LEMMA Accounted ==
  ASSUME Sound
  PROVE  NoChunkLost
BY DEF Sound, Queued, NoChunkLost, Same

\* It is what a fresh download starts with, and no step of a run takes it away.
LEMMA SoundHolds ==
  ASSUME MaxDeletions = 0 \/ OwnContents
  PROVE  Spec => []Sound
<1>1. ASSUME Init
      PROVE  Together /\ Queued /\ (MaxDeletions = 0 => Untouched) /\ Doubted /\ Listed
  <2>1. Together /\ Queued
    BY <1>1 DEF Init, Together, Queued
  <2>2. Untouched
    BY <1>1 DEF Init, Untouched, Writing
  <2>3. Doubted /\ Listed
    BY <1>1 DEF Init, Doubted, Listed
  <2>. QED BY <2>1, <2>2, <2>3
<1>2. ASSUME Always, Always', Sound, [Next]_vars
      PROVE  Sound'
  <2>1. Kinds /\ Holding /\ OneRestores
    BY <1>2 DEF Always, Base
  <2>2. Together'
    <3>1. CASE OwnContents
      BY <3>1 DEF OwnContents, Together
    <3>2. CASE MaxDeletions = 0
      BY <1>2, <2>1, <3>2, TogetherStays DEF Sound, Untouched
    <3>. QED BY <3>1, <3>2
  <2>3. Queued'
    BY <1>2, <2>1, QueuedStays DEF Sound
  <2>4. MaxDeletions = 0 => Untouched'
    BY <1>2, <2>1, UntouchedStays DEF Sound
  <2>5. OwnContents /\ NoneHalfway => Doubted' /\ Listed'
    BY <1>2, <2>1, DoubtedStays, ListedStays DEF Sound
  <2>. QED BY <1>2, <2>2, <2>3, <2>4, <2>5 DEF Sound, OwnContents, NoneHalfway
<1>3. Init /\ Always => Sound
  BY <1>1 DEF Sound
<1>. QED BY <1>2, <1>3, AlwaysHolds, PTL DEF Spec

\* Nobody deletes, and nothing is lost: while a run is on, every chunk that is not flagged
\* is in the queue or in the hands of a loop, and every flagged chunk is on the disk, for
\* shared contents too (chunk-downloader.ts, the queue and the writes).
THEOREM ChunksSafe ==
  ASSUME MaxDeletions = 0
  PROVE  Spec => []ChunksHold
<1>1. ASSUME Sound
      PROVE  NoChunkLost /\ HaveIsOnDisk
  BY <1>1, Accounted DEF Sound, Untouched, HaveIsOnDisk
<1>. QED BY <1>1, TypeCorrect, SoundHolds, PTL DEF ChunksHold

\* The same when the user deletes files during the run and they are restored, as long as
\* the run is not destroyed, each chunk has its own content, and no allocation is refused
\* after another of the same recovery (chunk-downloader.ts, the recovery in peerLoop).
THEOREM RecoverySafe ==
  ASSUME MaxDeletions = 0 \/ (OwnContents /\ NoneHalfway)
  PROVE  Spec => []RecoveryHolds
<1>1. ASSUME Sound
      PROVE  NoChunkLost /\ (stop # "destroyed" => HaveIsOnDisk)
  <2>1. CASE MaxDeletions = 0
    BY <1>1, <2>1, Accounted DEF Sound, Untouched, HaveIsOnDisk
  <2>2. CASE OwnContents /\ NoneHalfway
    <3>1. recovering = NoPeer => \A p \in Peer : pc[p] \notin {"alloc", "verify"}
      BY <1>1, PeerAssumption DEF Sound, Always, Base, OneRestores, Restoring
    <3>2. stop # "destroyed" => HaveIsOnDisk
      BY <1>1, <2>2, <3>1 DEF Sound, Doubted, HaveIsOnDisk
    <3>. QED BY <1>1, <3>2, Accounted
  <2>. QED BY <2>1, <2>2
<1>. QED BY <1>1, TypeCorrect, SoundHolds, PTL DEF RecoveryHolds

\* A loop goes home only when what is missing is what its peer does not have, by its last
\* answers and its last HAVE (chunk-downloader.ts peerLoop).
THEOREM LeavesRight ==
  ASSUME MaxDeletions = 0 \/ OwnContents
  PROVE  Spec => LeavingIsRight
<1>1. ASSUME Sound, [Next]_vars, NEW p \in Peer,
             Looking(p), stop = "no", enables = 0, pc'[p] \in {"gone", "leaving"},
             NEW s \in Slot \ have
      PROVE  SumOf[s] \in notFound'[p]
  <2>. USE DEF Sound, Always, Base
  <2>1. Nothing(p)
    BY <1>1, OnlyNothing
  <2>2. InFlight = {} /\ Servable(p) = {} /\ notFound'[p] = KnownMisses(p)
    BY <1>1, <2>1 DEF Nothing, Look, Go, Kinds, LoopKinds, NewsKinds
  <2>3. \A q \in Peer : pc[q] \notin Claiming
    BY <2>2 DEF InFlight
  <2>4. recovering = NoPeer /\ \A q \in Peer : held[q] = NoSlot
    BY <1>1, <2>3 DEF Holding, OneRestores, Restoring, Claiming, Kinds, RunKinds
  <2>5. queue[s] > 0 /\ ~Downloaded(s)
    BY <1>1, <2>4, SlotAssumption, OneContent DEF Queued
  <2>. QED BY <2>2, <2>5 DEF Servable
<1>2. Sound /\ [Next]_vars =>
        [\A p \in Peer :
           (Looking(p) /\ stop = "no" /\ enables = 0 /\ pc'[p] \in {"gone", "leaving"}) =>
             \A s \in Slot \ have : SumOf[s] \in notFound'[p]]_vars
  BY <1>1
<1>3. Spec => LeavesForAReason
  BY <1>2, SoundHolds, PTL DEF Spec, LeavesForAReason
<1>. QED BY <1>3, HaveHeard, PTL DEF LeavingIsRight

=============================================================================
