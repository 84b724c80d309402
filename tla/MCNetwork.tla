------------------------------ MODULE MCNetwork ------------------------------
(***************************************************************************)
(* What the node does for and with its peers, beside the downloads: it     *)
(* serves chunks, exchanges requests over streams, keeps what is shown of  *)
(* the peers, searches, shows the statuses of bootstrap addresses,         *)
(* announces its peers and keeps up its connections.  The parts share no   *)
(* state: each moves by its own steps, and for TLC mode says which of them *)
(* moves.                                                                  *)
(***************************************************************************)
EXTENDS UploadServer, Exchange, PeerTracker, Search, BootstrapStatus, PeerAnnounce, PeerUpkeep, TLC

UploadSpec == UploadInit /\ [][UploadNext]_uploadVars
\* The limiter by itself serves the downloads: its callers may give up and return their slot.
LimiterSpec == LimiterInit /\ [][LimiterNext]_limiter
ExchangeSpec == ExchangeInit /\ [][ExchangeNext]_exchangeVars
TrackerSpec == TrackerInit /\ [][TrackerNext]_trackerVars
SearchSpec == SearchInit /\ [][SearchNext]_searchVars
StatusSpec == StatusInit /\ [][StatusNext]_statusVars
AnnounceSpec == AnnounceInit /\ [][AnnounceNext]_announceVars
UpkeepSpec == UpkeepInit /\ [][UpkeepNext]_upkeepVars

-----------------------------------------------------------------------------
\* What is counted and timed for the uploads is what is served: the limiter's
\* line has its timer, the counts have their streams, and the totals of a peer
\* only grow (speed-limiter.ts, lish-protocol.ts, peer-tracker.ts).
ServingHolds == LineIsTimed /\ CountIsServed /\ PeerTotalsGoOn

\* An answer belongs to its question: on a stream after a timeout, and in a
\* search that asks every peer once (lish-protocol.ts, search.ts).
AnswersBelong == AnswerIsOwn /\ AskedOnce

\* The statuses of bootstrap addresses shown are those of the runs and of the
\* configured addresses (bootstrap-status.ts).
StatusHolds == ShownIsVisible /\ ConfiguredIsShown

\* The background work of the node is there once: one chain of announcements,
\* one tick, and nothing kept of a connected peer is deleted
\* (peer-announce.ts, network.ts).
UpkeepHolds == OneChain /\ KeptWhileConnected /\ OneTick

\* A stop of the node finds every handler gone in the end, and a search that
\* has ended reports nothing more (lish-protocol.ts, search.ts).
EndingHolds == ServingEnds /\ EndIsEnd

-----------------------------------------------------------------------------
(* The instance: each part by itself. *)

CONSTANTS s1, s2, s3

VARIABLE mode

mcPeerOf == s1 :> "p" @@ s2 :> "p" @@ s3 :> "q"

allVars == <<uploadVars, exchangeVars, trackerVars, searchVars, statusVars, announceVars, upkeepVars, mode>>
Sameness ==
  /\ mode \notin {"upload", "limiter"} => UNCHANGED uploadVars
  /\ mode # "exchange" => UNCHANGED exchangeVars
  /\ mode # "tracker" => UNCHANGED trackerVars
  /\ mode # "search" => UNCHANGED searchVars
  /\ mode # "status" => UNCHANGED statusVars
  /\ mode # "announce" => UNCHANGED announceVars
  /\ mode # "upkeep" => UNCHANGED upkeepVars

mcInit ==
  /\ mode \in {"upload", "limiter", "exchange", "tracker", "search", "status", "announce", "upkeep"}
  /\ UploadInit /\ ExchangeInit /\ TrackerInit /\ SearchInit
  /\ StatusInit /\ AnnounceInit /\ UpkeepInit
  /\ mode \notin {"upload", "limiter"} => limiter = NewLimiter
  /\ mode # "search" => linked = {}
mcNext ==
  /\ UNCHANGED mode /\ Sameness
  /\ \/ mode = "upload" /\ UploadNext
     \/ mode = "limiter" /\ LimiterNext /\ UNCHANGED <<handler, shared, unavailable, streamCount, info, listed, serving, requests>>
     \/ mode = "exchange" /\ ExchangeNext
     \/ mode = "tracker" /\ TrackerNext
     \/ mode = "search" /\ SearchNext
     \/ mode = "status" /\ StatusNext
     \/ mode = "announce" /\ AnnounceNext
     \/ mode = "upkeep" /\ UpkeepNext
mcSpec == mcInit /\ [][mcNext]_allVars /\ UploadFairness

=============================================================================
