----------------------------- MODULE UploadServer ----------------------------
(***************************************************************************)
(* handleLISHProtocol of lish-protocol.ts: each stream of a peer has a     *)
(* handler that answers one request after the other.  The handlers share   *)
(* the sets of LISHs that may be served, the counts of the streams served, *)
(* the figures shown to the user, the list of uploading peers and the      *)
(* speed limiter; a stop of the node aborts them and waits for them.       *)
(***************************************************************************)
EXTENDS SpeedLimiter

CONSTANTS Wanted,        \* the LISHs peers ask for
          PeerOf,        \* the peer at the end of each stream
          Cap,           \* maxUploadPeersPerLISH; 0 is no cap
          MaxRequests,   \* bound: requests over all streams, and changes of what they depend on
          IoThreshold    \* I/O errors in a row that end the sharing

ASSUME UploadAssumption == Cap \in Nat /\ MaxRequests \in Nat /\ IoThreshold \in Nat \ {0}

Streams == Clients

VARIABLES
  handler,      \* per stream: the request at work, what it served, I/O errors, aborted
  shared,       \* uploadEnabled
  unavailable,  \* LISHs that are busy
  streamCount,  \* activeStreamCount
  info,         \* activeUploads: its number of peers, 0 without an entry
  listed,       \* peer-tracker: <<LISH, peer>> with an upload entry
  serving,      \* "open", "draining", "cleared"
  requests

uploadVars == <<handler, shared, unavailable, streamCount, info, listed, serving, requests, limiter>>

NoHandler == [at |-> "off", lish |-> CHOOSE l \in Wanted : TRUE, served |-> {}, errors |-> [l \in Wanted |-> 0], aborted |-> FALSE]

UploadInit ==
  /\ handler = [s \in Streams |-> NoHandler] /\ shared = Wanted /\ unavailable = {}
  /\ streamCount = [l \in Wanted |-> 0] /\ info = [l \in Wanted |-> 0] /\ listed = {} /\ serving = "open" /\ requests = 0
  /\ limiter \in {NewLimiter, [NewLimiter EXCEPT !.limited = TRUE]}

Event == requests < MaxRequests /\ requests' = requests + 1
At(s, at) == handler' = [handler EXCEPT ![s].at = at]
Quiet == UNCHANGED <<shared, unavailable, serving>>
Counters == <<streamCount, info, listed>>

\* A stream is admitted only while the node is up.
StreamOpens(s) ==
  /\ handler[s].at = "off" /\ serving = "open"
  /\ At(s, "wait") /\ Quiet /\ UNCHANGED <<Counters, limiter, requests>>

\* getChunk up to the disk: who may not be served is answered at once.
ChunkWanted(s, l) ==
  /\ handler[s].at = "wait" /\ ~handler[s].aborted /\ Event
  /\ Quiet /\ UNCHANGED <<Counters, limiter>>
  /\ IF \/ l \notin shared \/ l \in unavailable
        \/ l \notin handler[s].served /\ Cap > 0 /\ streamCount[l] >= Cap
     THEN UNCHANGED handler
     ELSE handler' = [handler EXCEPT ![s].at = "read", ![s].lish = l]

\* The chunk was read: the stream counts once, and waits for the limiter when it was sent.
ChunkServed(s) ==
  LET l == handler[s].lish IN
  /\ handler[s].at = "read" /\ ~handler[s].aborted /\ Quiet /\ UNCHANGED <<info, requests>>
  /\ \E at \in {"pace", "ending"} :
       /\ handler' = [handler EXCEPT ![s].at = at, ![s].served = @ \cup {l}, ![s].errors[l] = 0]
       /\ IF at = "pace" THEN Throttles(s) ELSE UNCHANGED limiter
  /\ streamCount' = IF l \in handler[s].served THEN streamCount ELSE [streamCount EXCEPT ![l] = @ + 1]
  /\ listed' = listed \cup {<<l, PeerOf[s]>>}

\* It was not: no such chunk or file; or an I/O error, the last of a row ends the sharing.
ChunkRefused(s) ==
  /\ handler[s].at = "read" /\ ~handler[s].aborted
  /\ At(s, "wait") /\ Quiet /\ UNCHANGED <<Counters, limiter, requests>>
ChunkErrs(s) ==
  LET l == handler[s].lish IN
  /\ handler[s].at = "read" /\ ~handler[s].aborted
  /\ handler' = [handler EXCEPT ![s].at = "wait", ![s].errors[l] = IF @ < IoThreshold THEN @ + 1 ELSE @]
  /\ shared' = IF handler[s].errors[l] + 1 >= IoThreshold THEN shared \ {l} ELSE shared
  /\ UNCHANGED <<unavailable, serving, Counters, limiter, requests>>

\* The limiter lets it go on; the figures are those of this moment.
Paced(s) ==
  LET l == handler[s].lish IN
  /\ handler[s].at = "pace" /\ s \in limiter.released
  /\ limiter' = [limiter EXCEPT !.released = @ \ {s}]
  /\ IF handler[s].aborted THEN At(s, "ending") /\ UNCHANGED info
     ELSE At(s, "wait") /\ info' = [info EXCEPT ![l] = IF streamCount[l] = 0 THEN 1 ELSE streamCount[l]]
  /\ Quiet /\ UNCHANGED <<streamCount, listed, requests>>

\* The peer closes, the stream breaks, or the read of a request or of the disk is given up
\* because of an abort.
StreamEnds(s) ==
  /\ \/ handler[s].at = "wait"
     \/ handler[s].at = "read" /\ handler[s].aborted
  /\ At(s, "ending") /\ Quiet /\ UNCHANGED <<Counters, limiter, requests>>

\* Mutant: the figures of a LISH stay as long as it is shared.
KeepsFigures(s) ==
  /\ handler[s].at = "ending"
  /\ handler' = [handler EXCEPT ![s] = NoHandler]
  /\ listed' = listed \ {<<l, PeerOf[s]>> : l \in handler[s].served}
  /\ streamCount' = [l \in Wanted |-> IF l \notin handler[s].served \/ streamCount[l] = 0 THEN streamCount[l] ELSE streamCount[l] - 1]
  /\ info' = [l \in Wanted |-> IF l \notin handler[s].served THEN info[l]
                               ELSE IF streamCount[l] <= 1 THEN (IF l \in shared THEN info[l] ELSE 0)
                               ELSE IF info[l] = 0 THEN 0 ELSE streamCount[l] - 1]
  /\ Quiet /\ UNCHANGED <<limiter, requests>>

\* The end of the handler: what it served is counted off.
StreamCleans(s) ==
  /\ handler[s].at = "ending"
  /\ handler' = [handler EXCEPT ![s] = NoHandler]
  /\ listed' = listed \ {<<l, PeerOf[s]>> : l \in handler[s].served}
  /\ streamCount' = [l \in Wanted |-> IF l \notin handler[s].served \/ streamCount[l] = 0 THEN streamCount[l] ELSE streamCount[l] - 1]
  /\ info' = [l \in Wanted |-> IF l \notin handler[s].served THEN info[l]
                               ELSE IF streamCount[l] <= 1 THEN 0
                               ELSE IF info[l] = 0 THEN 0 ELSE streamCount[l] - 1]
  /\ Quiet /\ UNCHANGED <<limiter, requests>>

-----------------------------------------------------------------------------
(* What comes from elsewhere.                                              *)

EnableSharing(l) == l \notin shared /\ shared' = shared \cup {l} /\ Event /\ UNCHANGED <<handler, unavailable, serving, Counters, limiter>>
DisableSharing(l) == l \in shared /\ shared' = shared \ {l} /\ Event /\ UNCHANGED <<handler, unavailable, serving, Counters, limiter>>
ChangeBusy(l) ==
  /\ unavailable' = IF l \in unavailable THEN unavailable \ {l} ELSE unavailable \cup {l}
  /\ Event /\ UNCHANGED <<handler, shared, serving, Counters, limiter>>

LimitChanges == /\ \E limited \in BOOLEAN : limited # limiter.limited /\ SetLimit(limited)
                /\ Event /\ Quiet /\ UNCHANGED <<handler, Counters>>
SlotComes == TimerFires /\ Quiet /\ UNCHANGED <<handler, Counters, requests>>

\* The tracker drops entries that were idle for a minute; the next chunk lists the peer again.
Pruned == /\ \E e \in listed : listed' = listed \ {e}
          /\ Event /\ Quiet /\ UNCHANGED <<handler, streamCount, info, limiter>>

\* Mutant: who waits for its turn is not told.
StopsReaders ==
  /\ serving = "open" /\ serving' = "draining"
  /\ handler' = [s \in Streams |-> [handler[s] EXCEPT !.aborted = handler[s].at \in {"wait", "read"}]]
  /\ UNCHANGED <<shared, unavailable, Counters, limiter, requests>>

\* abortAndDrainLISHProtocolHandlers: all are told at once, and the line is empty.
StopServing ==
  /\ serving = "open" /\ serving' = "draining"
  /\ handler' = [s \in Streams |-> [handler[s] EXCEPT !.aborted = handler[s].at # "off"]]
  /\ limiter' = Untimed([limiter EXCEPT !.pending = <<>>, !.released = @ \cup Range(limiter.pending)])
  /\ UNCHANGED <<shared, unavailable, Counters, requests>>

\* ... and clearAllUploads, once none is left; then the node may start again.
ServingStopped ==
  /\ serving = "draining" /\ \A s \in Streams : handler[s].at = "off"
  /\ serving' = "cleared" /\ shared' = {}
  /\ streamCount' = [l \in Wanted |-> 0] /\ info' = [l \in Wanted |-> 0]
  /\ Resets /\ UNCHANGED <<handler, unavailable, listed, requests>>
ServingStarts ==
  /\ serving = "cleared" /\ serving' = "open" /\ shared' = Wanted
  /\ UNCHANGED <<handler, unavailable, Counters, limiter, requests>>

HandlerStep == \E s \in Streams : ChunkServed(s) \/ ChunkRefused(s) \/ ChunkErrs(s) \/ Paced(s) \/ StreamCleans(s)
UploadNext ==
  \/ HandlerStep
  \/ \E s \in Streams : StreamOpens(s) \/ StreamEnds(s) \/ \E l \in Wanted : ChunkWanted(s, l)
  \/ \E l \in Wanted : EnableSharing(l) \/ DisableSharing(l) \/ ChangeBusy(l)
  \/ LimitChanges \/ SlotComes \/ Pruned \/ StopServing \/ ServingStopped \/ ServingStarts

\* Reads come back, timers fire, and an aborted handler runs to its end.
UploadFairness ==
  /\ WF_uploadVars(HandlerStep) /\ WF_uploadVars(SlotComes)
  /\ WF_uploadVars(\E s \in Streams : handler[s].aborted /\ StreamEnds(s))
  /\ WF_uploadVars(ServingStopped) /\ WF_uploadVars(ServingStarts)

-----------------------------------------------------------------------------
ServedBy(l) == {s \in Streams : l \in handler[s].served}

\* The count that the cap is compared with is the number of streams the LISH is served on; the
\* figures shown to the user go with the last of them, and a peer is listed as a taker only
\* while a stream of its takes.
CountIsServed ==
  /\ \A l \in Wanted : /\ streamCount[l] = Cardinality(ServedBy(l))
                       /\ info[l] # 0 => ServedBy(l) # {}
  /\ \A e \in listed : \E s \in ServedBy(e[1]) : PeerOf[s] = e[2]

\* A stop of the node ends: no handler that waits for a disk, a request or its turn is missed.
ServingEnds == serving = "draining" ~> serving # "draining"

\* No more streams are served than the cap says.  It does not hold: the cap is looked at before
\* the chunk is read and the stream counted after it.
CapHeld == Cap > 0 => \A l \in Wanted : streamCount[l] <= Cap

\* Who takes is listed.  It does not hold: the first of a peer's streams to end unlists it.
ServedIsListed == \A l \in Wanted : \A s \in ServedBy(l) : <<l, PeerOf[s]>> \in listed
=============================================================================
