-------------------------- MODULE DownloaderProofs --------------------------
(***************************************************************************)
(* Proofs about the phases of one download, for any finite sets of files   *)
(* and peers, any capacity, and any number of discovery cycles and         *)
(* announcements at once.                                                  *)
(***************************************************************************)
EXTENDS Downloader, MCStore, SequenceTheorems, FiniteSetTheorems, WellFoundedInduction, TLAPS

\* What the phase says of where the work is.  A download that waits for its manifest
\* has no list of chunks and gets no further than the access check; one that is finished
\* is left alone; one in error is paused.  download() works only while work is done.
Phases ==
  /\ needsManifest =>
       /\ missing = {} /\ state \notin {"downloading", "downloaded"}
       /\ work \in {"idle", "entered", "asking", "access"}
  /\ state = "downloaded" => work \in {"idle", "entered"}
  /\ state = "error" => disabled
  /\ call = "working" => work # "idle"
  /\ destroyed = (destroying # "no")
  /\ destroyed => call # "waiting"

\* What destroy() takes down at once nobody puts up again, and what it waits for is over
\* when it returns.
Quiet ==
  /\ destroyed => ~retry /\ ~discovery /\ handlers = {} /\ peers = {}
  /\ destroying = "done" => ~Tracked

\* The chain of discovery cycles: each ends by scheduling the next.
Chain == discovery \/ shout \/ \E s \in Seeker : seek[s].at # "idle"

\* Where work on a download that has come to phase 3 ends only with the retry timer, in an
\* exception, or finished.
Fetching == {"entered", "checking", "refilling", "calling", "waiting", "running",
             "confirming", "restoring"}

\* What keeps a download awake that may work: the chain while it waits for a manifest, or
\* while work of an earlier phase has been overtaken; else the chain, the retry timer or
\* the work itself.
Awake ==
  ~disabled /\ ~destroyed =>
    /\ state = "awaiting-manifest" => Chain \/ call = "calling"
    /\ needsManifest /\ (state = "preparing" \/ work = "access") => Chain
    /\ state = "downloading" /\ work \in {"asking", "access", "finding", "allocating"} => Chain
    /\ state = "downloading" /\ ~failed /\ call \in {"calling", "working", "waiting"} =>
         Chain \/ retry \/ work \in Fetching

\* An empty list of missing chunks means that all are flagged, but for a refill cut short;
\* the engine runs only over a list that is not empty.
Whole ==
  /\ ~needsManifest /\ missing = {} => have = File \/ unread
  /\ work \in {"checking", "refilling"} => missing = {}
  /\ work \in {"calling", "waiting", "running", "confirming", "restoring"} => missing # {}
  /\ work = "confirming" => have = File
  /\ state = "downloaded" => have = File \/ unread
  /\ state = "downloaded" \/ ~destroyed => \A f \in have : disk[f] = "zero" => f \in stale

-----------------------------------------------------------------------------
(* Types *)

\* A count of peers lies between none and all.
LEMMA PeerCount == \A P \in SUBSET Peer : Cardinality(P) \in 0..Cardinality(Peer)
BY SetAssumption, FS_Subset, FS_CardinalityType

\* The places of the work, of download() and of the phases are told apart by their names.
LEMMA WorkNames ==
  /\ "idle" \in At /\ "entered" \in At /\ "asking" \in At /\ "access" \in At /\ "finding" \in At
  /\ "allocating" \in At /\ "checking" \in At /\ "refilling" \in At /\ "calling" \in At
  /\ "waiting" \in At /\ "running" \in At /\ "confirming" \in At /\ "restoring" \in At
BY DEF At
LEMMA CallNames ==
  /\ "new" \in Call /\ "calling" \in Call /\ "working" \in Call /\ "waiting" \in Call
  /\ "resolved" \in Call /\ "failed" \in Call /\ "cancelled" \in Call
BY DEF Call
LEMMA StateNames ==
  /\ "initialized" \in State /\ "awaiting-manifest" \in State /\ "preparing" \in State
  /\ "downloading" \in State /\ "downloaded" \in State /\ "error" \in State
BY DEF State

\* A cycle is well formed at rest, when it begins, and in each of its steps.
LEMMA CyclesTyped ==
  /\ Resting \in Cycles
  /\ \A n \in 0..Cardinality(Peer) : [Resting EXCEPT !.at = "calling", !.before = n] \in Cycles
  /\ \A r \in Cycles :
       /\ \A T \in SUBSET Peer :
            /\ [r EXCEPT !.at = "probing", !.left = T] \in Cycles
            /\ [r EXCEPT !.at = "asking", !.left = T] \in Cycles
            /\ [r EXCEPT !.at = "probing", !.left = T, !.found = TRUE] \in Cycles
            /\ [r EXCEPT !.left = T] \in Cycles
       /\ [r EXCEPT !.at = "importing"] \in Cycles /\ [r EXCEPT !.at = "dialing"] \in Cycles
       /\ r.left \subseteq Peer
<1>1. 0 \in 0..Cardinality(Peer)
  BY SetAssumption, FS_CardinalityType
<1>. QED BY <1>1 DEF Cycles, Resting

\* Where the cycle of a step is put, the type of all of them is kept.
LEMMA NextPeerTyped ==
  ASSUME seek \in [Seeker -> Cycles], NEW s \in Seeker, NEW r \in Cycles, NextPeer(s, r)
  PROVE  seek' \in [Seeker -> Cycles]
BY DEF NextPeer

\* Every step keeps the types.
LEMMA TypeStep == TypeOK /\ [Next]_vars => TypeOK'
<1>. SUFFICES ASSUME TypeOK, [Next]_vars PROVE TypeOK'
  OBVIOUS
<1>. USE DEF dataVars, peerVars, timerVars, workVars, flagVars, actorVars, boundVars, TypeOK
<1>1. CASE Abandon
  BY <1>1, WorkNames, CallNames DEF Abandon, GiveUp, Return, Leave, AfterWork
<1>2. CASE Enter
  <2>1. locked' = (work' # "idle") /\ work' \in At /\ todo' \subseteq File
    BY <1>2, WorkNames DEF Enter, SeekPeers, Return, Leave, AfterWork, TypeOK
  <2>2. call' \in Call
    BY <1>2, CallNames DEF Enter, SeekPeers, Return, Leave, AfterWork, TypeOK
  <2>3. peers' \subseteq Peer /\ asked' \subseteq Peer /\ handlers' \subseteq {"have", "disconnect"}
    BY <1>2 DEF Enter, SeekPeers, Return, Leave, AfterWork, TypeOK
  <2>. QED BY <1>2, <2>1, <2>2, <2>3 DEF Enter, SeekPeers, Return, Leave, AfterWork, TypeOK
<1>3. CASE Answered
  <2>1. have' \subseteq File /\ missing' \subseteq File /\ stale' \subseteq File /\ unread' \in BOOLEAN
    BY <1>3 DEF Answered, Return, Import, WorkFails, Leave, AfterWork, TransitionTo, SetErrorApart,
       TypeOK
  <2>2. state' \in State
    BY <1>3, StateNames DEF Answered, Return, Import, WorkFails, Leave, AfterWork, TransitionTo,
       SetErrorApart, TypeOK
  <2>3. locked' = (work' # "idle") /\ work' \in At /\ todo' \subseteq File
    BY <1>3, WorkNames DEF Answered, Return, Import, WorkFails, Leave, AfterWork, TransitionTo,
       SetErrorApart, TypeOK
  <2>4. call' \in Call
    BY <1>3, CallNames DEF Answered, Return, Import, WorkFails, Leave, AfterWork, TransitionTo,
       SetErrorApart, TypeOK
  <2>5. peers' \subseteq Peer /\ asked' \subseteq Peer /\ handlers' \subseteq {"have", "disconnect"}
    BY <1>3 DEF Answered, Return, Import, WorkFails, Leave, AfterWork, TransitionTo, SetErrorApart,
       TypeOK
  <2>. QED BY <1>3, <2>1, <2>2, <2>3, <2>4, <2>5 DEF Answered, Return, Import, WorkFails, Leave, AfterWork,
       TransitionTo, SetErrorApart, TypeOK
<1>4. CASE Accessed
  BY <1>4, WorkNames, CallNames, StateNames DEF Accessed, TransitionTo, Return, WorkFails, Leave,
     AfterWork, SetErrorApart
<1>5. CASE Found
  <2>1. todo' \subseteq File
    BY <1>5 DEF Found, Absent, StartDownloading
  <2>2. locked' = (work' # "idle") /\ work' \in At
    BY <1>5, WorkNames DEF Found, StartDownloading, SeekPeers
  <2>3. state' \in State
    BY <1>5, StateNames DEF Found, StartDownloading, TransitionTo
  <2>. QED BY <1>5, <2>1, <2>2, <2>3 DEF Found, StartDownloading
<1>6. CASE Allocated
  <2>1. disk' \in [File -> {"absent", "zero", "data"}]
    BY <1>6 DEF Allocated, ZeroFilled, StartDownloading, Return, Reject, Filled, Absent, TransitionTo,
       SeekPeers, Leave, AfterWork, TypeOK
  <2>2. have' \subseteq File /\ missing' \subseteq File /\ stale' \subseteq File /\ unread' \in BOOLEAN
    BY <1>6 DEF Allocated, ZeroFilled, StartDownloading, Return, Reject, Filled, Absent, TransitionTo,
       SeekPeers, Leave, AfterWork, TypeOK
  <2>3. state' \in State
    BY <1>6, StateNames DEF Allocated, ZeroFilled, StartDownloading, Return, Reject, Filled, Absent,
       TransitionTo, SeekPeers, Leave, AfterWork, TypeOK
  <2>4. locked' = (work' # "idle") /\ work' \in At /\ todo' \subseteq File
    BY <1>6, WorkNames DEF Allocated, ZeroFilled, StartDownloading, Return, Reject, Filled, Absent,
       TransitionTo, SeekPeers, Leave, AfterWork, TypeOK
  <2>5. call' \in Call
    BY <1>6, CallNames DEF Allocated, ZeroFilled, StartDownloading, Return, Reject, Filled, Absent,
       TransitionTo, SeekPeers, Leave, AfterWork, TypeOK
  <2>6. peers' \subseteq Peer /\ asked' \subseteq Peer /\ handlers' \subseteq {"have", "disconnect"}
    BY <1>6 DEF Allocated, ZeroFilled, StartDownloading, Return, Reject, Filled, Absent, TransitionTo,
       SeekPeers, Leave, AfterWork, TypeOK
  <2>7. /\ enabling' \in BOOLEAN /\ shout' \in BOOLEAN /\ failed' \in BOOLEAN
       /\ destroying' \in {"no", "draining", "done"}
    BY <1>6 DEF Allocated, ZeroFilled, StartDownloading, Return, Reject, Filled, Absent, TransitionTo,
       SeekPeers, Leave, AfterWork, TypeOK
  <2>. QED BY <1>6, <2>1, <2>2, <2>3, <2>4, <2>5, <2>6, <2>7 DEF Allocated, ZeroFilled, StartDownloading, Return, Reject, Filled,
       Absent, TransitionTo, SeekPeers, Leave, AfterWork, TypeOK
<1>7. CASE Checked
  <2>1. state' \in State
    BY <1>7, StateNames DEF Checked, Absent, Finish, TransitionTo, Leave, TypeOK
  <2>2. locked' = (work' # "idle") /\ work' \in At /\ todo' \subseteq File
    BY <1>7, WorkNames DEF Checked, Absent, Finish, TransitionTo, Leave, TypeOK
  <2>3. call' \in Call
    BY <1>7, CallNames DEF Checked, Absent, Finish, TransitionTo, Leave, TypeOK
  <2>4. peers' \subseteq Peer /\ asked' \subseteq Peer /\ handlers' \subseteq {"have", "disconnect"}
    BY <1>7 DEF Checked, Absent, Finish, TransitionTo, Leave, TypeOK
  <2>. QED BY <1>7, <2>1, <2>2, <2>3, <2>4 DEF Checked, Absent, Finish, TransitionTo, Leave, TypeOK
<1>8. CASE Refilled
  <2>1. disk' \in [File -> {"absent", "zero", "data"}]
    BY <1>8 DEF Refilled, Filled, Return, Reject, Reset, SeekPeers, Exhaust, Absent, Leave, AfterWork,
       TypeOK
  <2>2. have' \subseteq File /\ missing' \subseteq File /\ stale' \subseteq File /\ unread' \in BOOLEAN
    BY <1>8 DEF Refilled, Filled, Return, Reject, Reset, SeekPeers, Exhaust, Absent, Leave, AfterWork,
       TypeOK
  <2>3. locked' = (work' # "idle") /\ work' \in At /\ todo' \subseteq File
    BY <1>8, WorkNames DEF Refilled, Filled, Return, Reject, Reset, SeekPeers, Exhaust, Absent, Leave,
       AfterWork, TypeOK
  <2>4. call' \in Call
    BY <1>8, CallNames DEF Refilled, Filled, Return, Reject, Reset, SeekPeers, Exhaust, Absent, Leave,
       AfterWork, TypeOK
  <2>5. peers' \subseteq Peer /\ asked' \subseteq Peer /\ handlers' \subseteq {"have", "disconnect"}
    BY <1>8 DEF Refilled, Filled, Return, Reject, Reset, SeekPeers, Exhaust, Absent, Leave, AfterWork,
       TypeOK
  <2>. QED BY <1>8, <2>1, <2>2, <2>3, <2>4, <2>5 DEF Refilled, Filled, Return, Reject, Reset, SeekPeers, Exhaust,
       Absent, Leave, AfterWork, TypeOK
<1>9. CASE Called
  BY <1>9, WorkNames DEF Called, ScheduleNext, ScheduleNextIn
<1>10. CASE Waited
  <2>1. locked' = (work' # "idle") /\ work' \in At /\ todo' \subseteq File
    BY <1>10, WorkNames DEF Waited, Exhaust, Return, Leave
  <2>2. call' \in Call
    BY <1>10, CallNames DEF Waited, Exhaust, Return, AfterWork
  <2>3. /\ asked' \subseteq Peer /\ handlers' \subseteq {"have", "disconnect"}
        /\ throttled' \in BOOLEAN /\ retry' \in BOOLEAN
    BY <1>10 DEF Waited, Exhaust, Return, Leave
  <2>. QED BY <1>10, <2>1, <2>2, <2>3 DEF Waited
<1>11. CASE RunReports
  BY <1>11, CallNames, StateNames DEF RunReports, SetErrorApart
<1>12. CASE RunEnds
  <2>1. disk' \in [File -> {"absent", "zero", "data"}]
    BY <1>12 DEF RunEnds, Absent, Transferred, Return, Exhaust, Leave, AfterWork, TypeOK
  <2>2. have' \subseteq File /\ missing' \subseteq File /\ stale' \subseteq File /\ unread' \in BOOLEAN
    BY <1>12 DEF RunEnds, Absent, Transferred, Return, Exhaust, Leave, AfterWork, TypeOK
  <2>3. locked' = (work' # "idle") /\ work' \in At /\ todo' \subseteq File
    BY <1>12, WorkNames DEF RunEnds, Absent, Transferred, Return, Exhaust, Leave, AfterWork, TypeOK
  <2>4. call' \in Call
    BY <1>12, CallNames DEF RunEnds, Absent, Transferred, Return, Exhaust, Leave, AfterWork, TypeOK
  <2>5. peers' \subseteq Peer /\ asked' \subseteq Peer /\ handlers' \subseteq {"have", "disconnect"}
    BY <1>12 DEF RunEnds, Absent, Transferred, Return, Exhaust, Leave, AfterWork, TypeOK
  <2>. QED BY <1>12, <2>1, <2>2, <2>3, <2>4, <2>5 DEF RunEnds, Absent, Transferred, Return, Exhaust, Leave, AfterWork,
       TypeOK
<1>13. CASE Download
  <2>1. state' \in State
    BY <1>13, StateNames DEF Download, TransitionTo, MayWork, DoWork, TypeOK
  <2>2. locked' = (work' # "idle") /\ work' \in At /\ todo' \subseteq File
    BY <1>13, WorkNames DEF Download, TransitionTo, MayWork, DoWork, TypeOK
  <2>3. call' \in Call
    BY <1>13, CallNames DEF Download, TransitionTo, MayWork, DoWork, TypeOK
  <2>4. peers' \subseteq Peer /\ asked' \subseteq Peer /\ handlers' \subseteq {"have", "disconnect"}
    BY <1>13 DEF Download, TransitionTo, MayWork, DoWork, TypeOK
  <2>. QED BY <1>13, <2>1, <2>2, <2>3, <2>4 DEF Download, TransitionTo, MayWork, DoWork, TypeOK
<1>14. CASE CallReturns
  BY <1>14, CallNames DEF CallReturns, ScheduleNext, AfterWork, ScheduleNextIn
<1>15. CASE Tick
  BY <1>15 DEF Tick
<1>16. CASE RetryFires
  BY <1>16, WorkNames DEF RetryFires, DoWork, MayWork
<1>17. ASSUME NEW s \in Seeker, DiscoveryFires(s) PROVE TypeOK'
  <2>1. seek' \in [Seeker -> Cycles]
    <3>1. [Resting EXCEPT !.at = "calling", !.before = Cardinality(peers)] \in Cycles
      BY CyclesTyped, PeerCount DEF TypeOK
    <3>. QED BY <1>17, <3>1 DEF DiscoveryFires, StartCycle, TypeOK
  <2>2. throttled' \in BOOLEAN /\ retry' \in BOOLEAN /\ discovery' \in BOOLEAN
    BY <1>17 DEF DiscoveryFires, StartCycle, TypeOK
  <2>. QED BY <1>17, <2>1, <2>2 DEF DiscoveryFires, StartCycle, TypeOK
<1>18. ASSUME NEW s \in Seeker, TriggerDiscovery(s) PROVE TypeOK'
  <2>1. seek' \in [Seeker -> Cycles]
    <3>1. [Resting EXCEPT !.at = "calling", !.before = Cardinality(peers)] \in Cycles
      BY CyclesTyped, PeerCount DEF TypeOK
    <3>. QED BY <1>18, <3>1 DEF TriggerDiscovery, StartCycle, TypeOK
  <2>2. throttled' \in BOOLEAN /\ retry' \in BOOLEAN /\ discovery' \in BOOLEAN
    BY <1>18 DEF TriggerDiscovery, StartCycle, TypeOK
  <2>3. deletes' \in 0..MaxDeletes /\ pauses' \in 0..MaxPauses
    BY <1>18, BoundAssumption DEF TriggerDiscovery, StartCycle, TypeOK
  <2>. QED BY <1>18, <2>1, <2>2, <2>3, BoundAssumption DEF TriggerDiscovery, StartCycle, TypeOK
<1>19. ASSUME NEW s \in Seeker, CycleAborts(s) PROVE TypeOK'
  <2>1. seek' \in [Seeker -> Cycles]
    BY <1>19, CyclesTyped DEF CycleAborts, Rest, TypeOK
  <2>. QED BY <1>19, <2>1 DEF CycleAborts, Rest, TypeOK
<1>20. ASSUME NEW s \in Seeker, CycleCalled(s) PROVE TypeOK'
  <2>1. seek' \in [Seeker -> Cycles]
    <3>1. PICK T \in SUBSET Peer : NextPeer(s, [seek[s] EXCEPT !.at = "probing", !.left = T])
      BY <1>20 DEF CycleCalled
    <3>. QED BY <3>1, CyclesTyped, NextPeerTyped DEF TypeOK
  <2>. QED BY <1>20, <2>1 DEF CycleCalled, ScheduleNext, NextPeer, ScheduleNextIn, TypeOK
<1>21. ASSUME NEW s \in Seeker, Probe(s) PROVE TypeOK'
  <2>1. seek' \in [Seeker -> Cycles]
    <3>1. seek[s] \in Cycles /\ seek[s].left \subseteq Peer
      BY CyclesTyped DEF TypeOK
    <3>2. ASSUME NEW p \in seek[s].left, NextPeer(s, [seek[s] EXCEPT !.left = @ \ {p}])
          PROVE  seek' \in [Seeker -> Cycles]
      <4>1. [seek[s] EXCEPT !.left = @ \ {p}] \in Cycles
        BY <3>1 DEF Cycles
      <4>. QED BY <3>2, <4>1, NextPeerTyped DEF TypeOK
    <3>3. ASSUME NEW p \in seek[s].left,
                 NextPeer(s, [seek[s] EXCEPT !.at = "asking", !.left = {p} \cup @])
          PROVE  seek' \in [Seeker -> Cycles]
      <4>1. [seek[s] EXCEPT !.at = "asking", !.left = {p} \cup @] \in Cycles
        BY <3>1 DEF Cycles
      <4>. QED BY <3>3, <4>1, NextPeerTyped DEF TypeOK
    <3>4. CASE seek' = Rest(s)
      BY <3>4, CyclesTyped DEF Rest, TypeOK
    <3>5. CASE seek[s].left = {} \/ Cardinality(peers) >= Cap
      BY <1>21, <3>4, <3>5 DEF Probe, EndCycle
    <3>6. CASE ~(seek[s].left = {} \/ Cardinality(peers) >= Cap)
      BY <1>21, <3>2, <3>3, <3>6 DEF Probe
    <3>. QED BY <3>5, <3>6
  <2>2. locked' = (work' # "idle") /\ work' \in At /\ todo' \subseteq File
    BY <1>21, WorkNames DEF Probe, EndCycle, NextPeer, Rest, ScheduleNext, DoWork, ScheduleNextIn,
       MayWork, TypeOK
  <2>. QED BY <1>21, <2>1, <2>2 DEF Probe, EndCycle, NextPeer, Rest, ScheduleNext, DoWork,
       ScheduleNextIn, MayWork, TypeOK
<1>22. ASSUME NEW s \in Seeker, ProbeAnswered(s) PROVE TypeOK'
  <2>1. seek' \in [Seeker -> Cycles]
    <3>1. seek[s] \in Cycles /\ seek[s].left \subseteq Peer
      BY CyclesTyped DEF TypeOK
    <3>2. ASSUME NEW p \in seek[s].left,
                 NextPeer(s, [seek[s] EXCEPT !.at = "probing", !.left = @ \ {p}])
          PROVE  seek' \in [Seeker -> Cycles]
      <4>1. [seek[s] EXCEPT !.at = "probing", !.left = @ \ {p}] \in Cycles
        BY <3>1 DEF Cycles
      <4>. QED BY <3>2, <4>1, NextPeerTyped DEF TypeOK
    <3>3. ASSUME NextPeer(s, [seek[s] EXCEPT !.at = IF needsManifest THEN "importing" ELSE "dialing"])
          PROVE  seek' \in [Seeker -> Cycles]
      <4>1. [seek[s] EXCEPT !.at = IF needsManifest THEN "importing" ELSE "dialing"] \in Cycles
        BY <3>1 DEF Cycles
      <4>. QED BY <3>3, <4>1, NextPeerTyped DEF TypeOK
    <3>4. CASE seek' = Rest(s)
      BY <3>4, CyclesTyped DEF Rest, TypeOK
    <3>. QED BY <1>22, <3>2, <3>3, <3>4 DEF ProbeAnswered
  <2>2. call' \in Call
    BY <1>22, CallNames DEF ProbeAnswered, NextPeer, SetErrorApart, Rest, TypeOK
  <2>3. state' \in State
    BY <1>22, StateNames DEF ProbeAnswered, NextPeer, SetErrorApart, Rest, TypeOK
  <2>4. peers' \subseteq Peer /\ asked' \subseteq Peer /\ handlers' \subseteq {"have", "disconnect"}
    BY <1>22 DEF ProbeAnswered, NextPeer, SetErrorApart, Rest, TypeOK
  <2>. QED BY <1>22, <2>1, <2>2, <2>3, <2>4 DEF ProbeAnswered, NextPeer, SetErrorApart, Rest, TypeOK
<1>23. ASSUME NEW s \in Seeker, ProbeImports(s) PROVE TypeOK'
  BY <1>23, StateNames, CyclesTyped DEF ProbeImports, Import, NextPeer, TransitionTo
<1>24. ASSUME NEW s \in Seeker, ProbeDialed(s) PROVE TypeOK'
  <2>1. seek' \in [Seeker -> Cycles]
    <3>1. seek[s] \in Cycles /\ seek[s].left \subseteq Peer
      BY CyclesTyped DEF TypeOK
    <3>2. ASSUME NEW p \in seek[s].left,
                 NextPeer(s, [seek[s] EXCEPT !.at = "probing", !.left = @ \ {p}])
          PROVE  seek' \in [Seeker -> Cycles]
      <4>1. [seek[s] EXCEPT !.at = "probing", !.left = @ \ {p}] \in Cycles
        BY <3>1 DEF Cycles
      <4>. QED BY <3>2, <4>1, NextPeerTyped DEF TypeOK
    <3>3. ASSUME NEW p \in seek[s].left,
                 NextPeer(s, [seek[s] EXCEPT !.at = "probing", !.left = @ \ {p}, !.found = TRUE])
          PROVE  seek' \in [Seeker -> Cycles]
      <4>1. [seek[s] EXCEPT !.at = "probing", !.left = @ \ {p}, !.found = TRUE] \in Cycles
        BY <3>1 DEF Cycles
      <4>. QED BY <3>3, <4>1, NextPeerTyped DEF TypeOK
    <3>. QED BY <1>24, <3>2, <3>3 DEF ProbeDialed
  <2>2. peers' \subseteq Peer /\ asked' \subseteq Peer /\ handlers' \subseteq {"have", "disconnect"}
    <3>1. seek[s].left \subseteq Peer
      BY CyclesTyped DEF TypeOK
    <3>. QED BY <1>24, <3>1 DEF ProbeDialed, TypeOK
  <2>. QED BY <1>24, <2>1, <2>2 DEF ProbeDialed, NextPeer, TypeOK
<1>25. ASSUME NEW h \in Hearer, HaveArrives(h) PROVE TypeOK'
  BY <1>25, PeerCount DEF HaveArrives
<1>26. ASSUME NEW h \in Hearer, HaveDialed(h) PROVE TypeOK'
  <2>1. hear' \in [Hearer -> {"idle", "dialing"}]
    BY <1>26 DEF HaveDialed, DoWork, MayWork, TypeOK
  <2>2. peers' \subseteq Peer /\ asked' \subseteq Peer /\ handlers' \subseteq {"have", "disconnect"}
    BY <1>26 DEF HaveDialed, DoWork, MayWork, TypeOK
  <2>3. locked' = (work' # "idle") /\ work' \in At /\ todo' \subseteq File
    BY <1>26, WorkNames DEF HaveDialed, DoWork, MayWork, TypeOK
  <2>4. throttled' \in BOOLEAN /\ retry' \in BOOLEAN /\ discovery' \in BOOLEAN
    BY <1>26 DEF HaveDialed, DoWork, MayWork, TypeOK
  <2>. QED BY <1>26, <2>1, <2>2, <2>3, <2>4 DEF HaveDialed, DoWork, MayWork, TypeOK
<1>27. CASE Disable
  <2>1. deletes' \in 0..MaxDeletes /\ pauses' \in 0..MaxPauses
    BY <1>27, BoundAssumption DEF Disable, TypeOK
  <2>. QED BY <1>27, <2>1, BoundAssumption DEF Disable, TypeOK
<1>28. CASE Enable
  BY <1>28 DEF Enable
<1>29. CASE Enabled
  BY <1>29, WorkNames, CallNames, StateNames DEF Enabled, TransitionTo, ScheduleNextIn, DoWork,
     SetErrorApart, MayWork
<1>30. CASE ShoutReturns
  BY <1>30 DEF ShoutReturns, ScheduleNext, ScheduleNextIn
<1>31. CASE Destroy
  BY <1>31, CallNames DEF Destroy
<1>32. CASE DestroyReturns
  BY <1>32 DEF DestroyReturns, Tracked
<1>33. ASSUME NEW p \in Peer, DropPeer(p) PROVE TypeOK'
  BY <1>33 DEF DropPeer
<1>34. ASSUME NEW f \in File, FileDeleted(f) PROVE TypeOK'
  <2>1. disk' \in [File -> {"absent", "zero", "data"}]
    BY <1>34 DEF FileDeleted, TypeOK
  <2>2. deletes' \in 0..MaxDeletes /\ pauses' \in 0..MaxPauses
    BY <1>34, BoundAssumption DEF FileDeleted, TypeOK
  <2>. QED BY <1>34, <2>1, <2>2, BoundAssumption DEF FileDeleted, TypeOK
<1>35. CASE UNCHANGED vars
  BY <1>35 DEF vars
<1>. QED BY <1>1, <1>2, <1>3, <1>4, <1>5, <1>6, <1>7, <1>8, <1>9, <1>10, <1>11, <1>12, <1>13, <1>14,
          <1>15, <1>16, <1>17, <1>18, <1>19, <1>20, <1>21, <1>22, <1>23, <1>24, <1>25, <1>26, <1>27,
          <1>28, <1>29, <1>30, <1>31, <1>32, <1>33, <1>34, <1>35
       DEF Next, Work, Cycle

-----------------------------------------------------------------------------
(* Phases *)

\* What each transition comes to, whatever the state was.
LEMMA Transitions ==
  ASSUME state \in State
  PROVE  /\ TransitionTo("preparing") => state' = "preparing"
         /\ TransitionTo("downloading") =>
              state' = IF state \in {"preparing", "error"} THEN "downloading" ELSE state
         /\ TransitionTo("downloaded") =>
              state' = IF state \in {"preparing", "downloading"} THEN "downloaded" ELSE state
         /\ TransitionTo("awaiting-manifest") =>
              state' = IF state \in {"initialized", "preparing", "error"}
                       THEN "awaiting-manifest" ELSE state
BY DEF TransitionTo, Allowed, State

\* What the other proofs use of the types.
LEMMA Typed ==
  ASSUME TypeOK
  PROVE  /\ state \in State /\ locked = (work # "idle")
         /\ have \subseteq File /\ missing \subseteq File /\ todo \subseteq File
         /\ disk \in [File -> {"absent", "zero", "data"}] /\ peers \subseteq Peer
         /\ \A s \in Seeker : seek[s] \in Cycles
         /\ seek \in [Seeker -> Cycles] /\ hear \in [Hearer -> {"idle", "dialing"}]
         /\ DOMAIN seek = Seeker /\ DOMAIN hear = Hearer
BY DEF TypeOK

\* Every step keeps the phases and the work in line.
LEMMA PhasesStep == TypeOK /\ Phases /\ [Next]_vars => Phases'
<1>. SUFFICES ASSUME TypeOK, Phases, [Next]_vars PROVE Phases'
  OBVIOUS
<1>. USE DEF dataVars, peerVars, timerVars, workVars, flagVars, actorVars, boundVars, Phases
<1>1. CASE Abandon
  BY <1>1, Typed DEF Abandon, GiveUp, Return, Leave, AfterWork
<1>2. CASE Enter
  BY <1>2, Typed DEF Enter, SeekPeers, Return, Leave, AfterWork
<1>3. CASE Answered
  BY <1>3, Typed, Transitions DEF Answered, Return, Import, WorkFails, Leave, AfterWork,
     SetErrorApart
<1>4. CASE Accessed
  BY <1>4, Typed, Transitions DEF Accessed, Return, WorkFails, Leave, AfterWork, SetErrorApart
<1>5. CASE Found
  BY <1>5, Typed, Transitions DEF Found, Absent, StartDownloading, SeekPeers
<1>6. CASE Allocated
  BY <1>6, Typed, Transitions DEF Allocated, ZeroFilled, StartDownloading, Return, Reject, Filled,
     Absent, SeekPeers, Leave, AfterWork
<1>7. CASE Checked
  BY <1>7, Typed, Transitions DEF Checked, Absent, Finish, Leave
<1>8. CASE Refilled
  BY <1>8, Typed DEF Refilled, Filled, Return, Reject, Reset, SeekPeers, Exhaust, Absent, Leave,
     AfterWork
<1>9. CASE Called
  BY <1>9, Typed DEF Called, ScheduleNext, ScheduleNextIn
<1>10. CASE Waited
  BY <1>10, Typed DEF Waited, Exhaust, Return, Leave, AfterWork
<1>11. CASE RunReports
  BY <1>11, Typed DEF RunReports, SetErrorApart
<1>12. CASE RunEnds
  BY <1>12, Typed DEF RunEnds, Absent, Transferred, Return, Exhaust, Leave, AfterWork
<1>13. CASE Download
  BY <1>13, Typed, Transitions DEF Download, MayWork, DoWork
<1>14. CASE CallReturns
  BY <1>14, Typed DEF CallReturns, ScheduleNext, AfterWork, ScheduleNextIn
<1>15. CASE Tick
  BY <1>15, Typed DEF Tick
<1>16. CASE RetryFires
  BY <1>16, Typed DEF RetryFires, DoWork, MayWork
<1>17. ASSUME NEW s \in Seeker, DiscoveryFires(s) PROVE Phases'
  BY <1>17, Typed DEF DiscoveryFires, StartCycle
<1>18. ASSUME NEW s \in Seeker, TriggerDiscovery(s) PROVE Phases'
  BY <1>18, Typed DEF TriggerDiscovery, StartCycle
<1>19. ASSUME NEW s \in Seeker, CycleAborts(s) PROVE Phases'
  BY <1>19, Typed DEF CycleAborts, Rest
<1>20. ASSUME NEW s \in Seeker, CycleCalled(s) PROVE Phases'
  BY <1>20, Typed DEF CycleCalled, ScheduleNext, NextPeer, ScheduleNextIn
<1>21. ASSUME NEW s \in Seeker, Probe(s) PROVE Phases'
  BY <1>21, Typed DEF Probe, EndCycle, NextPeer, Rest, ScheduleNext, DoWork, ScheduleNextIn, MayWork
<1>22. ASSUME NEW s \in Seeker, ProbeAnswered(s) PROVE Phases'
  BY <1>22, Typed DEF ProbeAnswered, NextPeer, SetErrorApart, Rest
<1>23. ASSUME NEW s \in Seeker, ProbeImports(s) PROVE Phases'
  BY <1>23, Typed, Transitions DEF ProbeImports, Import, NextPeer
<1>24. ASSUME NEW s \in Seeker, ProbeDialed(s) PROVE Phases'
  BY <1>24, Typed DEF ProbeDialed, NextPeer
<1>25. ASSUME NEW h \in Hearer, HaveArrives(h) PROVE Phases'
  BY <1>25, Typed DEF HaveArrives
<1>26. ASSUME NEW h \in Hearer, HaveDialed(h) PROVE Phases'
  BY <1>26, Typed DEF HaveDialed, DoWork, MayWork
<1>27. CASE Disable
  BY <1>27, Typed DEF Disable
<1>28. CASE Enable
  BY <1>28, Typed DEF Enable
<1>29. CASE Enabled
  BY <1>29, Typed, Transitions DEF Enabled, ScheduleNextIn, DoWork, SetErrorApart, MayWork
<1>30. CASE ShoutReturns
  BY <1>30, Typed DEF ShoutReturns, ScheduleNext, ScheduleNextIn
<1>31. CASE Destroy
  BY <1>31, Typed DEF Destroy
<1>32. CASE DestroyReturns
  BY <1>32, Typed DEF DestroyReturns, Tracked
<1>33. ASSUME NEW p \in Peer, DropPeer(p) PROVE Phases'
  BY <1>33, Typed DEF DropPeer
<1>34. ASSUME NEW f \in File, FileDeleted(f) PROVE Phases'
  BY <1>34, Typed DEF FileDeleted
<1>35. CASE UNCHANGED vars
  BY <1>35, Typed DEF vars
<1>. QED BY <1>1, <1>2, <1>3, <1>4, <1>5, <1>6, <1>7, <1>8, <1>9, <1>10, <1>11, <1>12, <1>13, <1>14,
          <1>15, <1>16, <1>17, <1>18, <1>19, <1>20, <1>21, <1>22, <1>23, <1>24, <1>25, <1>26, <1>27,
          <1>28, <1>29, <1>30, <1>31, <1>32, <1>33, <1>34, <1>35
       DEF Next, Work, Cycle

\* Nothing is put up again after destroy(), and nothing starts once it has returned.
LEMMA QuietStep == TypeOK /\ Phases /\ Quiet /\ [Next]_vars => Quiet'
<1>. SUFFICES ASSUME TypeOK, Phases, Quiet, [Next]_vars PROVE Quiet'
  OBVIOUS
<1>. USE DEF dataVars, peerVars, timerVars, workVars, flagVars, actorVars, boundVars, Phases, Quiet,
     Tracked
<1>1. CASE Abandon
  BY <1>1, Typed DEF Abandon, GiveUp, Return, Leave, AfterWork
<1>2. CASE Enter
  BY <1>2, Typed DEF Enter, SeekPeers, Return, Leave, AfterWork
<1>3. CASE Answered
  BY <1>3, Typed, Transitions DEF Answered, Return, Import, WorkFails, Leave, AfterWork,
     SetErrorApart
<1>4. CASE Accessed
  BY <1>4, Typed, Transitions DEF Accessed, Return, WorkFails, Leave, AfterWork, SetErrorApart
<1>5. CASE Found
  BY <1>5, Typed, Transitions DEF Found, Absent, StartDownloading, SeekPeers
<1>6. CASE Allocated
  BY <1>6, Typed, Transitions DEF Allocated, ZeroFilled, StartDownloading, Return, Reject, Filled,
     Absent, SeekPeers, Leave, AfterWork
<1>7. CASE Checked
  BY <1>7, Typed, Transitions DEF Checked, Absent, Finish, Leave
<1>8. CASE Refilled
  BY <1>8, Typed DEF Refilled, Filled, Return, Reject, Reset, SeekPeers, Exhaust, Absent, Leave,
     AfterWork
<1>9. CASE Called
  BY <1>9, Typed DEF Called, ScheduleNext, ScheduleNextIn
<1>10. CASE Waited
  BY <1>10, Typed DEF Waited, Exhaust, Return, Leave, AfterWork
<1>11. CASE RunReports
  BY <1>11, Typed DEF RunReports, SetErrorApart
<1>12. CASE RunEnds
  BY <1>12, Typed DEF RunEnds, Absent, Transferred, Return, Exhaust, Leave, AfterWork
<1>13. CASE Download
  BY <1>13, Typed, Transitions DEF Download, MayWork, DoWork
<1>14. CASE CallReturns
  BY <1>14, Typed DEF CallReturns, ScheduleNext, AfterWork, ScheduleNextIn
<1>15. CASE Tick
  BY <1>15, Typed DEF Tick
<1>16. CASE RetryFires
  BY <1>16, Typed DEF RetryFires, DoWork, MayWork
<1>17. ASSUME NEW s \in Seeker, DiscoveryFires(s) PROVE Quiet'
  BY <1>17, Typed DEF DiscoveryFires, StartCycle
<1>18. ASSUME NEW s \in Seeker, TriggerDiscovery(s) PROVE Quiet'
  BY <1>18, Typed DEF TriggerDiscovery, StartCycle
<1>19. ASSUME NEW s \in Seeker, CycleAborts(s) PROVE Quiet'
  BY <1>19, Typed DEF CycleAborts, Rest
<1>20. ASSUME NEW s \in Seeker, CycleCalled(s) PROVE Quiet'
  BY <1>20, Typed DEF CycleCalled, ScheduleNext, NextPeer, ScheduleNextIn
<1>21. ASSUME NEW s \in Seeker, Probe(s) PROVE Quiet'
  BY <1>21, Typed DEF Probe, EndCycle, NextPeer, Rest, ScheduleNext, DoWork, ScheduleNextIn, MayWork
<1>22. ASSUME NEW s \in Seeker, ProbeAnswered(s) PROVE Quiet'
  BY <1>22, Typed DEF ProbeAnswered, NextPeer, SetErrorApart, Rest
<1>23. ASSUME NEW s \in Seeker, ProbeImports(s) PROVE Quiet'
  BY <1>23, Typed, Transitions DEF ProbeImports, Import, NextPeer
<1>24. ASSUME NEW s \in Seeker, ProbeDialed(s) PROVE Quiet'
  BY <1>24, Typed DEF ProbeDialed, NextPeer
<1>25. ASSUME NEW h \in Hearer, HaveArrives(h) PROVE Quiet'
  BY <1>25, Typed DEF HaveArrives
<1>26. ASSUME NEW h \in Hearer, HaveDialed(h) PROVE Quiet'
  BY <1>26, Typed DEF HaveDialed, DoWork, MayWork
<1>27. CASE Disable
  BY <1>27, Typed DEF Disable
<1>28. CASE Enable
  BY <1>28, Typed DEF Enable
<1>29. CASE Enabled
  <2>1. CASE destroyed
    <3>1. UNCHANGED <<destroyed, destroying, work, call, seek, hear, retry, handlers, peers>>
          \/ (SetErrorApart(call) /\ UNCHANGED <<destroyed, destroying, work, shout, seek, hear>>)
      BY <1>29, <2>1 DEF Enabled, DoWork, MayWork, workVars
    <3>2. ~discovery' /\ UNCHANGED <<destroyed, destroying>>
      BY <1>29, <2>1 DEF Enabled, ScheduleNextIn, SetErrorApart, Quiet
    <3>3. ~shout => ~shout'
      BY <1>29, <2>1 DEF Enabled
    <3>. QED BY <3>1, <3>2, <3>3, <2>1 DEF SetErrorApart, Quiet, Tracked
  <2>2. CASE ~destroyed
    BY <1>29, <2>2 DEF Enabled, Phases, Quiet, Tracked
  <2>. QED BY <2>1, <2>2
<1>30. CASE ShoutReturns
  BY <1>30, Typed DEF ShoutReturns, ScheduleNext, ScheduleNextIn
<1>31. CASE Destroy
  BY <1>31, Typed DEF Destroy
<1>32. CASE DestroyReturns
  BY <1>32, Typed DEF DestroyReturns
<1>33. ASSUME NEW p \in Peer, DropPeer(p) PROVE Quiet'
  BY <1>33, Typed DEF DropPeer
<1>34. ASSUME NEW f \in File, FileDeleted(f) PROVE Quiet'
  BY <1>34, Typed DEF FileDeleted
<1>35. CASE UNCHANGED vars
  BY <1>35, Typed DEF vars
<1>. QED BY <1>1, <1>2, <1>3, <1>4, <1>5, <1>6, <1>7, <1>8, <1>9, <1>10, <1>11, <1>12, <1>13, <1>14,
          <1>15, <1>16, <1>17, <1>18, <1>19, <1>20, <1>21, <1>22, <1>23, <1>24, <1>25, <1>26, <1>27,
          <1>28, <1>29, <1>30, <1>31, <1>32, <1>33, <1>34, <1>35
       DEF Next, Work, Cycle

\* While the chain goes on the download is awake.
LEMMA ChainSuffices == Chain' => Awake'
BY DEF Awake
LEMMA GoesOn ==
  ASSUME TypeOK, NEW s \in Seeker, NEW r, NextPeer(s, r), r.at # "idle"
  PROVE  Awake'
BY Typed, ChainSuffices DEF NextPeer, Chain


\* No step leaves a download that waits and may work with nothing to wake it.
LEMMA AwakeStep == TypeOK /\ Phases /\ Awake /\ [Next]_vars => Awake'
<1>. SUFFICES ASSUME TypeOK, Phases, Awake, [Next]_vars PROVE Awake'
  OBVIOUS
<1>. USE DEF dataVars, peerVars, timerVars, workVars, flagVars, actorVars, boundVars, Phases, Awake,
     Chain, Fetching
<1>1. CASE Abandon
  BY <1>1, Typed DEF Abandon, GiveUp, Return, Leave, AfterWork
<1>2. CASE Enter
  BY <1>2, Typed DEF Enter, SeekPeers, Return, Leave, AfterWork
<1>3. CASE Answered
  BY <1>3, Typed, Transitions DEF Answered, Return, Import, WorkFails, Leave, AfterWork,
     SetErrorApart
<1>4. CASE Accessed
  BY <1>4, Typed, Transitions DEF Accessed, Return, WorkFails, Leave, AfterWork, SetErrorApart
<1>5. CASE Found
  BY <1>5, Typed, Transitions DEF Found, Absent, StartDownloading, SeekPeers
<1>6. CASE Allocated
  BY <1>6, Typed, Transitions DEF Allocated, ZeroFilled, StartDownloading, Return, Reject, Filled,
     Absent, SeekPeers, Leave, AfterWork
<1>7. CASE Checked
  BY <1>7, Typed, Transitions DEF Checked, Absent, Finish, Leave
<1>8. CASE Refilled
  BY <1>8, Typed DEF Refilled, Filled, Return, Reject, Reset, SeekPeers, Exhaust, Absent, Leave,
     AfterWork
<1>9. CASE Called
  BY <1>9, Typed DEF Called, ScheduleNext, ScheduleNextIn
<1>10. CASE Waited
  BY <1>10, Typed DEF Waited, Exhaust, Return, Leave, AfterWork
<1>11. CASE RunReports
  BY <1>11, Typed DEF RunReports, SetErrorApart
<1>12. CASE RunEnds
  BY <1>12, Typed DEF RunEnds, Absent, Transferred, Return, Exhaust, Leave, AfterWork
<1>13. CASE Download
  BY <1>13, Typed, Transitions DEF Download, MayWork, DoWork
<1>14. CASE CallReturns
  BY <1>14, Typed DEF CallReturns, ScheduleNext, AfterWork, ScheduleNextIn
<1>15. CASE Tick
  BY <1>15, Typed DEF Tick
<1>16. CASE RetryFires
  <2>. USE DEF RetryFires, DoWork, dataVars, peerVars, flagVars, actorVars, boundVars, Chain
  <2>1. CASE MayWork(disabled \/ state # "downloading", throttled)
    BY <1>16, <2>1, Typed DEF MayWork, Phases, Awake, Fetching
  <2>2. CASE ~MayWork(disabled \/ state # "downloading", throttled)
    <3>1. CASE locked
      BY <1>16, <2>2, <3>1, Typed DEF At, TypeOK, Phases, Awake, Fetching, workVars
    <3>2. CASE \E s \in Seeker : seek[s].at = "importing"
      BY <1>16, <2>2, <3>2, Typed DEF Awake, workVars
    <3>. QED BY <1>16, <2>2, <3>1, <3>2, Typed DEF MayWork, Awake, workVars
  <2>. QED BY <2>1, <2>2
<1>17. ASSUME NEW s \in Seeker, DiscoveryFires(s) PROVE Awake'
  <2>1. CASE state \in {"downloading", "awaiting-manifest"}
    <3>1. seek' = [seek EXCEPT ![s] = [Resting EXCEPT !.at = "calling", !.before = Cardinality(peers)]]
      BY <1>17, <2>1 DEF DiscoveryFires, StartCycle
    <3>2. seek'[s].at = "calling"
      BY <3>1, Typed DEF Resting
    <3>. QED BY <3>2, ChainSuffices DEF Chain
  <2>2. CASE state \notin {"downloading", "awaiting-manifest"}
    BY <1>17, <2>2, Typed DEF DiscoveryFires, StartCycle, dataVars, flagVars, workVars, Phases, Awake, Chain
  <2>. QED BY <2>1, <2>2
<1>18. ASSUME NEW s \in Seeker, TriggerDiscovery(s) PROVE Awake'
  <2>1. CASE state \in {"downloading", "awaiting-manifest"}
    <3>1. seek' = [seek EXCEPT ![s] = [Resting EXCEPT !.at = "calling", !.before = Cardinality(peers)]]
      BY <1>18, <2>1 DEF TriggerDiscovery, StartCycle
    <3>2. seek'[s].at = "calling"
      BY <3>1, Typed DEF Resting
    <3>. QED BY <3>2, ChainSuffices DEF Chain
  <2>2. CASE state \notin {"downloading", "awaiting-manifest"}
    BY <1>18, <2>2, Typed DEF TriggerDiscovery, StartCycle, dataVars, flagVars, workVars, Phases, Awake, Chain
  <2>. QED BY <2>1, <2>2
<1>19. ASSUME NEW s \in Seeker, CycleAborts(s) PROVE Awake'
  BY <1>19, Typed DEF CycleAborts, Rest
<1>20. ASSUME NEW s \in Seeker, CycleCalled(s) PROVE Awake'
  BY <1>20, Typed DEF CycleCalled, ScheduleNext, NextPeer, ScheduleNextIn
<1>21. ASSUME NEW s \in Seeker, Probe(s) PROVE Awake'
  <2>1. CASE EndCycle(s, seek[s].found, peers)
    <3>1. discovery' = (discovery \/ (~destroyed /\ ~disabled /\ state \notin {"downloaded", "error"}))
      BY <2>1 DEF EndCycle, ScheduleNext, ScheduleNextIn
    <3>. QED BY <1>21, <3>1, ChainSuffices DEF Probe, dataVars, flagVars, Phases, Awake, Chain
  <2>2. CASE ~(seek[s].left = {} \/ Cardinality(peers) >= Cap)
    <3>1. ASSUME NEW p, NextPeer(s, [seek[s] EXCEPT !.left = @ \ {p}]) PROVE Awake'
      <4>1. [seek[s] EXCEPT !.left = @ \ {p}].at = "probing"
        BY <1>21, Typed DEF Probe, Cycles
      <4>. QED BY <3>1, <4>1, GoesOn
    <3>2. ASSUME NEW p, NextPeer(s, [seek[s] EXCEPT !.at = "asking", !.left = {p} \cup @])
          PROVE  Awake'
      <4>1. [seek[s] EXCEPT !.at = "asking", !.left = {p} \cup @].at = "asking"
        BY Typed DEF Cycles
      <4>. QED BY <3>2, <4>1, GoesOn
    <3>. QED BY <1>21, <2>2, <3>1, <3>2 DEF Probe
  <2>. QED BY <1>21, <2>1, <2>2 DEF Probe
<1>22. ASSUME NEW s \in Seeker, ProbeAnswered(s) PROVE Awake'
  <2>1. CASE SetErrorApart(call)
    BY <1>22, <2>1 DEF ProbeAnswered, SetErrorApart, Awake
  <2>2. CASE ~SetErrorApart(call)
    <3>1. ASSUME NEW p, NextPeer(s, [seek[s] EXCEPT !.at = "probing", !.left = @ \ {p}])
          PROVE  Awake'
      <4>1. [seek[s] EXCEPT !.at = "probing", !.left = @ \ {p}].at = "probing"
        BY Typed DEF Cycles
      <4>. QED BY <3>1, <4>1, GoesOn
    <3>2. ASSUME NextPeer(s, [seek[s] EXCEPT !.at = IF needsManifest THEN "importing" ELSE "dialing"])
          PROVE  Awake'
      <4>1. [seek[s] EXCEPT !.at = IF needsManifest THEN "importing" ELSE "dialing"].at # "idle"
        BY Typed DEF Cycles
      <4>. QED BY <3>2, <4>1, GoesOn
    <3>. QED BY <1>22, <2>2, <3>1, <3>2 DEF ProbeAnswered
  <2>. QED BY <2>1, <2>2
<1>23. ASSUME NEW s \in Seeker, ProbeImports(s) PROVE Awake'
  BY <1>23, Typed, Transitions DEF ProbeImports, Import, NextPeer
<1>24. ASSUME NEW s \in Seeker, ProbeDialed(s) PROVE Awake'
  <2>1. ASSUME NEW p, NextPeer(s, [seek[s] EXCEPT !.at = "probing", !.left = @ \ {p}])
        PROVE  Awake'
    <3>1. [seek[s] EXCEPT !.at = "probing", !.left = @ \ {p}].at = "probing"
      BY Typed DEF Cycles
    <3>. QED BY <2>1, <3>1, GoesOn
  <2>2. ASSUME NEW p,
               NextPeer(s, [seek[s] EXCEPT !.at = "probing", !.left = @ \ {p}, !.found = TRUE])
        PROVE  Awake'
    <3>1. [seek[s] EXCEPT !.at = "probing", !.left = @ \ {p}, !.found = TRUE].at = "probing"
      BY Typed DEF Cycles
    <3>. QED BY <2>2, <3>1, GoesOn
  <2>. QED BY <1>24, <2>1, <2>2 DEF ProbeDialed
<1>25. ASSUME NEW h \in Hearer, HaveArrives(h) PROVE Awake'
  BY <1>25, Typed DEF HaveArrives
<1>26. ASSUME NEW h \in Hearer, HaveDialed(h) PROVE Awake'
  BY <1>26, Typed DEF HaveDialed, DoWork, MayWork
<1>27. CASE Disable
  BY <1>27, Typed DEF Disable
<1>28. CASE Enable
  BY <1>28, Typed DEF Enable
<1>29. CASE Enabled
  BY <1>29, Typed, Transitions DEF Enabled, ScheduleNextIn, DoWork, SetErrorApart, MayWork
<1>30. CASE ShoutReturns
  BY <1>30, Typed DEF ShoutReturns, ScheduleNext, ScheduleNextIn
<1>31. CASE Destroy
  BY <1>31, Typed DEF Destroy
<1>32. CASE DestroyReturns
  BY <1>32, Typed DEF DestroyReturns, Tracked
<1>33. ASSUME NEW p \in Peer, DropPeer(p) PROVE Awake'
  BY <1>33, Typed DEF DropPeer
<1>34. ASSUME NEW f \in File, FileDeleted(f) PROVE Awake'
  BY <1>34, Typed DEF FileDeleted
<1>35. CASE UNCHANGED vars
  BY <1>35, Typed DEF vars
<1>. QED BY <1>1, <1>2, <1>3, <1>4, <1>5, <1>6, <1>7, <1>8, <1>9, <1>10, <1>11, <1>12, <1>13, <1>14,
          <1>15, <1>16, <1>17, <1>18, <1>19, <1>20, <1>21, <1>22, <1>23, <1>24, <1>25, <1>26, <1>27,
          <1>28, <1>29, <1>30, <1>31, <1>32, <1>33, <1>34, <1>35
       DEF Next, Work, Cycle

\* No step loses the count of what is missing.
LEMMA WholeStep == TypeOK /\ Phases /\ Whole /\ [Next]_vars => Whole'
<1>. SUFFICES ASSUME TypeOK, Phases, Whole, [Next]_vars PROVE Whole'
  OBVIOUS
<1>. USE DEF dataVars, peerVars, timerVars, workVars, flagVars, actorVars, boundVars, Phases, Whole
<1>1. CASE Abandon
  BY <1>1, Typed, SetAssumption DEF Abandon, GiveUp, Return, Leave, AfterWork
<1>2. CASE Enter
  BY <1>2, Typed, SetAssumption DEF Enter, SeekPeers, Return, Leave, AfterWork
<1>3. CASE Answered
  BY <1>3, Typed, Transitions, SetAssumption DEF Answered, Return, Import, WorkFails, Leave,
     AfterWork, SetErrorApart
<1>4. CASE Accessed
  BY <1>4, Typed, Transitions, SetAssumption DEF Accessed, Return, WorkFails, Leave, AfterWork,
     SetErrorApart
<1>5. CASE Found
  BY <1>5, Typed, Transitions, SetAssumption DEF Found, Absent, StartDownloading, SeekPeers
<1>6. CASE Allocated
  BY <1>6, Typed, Transitions, SetAssumption DEF Allocated, ZeroFilled, StartDownloading, Return,
     Reject, Filled, Absent, SeekPeers, Leave, AfterWork
<1>7. CASE Checked
  BY <1>7, Typed, Transitions, SetAssumption DEF Checked, Absent, Finish, Leave
<1>8. CASE Refilled
  <2>1. PICK f \in todo :
          \/ /\ destroyed /\ (Filled({f}) \/ UNCHANGED disk) /\ Return
             /\ UNCHANGED <<have, missing, unread>>
          \/ ~destroyed /\ Leave /\ UNCHANGED <<have, disk, missing, unread>>
          \/ /\ ~destroyed /\ Filled({f}) /\ have' = have \ {f}
             /\ \/ /\ unread' = (unread \/ work = "refilling") /\ UNCHANGED <<missing, work>>
                \/ /\ work = "refilling" /\ missing' = File \ have' /\ unread' = FALSE
                   /\ work' \in {"calling", "running"}
                \/ work = "restoring" /\ Leave /\ UNCHANGED <<missing, unread>>
    BY <1>8 DEF Refilled, Reject, Reset, SeekPeers, Exhaust, Return
  <2>2. f \in File /\ UNCHANGED <<stale, state, needsManifest, destroyed>>
        /\ work \in {"refilling", "restoring"} /\ state # "downloaded" /\ ~needsManifest
    BY <1>8, Typed DEF Refilled, flagVars, Phases
  <2>3. \A g \in have : disk'[g] = "zero" => disk[g] = "zero" \/ g = f \/ destroyed
    BY <2>1, <2>2, Typed DEF Filled, Absent
  <2>. QED BY <2>1, <2>2, <2>3, Typed DEF Whole, Return, Leave
<1>9. CASE Called
  BY <1>9, Typed, SetAssumption DEF Called, ScheduleNext, ScheduleNextIn
<1>10. CASE Waited
  BY <1>10, Typed, SetAssumption DEF Waited, Exhaust, Return, Leave, AfterWork
<1>11. CASE RunReports
  BY <1>11, Typed, SetAssumption DEF RunReports, SetErrorApart
<1>12. CASE RunEnds
  BY <1>12, Typed, SetAssumption DEF RunEnds, Absent, Transferred, Return, Exhaust, Leave, AfterWork
<1>13. CASE Download
  BY <1>13, Typed, Transitions, SetAssumption DEF Download, MayWork, DoWork
<1>14. CASE CallReturns
  BY <1>14, Typed, SetAssumption DEF CallReturns, ScheduleNext, AfterWork, ScheduleNextIn
<1>15. CASE Tick
  BY <1>15, Typed, SetAssumption DEF Tick
<1>16. CASE RetryFires
  BY <1>16, Typed, SetAssumption DEF RetryFires, DoWork, MayWork
<1>17. ASSUME NEW s \in Seeker, DiscoveryFires(s) PROVE Whole'
  BY <1>17, Typed, SetAssumption DEF DiscoveryFires, StartCycle
<1>18. ASSUME NEW s \in Seeker, TriggerDiscovery(s) PROVE Whole'
  BY <1>18, Typed, SetAssumption DEF TriggerDiscovery, StartCycle
<1>19. ASSUME NEW s \in Seeker, CycleAborts(s) PROVE Whole'
  BY <1>19, Typed, SetAssumption DEF CycleAborts, Rest
<1>20. ASSUME NEW s \in Seeker, CycleCalled(s) PROVE Whole'
  BY <1>20, Typed, SetAssumption DEF CycleCalled, ScheduleNext, NextPeer, ScheduleNextIn
<1>21. ASSUME NEW s \in Seeker, Probe(s) PROVE Whole'
  BY <1>21, Typed, SetAssumption DEF Probe, EndCycle, NextPeer, Rest, ScheduleNext, DoWork,
     ScheduleNextIn, MayWork
<1>22. ASSUME NEW s \in Seeker, ProbeAnswered(s) PROVE Whole'
  BY <1>22, Typed, SetAssumption DEF ProbeAnswered, NextPeer, SetErrorApart, Rest
<1>23. ASSUME NEW s \in Seeker, ProbeImports(s) PROVE Whole'
  BY <1>23, Typed, Transitions, SetAssumption DEF ProbeImports, Import, NextPeer
<1>24. ASSUME NEW s \in Seeker, ProbeDialed(s) PROVE Whole'
  BY <1>24, Typed, SetAssumption DEF ProbeDialed, NextPeer
<1>25. ASSUME NEW h \in Hearer, HaveArrives(h) PROVE Whole'
  BY <1>25, Typed, SetAssumption DEF HaveArrives
<1>26. ASSUME NEW h \in Hearer, HaveDialed(h) PROVE Whole'
  BY <1>26, Typed, SetAssumption DEF HaveDialed, DoWork, MayWork
<1>27. CASE Disable
  BY <1>27, Typed, SetAssumption DEF Disable
<1>28. CASE Enable
  BY <1>28, Typed, SetAssumption DEF Enable
<1>29. CASE Enabled
  BY <1>29, Typed, Transitions, SetAssumption DEF Enabled, ScheduleNextIn, DoWork, SetErrorApart,
     MayWork
<1>30. CASE ShoutReturns
  BY <1>30, Typed, SetAssumption DEF ShoutReturns, ScheduleNext, ScheduleNextIn
<1>31. CASE Destroy
  BY <1>31, Typed, SetAssumption DEF Destroy
<1>32. CASE DestroyReturns
  BY <1>32, Typed, SetAssumption DEF DestroyReturns, Tracked
<1>33. ASSUME NEW p \in Peer, DropPeer(p) PROVE Whole'
  BY <1>33, Typed, SetAssumption DEF DropPeer
<1>34. ASSUME NEW f \in File, FileDeleted(f) PROVE Whole'
  BY <1>34, Typed, SetAssumption DEF FileDeleted
<1>35. CASE UNCHANGED vars
  BY <1>35, Typed, SetAssumption DEF vars
<1>. QED BY <1>1, <1>2, <1>3, <1>4, <1>5, <1>6, <1>7, <1>8, <1>9, <1>10, <1>11, <1>12, <1>13, <1>14,
          <1>15, <1>16, <1>17, <1>18, <1>19, <1>20, <1>21, <1>22, <1>23, <1>24, <1>25, <1>26, <1>27,
          <1>28, <1>29, <1>30, <1>31, <1>32, <1>33, <1>34, <1>35
       DEF Next, Work, Cycle

-----------------------------------------------------------------------------
(* Invariants *)

Inv == TypeOK /\ Phases /\ Quiet /\ Awake /\ Whole

\* A download begins well.
LEMMA InitInv == Init => Inv
<1>. SUFFICES ASSUME Init PROVE Inv
  OBVIOUS
<1>1. TypeOK
  <2>1. seek \in [Seeker -> Cycles] /\ hear \in [Hearer -> {"idle", "dialing"}]
    BY CyclesTyped DEF Init
  <2>2. disk \in [File -> {"absent", "zero", "data"}] /\ have \subseteq File /\ missing \subseteq File
    BY DEF Init
  <2>3. state \in State /\ locked = (work # "idle") /\ work \in At /\ call \in Call
    BY WorkNames, CallNames, StateNames DEF Init
  <2>4. deletes \in 0..MaxDeletes /\ pauses \in 0..MaxPauses
    BY BoundAssumption DEF Init
  <2>. QED BY <2>1, <2>2, <2>3, <2>4 DEF Init, TypeOK
<1>2. Phases
  BY DEF Init, Phases
<1>3. Quiet
  BY DEF Init, Quiet
<1>4. Awake
  BY DEF Init, Awake
<1>5. Whole
  BY SetAssumption DEF Init, Whole
<1>. QED BY <1>1, <1>2, <1>3, <1>4, <1>5 DEF Inv

\* The invariant is kept by every step.
LEMMA Invariant == Spec => []Inv
<1>1. Inv /\ [Next]_vars => Inv'
  BY TypeStep, PhasesStep, QuietStep, AwakeStep, WholeStep DEF Inv
<1>. QED BY <1>1, InitInv, PTL DEF Spec

\* The variables of the download keep their types.
THEOREM TypeCorrect == Spec => []TypeOK
<1>1. Inv => TypeOK
  BY DEF Inv
<1>. QED BY <1>1, Invariant, PTL

\* A finished download is whole and a destroyed one is quiet (downloader.ts doWork, destroy).
THEOREM EndsHold == Spec => []EndsAreWhole
<1>1. Inv => EndsAreWhole
  <2>. SUFFICES ASSUME Inv PROVE EndsAreWhole
    OBVIOUS
  <2>1. FinishedIsWhole
    BY DEF Inv, Whole, FinishedIsWhole
  <2>2. DestroyedIsQuiet
    BY DEF Inv, Phases, Quiet, DestroyedIsQuiet
  <2>. QED BY <2>1, <2>2 DEF Inv, EndsAreWhole
<1>. QED BY <1>1, Invariant, PTL

\* A download that waits and may work has something that wakes it (downloader.ts
\* scheduleRetry, scheduleNextPeerDiscovery).
THEOREM AwakeHolds == Spec => []StaysAwake
<1>1. Inv => StaysAwake
  BY DEF Inv, TypeOK, Awake, Chain, Fetching, StaysAwake, Tracked
<1>. QED BY <1>1, Invariant, PTL

-----------------------------------------------------------------------------
(* The contract *)

\* A step of the contract, or none.
Kept == contract' = contract \/ contract' \in Contract!Steps(contract)

\* Each step of the contract by the fields it changes.
LEMMA IsFailed ==
  ASSUME NEW r \in Contract!Downloads, NEW s \in Contract!Downloads,
         s.phase = "error", s.disabled = TRUE, s.destroyed = r.destroyed, s.quiet = r.quiet,
         s.promise = r.promise \/ (r.promise = "pending" /\ s.promise = "failed")
  PROVE  s \in Contract!Failed(r)
<1>1. s = [r EXCEPT !.phase = "error", !.disabled = TRUE, !.promise = s.promise]
  BY DEF Contract!Downloads
<1>. QED BY <1>1 DEF Contract!Failed, Contract!Downloads
LEMMA IsCancelled ==
  ASSUME NEW r \in Contract!Downloads, NEW s \in Contract!Downloads,
         r.destroyed, r.promise = "pending", s.promise = "cancelled", s.phase = r.phase,
         s.disabled = r.disabled, s.destroyed = r.destroyed, s.quiet = r.quiet
  PROVE  s \in Contract!Cancelled(r)
<1>1. s = [r EXCEPT !.promise = "cancelled"]
  BY DEF Contract!Downloads
<1>. QED BY <1>1 DEF Contract!Cancelled, Contract!Downloads
LEMMA IsOvertaken ==
  ASSUME NEW r \in Contract!Downloads, NEW s \in Contract!Downloads,
         r.phase = "error", s.phase = "active", s.promise = r.promise,
         s.disabled = r.disabled, s.destroyed = r.destroyed, s.quiet = r.quiet
  PROVE  s \in Contract!Overtaken(r)
<1>1. s = [r EXCEPT !.phase = "active"]
  BY DEF Contract!Downloads
<1>. QED BY <1>1 DEF Contract!Overtaken, Contract!Downloads
LEMMA IsCompleted ==
  ASSUME NEW r \in Contract!Downloads, NEW s \in Contract!Downloads,
         r.phase = "active", ~r.destroyed, s.phase = "complete",
         s.disabled = r.disabled, s.destroyed = r.destroyed, s.quiet = r.quiet,
         s.promise = r.promise \/ (r.promise = "pending" /\ s.promise = "resolved")
  PROVE  s \in Contract!Completed(r)
<1>1. s = [r EXCEPT !.phase = "complete", !.promise = s.promise]
  BY DEF Contract!Downloads
<1>. QED BY <1>1 DEF Contract!Completed, Contract!Downloads
LEMMA IsPaused ==
  ASSUME NEW r \in Contract!Downloads, NEW s \in Contract!Downloads,
         ~r.destroyed, s.disabled = TRUE, s.phase = r.phase, s.promise = r.promise,
         s.destroyed = r.destroyed, s.quiet = r.quiet
  PROVE  s \in Contract!Paused(r)
<1>1. s = [r EXCEPT !.disabled = TRUE]
  BY DEF Contract!Downloads
<1>. QED BY <1>1 DEF Contract!Paused, Contract!Downloads
LEMMA IsResumed ==
  ASSUME NEW r \in Contract!Downloads, NEW s \in Contract!Downloads,
         s.disabled = FALSE, s.promise = r.promise, s.destroyed = r.destroyed, s.quiet = r.quiet,
         s.phase = IF r.phase = "error" THEN "active" ELSE r.phase
  PROVE  s \in Contract!Resumed(r)
<1>1. s = [r EXCEPT !.disabled = FALSE, !.phase = s.phase]
  BY DEF Contract!Downloads
<1>. QED BY <1>1 DEF Contract!Resumed, Contract!Downloads
LEMMA IsDestroyed ==
  ASSUME NEW r \in Contract!Downloads, NEW s \in Contract!Downloads,
         s.disabled = TRUE, s.destroyed = TRUE, s.phase = r.phase, s.quiet = r.quiet,
         s.promise = r.promise \/ (r.promise = "pending" /\ s.promise = "cancelled")
  PROVE  s \in Contract!Destroyed(r)
<1>1. s = [r EXCEPT !.disabled = TRUE, !.destroyed = TRUE, !.promise = s.promise]
  BY DEF Contract!Downloads
<1>. QED BY <1>1 DEF Contract!Destroyed, Contract!Downloads
LEMMA IsQuieted ==
  ASSUME NEW r \in Contract!Downloads, NEW s \in Contract!Downloads,
         r.destroyed, r.promise # "pending", s.quiet = TRUE, s.phase = r.phase,
         s.promise = r.promise, s.disabled = r.disabled, s.destroyed = r.destroyed
  PROVE  s \in Contract!Quieted(r)
<1>1. s = [r EXCEPT !.quiet = TRUE]
  BY DEF Contract!Downloads
<1>. QED BY <1>1 DEF Contract!Quieted, Contract!Downloads

\* The download as the contract sees it.
Pending == {"calling", "working", "waiting"}
LEMMA Contracted == TypeOK => contract \in Contract!Downloads
<1>. SUFFICES ASSUME TypeOK PROVE contract \in Contract!Downloads
  OBVIOUS
<1>1. contract.phase \in Contract!Phase /\ contract.promise \in Contract!Promise
  BY DEF TypeOK, contract, Contract!Phase, Contract!Promise, Call
<1>. QED BY <1>1 DEF TypeOK, contract, Contract!Downloads
LEMMA PrimedContracted == TypeOK' => contract' \in Contract!Downloads
<1>. SUFFICES ASSUME TypeOK' PROVE contract' \in Contract!Downloads
  OBVIOUS
<1>1. contract'.phase \in Contract!Phase /\ contract'.promise \in Contract!Promise
  BY DEF TypeOK, contract, Contract!Phase, Contract!Promise, Call
<1>. QED BY <1>1 DEF TypeOK, contract, Contract!Downloads

\* What it takes in the variables of the download for each of them.
LEMMA Fails ==
  ASSUME TypeOK, TypeOK',
         state' = "error", disabled' = TRUE, UNCHANGED <<destroyed, destroying>>,
         call' = call \/ (call \in Pending /\ call' \in Pending \cup {"failed"})
  PROVE  Kept
<1>1. contract \in Contract!Downloads /\ contract' \in Contract!Downloads
  BY Contracted, PrimedContracted
<1>2. contract' \in Contract!Failed(contract)
  BY <1>1, IsFailed DEF contract, Pending, Call
<1>. QED BY <1>2 DEF Kept, Contract!Steps
LEMMA Cancels ==
  ASSUME TypeOK, TypeOK',
         destroyed, UNCHANGED <<state, disabled, destroyed, destroying>>,
         call \in Pending, call' = "cancelled"
  PROVE  Kept
<1>1. contract \in Contract!Downloads /\ contract' \in Contract!Downloads
  BY Contracted, PrimedContracted
<1>2. contract' \in Contract!Cancelled(contract)
  BY <1>1, IsCancelled DEF contract, Pending, Call
<1>. QED BY <1>2 DEF Kept, Contract!Steps
LEMMA Overtakes ==
  ASSUME TypeOK, TypeOK',
         state = "error", state' \in {"awaiting-manifest", "preparing", "downloading"},
         UNCHANGED <<disabled, destroyed, destroying>>,
         call' = call \/ (call \in Pending /\ call' \in Pending)
  PROVE  Kept
<1>1. contract \in Contract!Downloads /\ contract' \in Contract!Downloads
  BY Contracted, PrimedContracted
<1>2. contract' \in Contract!Overtaken(contract)
  BY <1>1, IsOvertaken DEF contract, Pending, Call
<1>. QED BY <1>2 DEF Kept, Contract!Steps
LEMMA Completes ==
  ASSUME TypeOK, TypeOK',
         ~destroyed, UNCHANGED <<disabled, destroyed, destroying>>,
         state \in {"preparing", "downloading"}, state' = "downloaded",
         call' = call \/ (call \in Pending /\ call' = "resolved")
  PROVE  Kept
<1>1. contract \in Contract!Downloads /\ contract' \in Contract!Downloads
  BY Contracted, PrimedContracted
<1>2. contract' \in Contract!Completed(contract)
  BY <1>1, IsCompleted DEF contract, Pending, Call
<1>. QED BY <1>2 DEF Kept, Contract!Steps
LEMMA Pauses ==
  ASSUME TypeOK, TypeOK',
         ~destroyed, disabled' = TRUE, UNCHANGED <<state, destroyed, destroying, call>>
  PROVE  Kept
<1>1. contract \in Contract!Downloads /\ contract' \in Contract!Downloads
  BY Contracted, PrimedContracted
<1>2. contract' \in Contract!Paused(contract)
  BY <1>1, IsPaused DEF contract, Pending, Call
<1>. QED BY <1>2 DEF Kept, Contract!Steps
LEMMA Resumes ==
  ASSUME TypeOK, TypeOK',
         disabled' = FALSE, UNCHANGED <<destroyed, destroying, call>>,
         IF state = "error" THEN state' \in {"preparing", "downloading"} ELSE state' = state
  PROVE  Kept
<1>1. contract \in Contract!Downloads /\ contract' \in Contract!Downloads
  BY Contracted, PrimedContracted
<1>2. contract' \in Contract!Resumed(contract)
  BY <1>1, IsResumed DEF contract, Pending, Call
<1>. QED BY <1>2 DEF Kept, Contract!Steps
LEMMA IsTakenDown ==
  ASSUME TypeOK, TypeOK',
         disabled' = TRUE, destroyed' = TRUE, UNCHANGED state,
         destroying = "no", destroying' = "draining",
         call' = call \/ (call \in Pending /\ call' = "cancelled")
  PROVE  Kept
<1>1. contract \in Contract!Downloads /\ contract' \in Contract!Downloads
  BY Contracted, PrimedContracted
<1>2. contract' \in Contract!Destroyed(contract)
  BY <1>1, IsDestroyed DEF contract, Pending, Call
<1>. QED BY <1>2 DEF Kept, Contract!Steps
LEMMA Quietens ==
  ASSUME TypeOK, TypeOK',
         destroyed, call \in Call \ Pending, destroying' = "done",
         UNCHANGED <<state, disabled, destroyed, call>>
  PROVE  Kept
<1>1. contract \in Contract!Downloads /\ contract' \in Contract!Downloads
  BY Contracted, PrimedContracted
<1>2. contract' \in Contract!Quieted(contract)
  BY <1>1, IsQuieted DEF contract, Pending, Call
<1>. QED BY <1>2 DEF Kept, Contract!Steps

\* A step that leaves the switches alone and goes between phases at work shows at most
\* that it took the download out of the error.
LEMMA Still ==
  ASSUME TypeOK, TypeOK', UNCHANGED <<disabled, destroyed, destroying>>, state # "downloaded",
         state' \in {state, "awaiting-manifest", "preparing", "downloading"},
         call' = call \/ (call \in Pending /\ call' \in Pending)
  PROVE  Kept
<1>1. CASE state = "error" /\ state' # "error"
  BY <1>1, Overtakes
<1>2. CASE state # "error" \/ state' = "error"
  <2>1. contract' = contract
    BY <1>2 DEF contract, Pending
  <2>. QED BY <2>1 DEF Kept
<1>. QED BY <1>1, <1>2

\* Every step is one of the contract, or changes nothing the contract knows.
LEMMA ContractStep == TypeOK /\ Phases /\ [Next]_vars => Kept
<1>. SUFFICES ASSUME TypeOK, Phases, [Next]_vars PROVE Kept
  OBVIOUS
<1>. USE DEF dataVars, peerVars, timerVars, workVars, flagVars, actorVars, boundVars, Phases, Kept,
     contract
<1>1. CASE Abandon
  <2>1. CASE call' = call
    BY <1>1, <2>1 DEF Abandon, GiveUp, flagVars, actorVars, Kept, contract
  <2>2. CASE call' # call
    BY <1>1, <2>2, TypeStep, Cancels DEF Abandon, GiveUp, Return, AfterWork, flagVars, actorVars, Pending
  <2>. QED BY <2>1, <2>2
<1>2. CASE Enter
  BY <1>2, Typed DEF Enter, SeekPeers, Return, Leave, AfterWork, Contract!Resolved, Contract!Steps
<1>3. CASE Answered
  <2>1. CASE WorkFails
    BY <1>3, <2>1, TypeStep, Fails
       DEF Answered, WorkFails, SetErrorApart, AfterWork, flagVars, actorVars, Pending
  <2>2. CASE ~WorkFails
    <3>1. UNCHANGED <<disabled, destroyed, destroying>> /\ state # "downloaded"
          /\ (call' = call \/ (call \in Pending /\ call' \in Pending))
          /\ state' \in {state, "preparing"}
      BY <1>3, <2>2, Typed, Transitions
         DEF Answered, Return, AfterWork, Import, flagVars, actorVars, Phases, Pending
    <3>. QED BY <3>1, TypeStep, Still, Typed, StateNames
  <2>. QED BY <2>1, <2>2
<1>4. CASE Accessed
  <2>1. CASE WorkFails
    BY <1>4, <2>1, TypeStep, Fails DEF Accessed, WorkFails, SetErrorApart, AfterWork, actorVars, Pending
  <2>2. CASE ~WorkFails
    <3>1. UNCHANGED <<disabled, destroyed, destroying>> /\ state # "downloaded"
          /\ (call' = call \/ (call \in Pending /\ call' \in Pending))
          /\ state' \in {state, "awaiting-manifest"}
      BY <1>4, <2>2, Typed, Transitions DEF Accessed, Return, AfterWork, actorVars, Phases, Pending
    <3>. QED BY <3>1, TypeStep, Still, Typed, StateNames
  <2>. QED BY <2>1, <2>2
<1>5. CASE Found
  BY <1>5, Typed, Transitions DEF Found, Absent, StartDownloading, SeekPeers, Contract!Overtaken,
     Contract!Steps
<1>6. CASE Allocated
  BY <1>6, Typed, Transitions DEF Allocated, ZeroFilled, StartDownloading, Return, Reject, Filled,
     Absent, SeekPeers, Leave, AfterWork, Contract!Overtaken, Contract!Cancelled, Contract!Broken,
     Contract!Steps
<1>7. CASE Checked
  <2>1. state # "downloaded" /\ UNCHANGED <<disabled, destroyed, destroying>> /\ ~destroyed
    BY <1>7 DEF Checked, Phases, actorVars
  <2>2. CASE state' = "downloaded"
    BY <1>7, <2>1, <2>2, Typed, Transitions, TypeStep, Completes DEF Checked, Finish, Pending
  <2>3. CASE state' = state
    BY <1>7, <2>1, <2>3, Typed, TypeStep, Still DEF Checked, Finish, Pending
  <2>. QED BY <1>7, <2>2, <2>3, Typed, Transitions DEF Checked, Finish
<1>8. CASE Refilled
  BY <1>8, Typed DEF Refilled, Filled, Return, Reject, Reset, SeekPeers, Exhaust, Absent, Leave,
     AfterWork, Contract!Cancelled, Contract!Broken, Contract!Steps
<1>9. CASE Called
  BY <1>9, Typed DEF Called, ScheduleNext, ScheduleNextIn
<1>10. CASE Waited
  BY <1>10, Typed DEF Waited, Exhaust, Return, Leave, AfterWork
<1>11. CASE RunReports
  BY <1>11, TypeStep, Fails DEF RunReports, SetErrorApart, actorVars, Pending
<1>12. CASE RunEnds
  BY <1>12, Typed DEF RunEnds, Absent, Transferred, Return, Exhaust, Leave, AfterWork,
     Contract!Cancelled, Contract!Steps
<1>13. CASE Download
  BY <1>13, Typed, Transitions DEF Download, MayWork, DoWork, Contract!Started, Contract!Steps
<1>14. CASE CallReturns
  BY <1>14, Typed DEF CallReturns, ScheduleNext, AfterWork, ScheduleNextIn, Contract!Cancelled,
     Contract!Resolved, Contract!Steps
<1>15. CASE Tick
  BY <1>15, Typed DEF Tick
<1>16. CASE RetryFires
  BY <1>16, Typed DEF RetryFires, DoWork, MayWork
<1>17. ASSUME NEW s \in Seeker, DiscoveryFires(s) PROVE Kept
  BY <1>17, Typed DEF DiscoveryFires, StartCycle
<1>18. ASSUME NEW s \in Seeker, TriggerDiscovery(s) PROVE Kept
  BY <1>18, Typed DEF TriggerDiscovery, StartCycle
<1>19. ASSUME NEW s \in Seeker, CycleAborts(s) PROVE Kept
  BY <1>19, Typed DEF CycleAborts, Rest
<1>20. ASSUME NEW s \in Seeker, CycleCalled(s) PROVE Kept
  BY <1>20, Typed DEF CycleCalled, ScheduleNext, NextPeer, ScheduleNextIn
<1>21. ASSUME NEW s \in Seeker, Probe(s) PROVE Kept
  BY <1>21, Typed DEF Probe, EndCycle, NextPeer, Rest, ScheduleNext, DoWork, ScheduleNextIn, MayWork
<1>22. ASSUME NEW s \in Seeker, ProbeAnswered(s) PROVE Kept
  <2>1. CASE SetErrorApart(call)
    BY <1>22, <2>1, TypeStep, Fails DEF ProbeAnswered, SetErrorApart, Pending
  <2>2. CASE ~SetErrorApart(call)
    BY <1>22, <2>2 DEF ProbeAnswered, Kept, contract
  <2>. QED BY <1>22, <2>1, <2>2
<1>23. ASSUME NEW s \in Seeker, ProbeImports(s) PROVE Kept
  BY <1>23, Typed, Transitions DEF ProbeImports, Import, NextPeer, Contract!Overtaken,
     Contract!Steps
<1>24. ASSUME NEW s \in Seeker, ProbeDialed(s) PROVE Kept
  BY <1>24, Typed DEF ProbeDialed, NextPeer
<1>25. ASSUME NEW h \in Hearer, HaveArrives(h) PROVE Kept
  BY <1>25, Typed DEF HaveArrives
<1>26. ASSUME NEW h \in Hearer, HaveDialed(h) PROVE Kept
  BY <1>26, Typed DEF HaveDialed, DoWork, MayWork
<1>27. CASE Disable
  BY <1>27, TypeStep, Pauses DEF Disable, actorVars
<1>28. CASE Enable
  BY <1>28, Typed DEF Enable
<1>29. CASE Enabled
  <2>1. CASE SetErrorApart(call)
    BY <1>29, <2>1, TypeStep, Fails DEF Enabled, SetErrorApart, Pending
  <2>2. CASE ~SetErrorApart(call)
    <3>1. disabled' = FALSE /\ UNCHANGED <<destroyed, destroying, call>>
      BY <1>29, <2>2 DEF Enabled
    <3>2. state # "error" => state' = state
      BY <1>29, <2>2 DEF Enabled
    <3>3. state = "error" => state' \in {"downloading", "preparing"}
      BY <1>29, <2>2, Transitions, Typed DEF Enabled
    <3>. QED BY <3>1, <3>2, <3>3, TypeStep, Resumes
  <2>. QED BY <2>1, <2>2
<1>30. CASE ShoutReturns
  BY <1>30, Typed DEF ShoutReturns, ScheduleNext, ScheduleNextIn
<1>31. CASE Destroy
  BY <1>31, TypeStep, IsTakenDown DEF Destroy, Phases, Pending
<1>32. CASE DestroyReturns
  <2>1. call \in Call \ Pending
    BY <1>32 DEF DestroyReturns, Tracked, Phases, Pending, TypeOK
  <2>. QED BY <1>32, <2>1, TypeStep, Quietens DEF DestroyReturns, flagVars, Phases
<1>33. ASSUME NEW p \in Peer, DropPeer(p) PROVE Kept
  BY <1>33, Typed DEF DropPeer
<1>34. ASSUME NEW f \in File, FileDeleted(f) PROVE Kept
  BY <1>34, Typed DEF FileDeleted
<1>35. CASE UNCHANGED vars
  BY <1>35, Typed DEF vars
<1>. QED BY <1>1, <1>2, <1>3, <1>4, <1>5, <1>6, <1>7, <1>8, <1>9, <1>10, <1>11, <1>12, <1>13, <1>14,
          <1>15, <1>16, <1>17, <1>18, <1>19, <1>20, <1>21, <1>22, <1>23, <1>24, <1>25, <1>26, <1>27,
          <1>28, <1>29, <1>30, <1>31, <1>32, <1>33, <1>34, <1>35
       DEF Next, Work, Cycle

\* Every behaviour of a download is one the transfer layer may rely on: what it is written
\* over, DownloadContract, is implemented (downloader.ts, api/transfer.ts).
THEOREM Implements == Spec => KeepsContract
<1>1. Init => Contract!Init
  BY DEF Init, contract, Contract!Init, Contract!Made
<1>2. Inv /\ [Next]_vars => [Contract!Next]_contract
  BY ContractStep DEF Inv, Kept, Contract!Next
<1>. QED BY <1>1, <1>2, Invariant, PTL DEF Spec, KeepsContract, Contract!Spec

\* Numbers, if there are any, have a least one.
LEMMA LeastOf ==
  ASSUME NEW S \in SUBSET Nat, S # {}
  PROVE  \E x \in S : \A y \in S : x <= y
<1>1. OpToRel(<, Nat) = {ss \in Nat \X Nat : ss[1] < ss[2]}
  BY Zenon DEF OpToRel
<1>2. PICK x \in S : \A y \in S : <<y, x>> \notin {ss \in Nat \X Nat : ss[1] < ss[2]}
  <2>1. IsWellFoundedOn({ss \in Nat \X Nat : ss[1] < ss[2]}, Nat)
    BY NatLessThanWellFounded, <1>1, Zenon
  <2>2. QED
    BY <2>1, WFMin, Zenon
<1>3. ASSUME NEW y \in S PROVE x <= y
  <2>1. x \in Nat /\ y \in Nat
    OBVIOUS
  <2>2. ~(y < x)
    BY <1>2, <2>1, Zenon
  <2>3. QED
    BY <2>1, <2>2
<1>4. QED
  BY <1>3, Zenon

-----------------------------------------------------------------------------
(***************************************************************************)
(* The store: its verifications.  Why a LISH is busy: it waits for its     *)
(* verification or is the one that is verified, or a call that moves it    *)
(* or deletes its data is at work.                                         *)
(***************************************************************************)

RunType == [at : {"idle", "look", "read", "mark", "ended"}, lish : Lish, aborted : BOOLEAN,
            dir : Place \cup {Nowhere}, gen : 0 .. MaxEvents + 1, left : SUBSET Piece, ok : BOOLEAN]
Reasons == {"no", "verifying", "moving", "deleting"}
VerType == [current : Run \cup {None}, queue : Seq(Lish), runs : [Run -> RunType], stopping : BOOLEAN,
            stops : SUBSET {"user", "reset"}, busy : [Lish -> Reasons]]
ActiveOf(v) == {r \in Run : v.runs[r].at # "idle"}
RunsKept(v) ==
  /\ v.current # None => v.current \in ActiveOf(v)
  /\ \A r \in ActiveOf(v) : ~v.runs[r].aborted => v.current = r
  /\ \A r \in Run : v.runs[r].at \in {"look", "read", "mark"} => v.runs[r].left # {}
StopsKept(v) == v.stopping => v.stops # {}
\* The runs that gave way to others.
Spare(v) == ActiveOf(v) \ {v.current}
\* The verifications but for why a LISH is busy, with at most n runs left behind.
VerShape(v, n) ==
  v \in VerType /\ IsInjective(v.queue) /\ RunsKept(v) /\ StopsKept(v) /\ Cardinality(Spare(v)) <= n
VerifyingBut(v, L) == \A l \in Lish \ L : v.busy[l] = "verifying" => l \in Range(v.queue) \/ IsCurrent(v, l)
VerKept(v, n) == VerShape(v, n) /\ VerifyingBut(v, {})
Watched(v) == v.queue # <<>> => ActiveOf(v) # {} \/ v.stops # {}

RowType == [on : BOOLEAN, dir : Place \cup {Nowhere}, final : Place \cup {Nowhere}, gen : 0 .. MaxEvents + 1]
RowsAre(rows) == rows \in [Lish -> RowType] /\ \A l \in Lish : rows[l].on => rows[l].dir \in Place

OpType == [at : {"idle", "scan", "fetch", "mkdir", "undownload", "unlink", "copy", "rename"}, lish : Lish,
           left : SUBSET Piece, from : Place \cup {Nowhere}, to : Place \cup {Nowhere}, wipe : BOOLEAN,
           then : {"nothing", "cancelled", "share", "download", "drop", "reset", "moved", "finalized"}]
\* What a call is for, where it is, and where it has files to read or to remove.
OpFits(rec) ==
  CASE rec.at = "scan" -> rec.then \in {"nothing", "cancelled"}
    [] rec.at \in {"fetch", "mkdir"} -> rec.then \in {"share", "download"}
    [] rec.at = "undownload" -> rec.then \in {"drop", "reset"} /\ rec.from \in Place
    [] rec.at = "unlink" -> /\ rec.then \in {"drop", "reset", "moved", "finalized"} /\ rec.from \in Place
                            /\ rec.then = "moved" => rec.to \in Place
    [] rec.at = "copy" -> rec.then \in {"moved", "finalized"} /\ rec.from \in Place /\ rec.to \in Place
    [] rec.at = "rename" -> rec.then = "finalized" /\ rec.from \in Place /\ rec.to \in Place
    [] rec.at = "idle" -> TRUE
OpsKept == op \in [Op -> OpType] /\ \A o \in Op : OpFits(op[o])
CreationKept == creation \in Op \cup {None} /\ (creation # None => op[creation].at = "scan")

Works(l, kinds) == \E o \in Op : op[o].at # "idle" /\ op[o].lish = l /\ op[o].then \in kinds
BusyKept ==
  \A l \in Lish : /\ ver.busy[l] = "moving" => Works(l, {"moved", "finalized"})
                  /\ ver.busy[l] = "deleting" => Works(l, {"reset"})

GateKept ==
  /\ gate \in [closed : BOOLEAN, phase : {"open", "draining", "stopping", "quiet"}, used : BOOLEAN]
  /\ gate.closed <=> gate.phase # "open"
  /\ gate.closed => gate.used
  /\ gate.phase \in {"stopping", "quiet"} => Admitted = {} /\ ver.queue = <<>>
  /\ "reset" \in ver.stops => gate.phase = "stopping"

\* A generation comes of a call that is still to make it, or has.
Making(l) == {o \in Op : op[o].lish = l /\ op[o].at \in {"scan", "fetch", "mkdir"}}
GenKept == \A l \in Lish : row[l].gen + Cardinality(Making(l)) <= events + 1

FlagsKept == flagged \in [Lish -> SUBSET Piece]
DiskKept == onDisk \in [Lish -> [Place -> [Piece -> {"none", "empty", "data"}]]]
PlainKept ==
  /\ mine \subseteq Mine /\ sharing \subseteq Lish /\ moving \subseteq Lish
  /\ writer \in [Lish -> Place \cup {Nowhere}]
  /\ reader.on => reader.lish \in Lish /\ reader.piece \in Piece

CoreInv ==
  /\ RowsAre(row) /\ OpsKept /\ CreationKept /\ GenKept /\ events \in 0 .. MaxEvents
  /\ VerKept(ver, events) /\ QueueIsWatched /\ BusyKept /\ GateKept
CrossedKept == crossed \subseteq Lish
StoreInv == CoreInv /\ FlagsKept /\ DiskKept /\ PlainKept /\ CrossedKept

-----------------------------------------------------------------------------
(* Sequences without repetitions, such as the queue of the verifications.  *)

LEMMA LeftOutAt ==
  ASSUME NEW S, NEW s \in Seq(S), IsInjective(s), NEW i \in 1 .. Len(s)
  PROVE  /\ RemoveAt(s, i) \in Seq(S) /\ IsInjective(RemoveAt(s, i))
         /\ Range(RemoveAt(s, i)) = Range(s) \ {s[i]}
<1> DEFINE last == Len(s)
           t == RemoveAt(s, i)
           place(k) == IF k < i THEN k ELSE k + 1
<1>1. last \in Nat /\ DOMAIN s = 1 .. last /\ i \in 1 .. last /\ \A k \in 1 .. last : s[k] \in S
  BY LenProperties, ElementOfSeq
<1> HIDE DEF last
<1>2. /\ SubSeq(s, 1, i - 1) \in Seq(S) /\ Len(SubSeq(s, 1, i - 1)) = i - 1
      /\ \A k \in 1 .. i - 1 : SubSeq(s, 1, i - 1)[k] = s[k]
  BY <1>1, SubSeqProperties
<1>3. /\ SubSeq(s, i + 1, last) \in Seq(S) /\ Len(SubSeq(s, i + 1, last)) = last - i
      /\ \A k \in 1 .. last - i : SubSeq(s, i + 1, last)[k] = s[i + k]
  BY <1>1, SubSeqProperties
<1>4. t = SubSeq(s, 1, i - 1) \o SubSeq(s, i + 1, last)
  BY DEF RemoveAt, last
<1> HIDE DEF t
<1>5. t \in Seq(S) /\ Len(t) = last - 1
  BY <1>1, <1>2, <1>3, <1>4, ConcatProperties
<1>6. DOMAIN t = 1 .. last - 1
  BY <1>5, LenProperties
<1>7. \A k \in 1 .. last - 1 : t[k] = s[place(k)] /\ place(k) \in 1 .. last /\ place(k) # i
  <2> SUFFICES ASSUME NEW k \in 1 .. last - 1
               PROVE  t[k] = s[place(k)] /\ place(k) \in 1 .. last /\ place(k) # i
    OBVIOUS
  <2>1. t[k] = IF k <= i - 1 THEN SubSeq(s, 1, i - 1)[k] ELSE SubSeq(s, i + 1, last)[k - (i - 1)]
    <3> DEFINE f == SubSeq(s, 1, i - 1)
               g == SubSeq(s, i + 1, last)
    <3>1. k \in 1 .. Len(f) + Len(g) /\ f \in Seq(S) /\ g \in Seq(S) /\ Len(f) = i - 1
      BY <1>1, <1>2, <1>3
    <3>2. t = f \o g
      BY <1>4
    <3> HIDE DEF f, g
    <3>3. (f \o g)[k] = IF k <= Len(f) THEN f[k] ELSE g[k - Len(f)]
      BY <3>1, ConcatProperties
    <3>4. t[k] = IF k <= i - 1 THEN f[k] ELSE g[k - (i - 1)]
      BY <3>1, <3>2, <3>3
    <3>5. QED
      BY <3>4 DEF f, g
  <2>2. CASE k < i
    BY <1>1, <1>2, <2>1, <2>2
  <2>3. CASE ~(k < i)
    <3>1. k - (i - 1) \in 1 .. last - i /\ i + (k - (i - 1)) = k + 1
      BY <1>1, <2>3
    <3>2. SubSeq(s, i + 1, last)[k - (i - 1)] = s[k + 1]
      BY <1>3, <3>1
    <3>3. QED
      BY <1>1, <2>1, <2>3, <3>2
  <2>4. QED
    BY <2>2, <2>3
<1>8. IsInjective(t)
  <2> SUFFICES ASSUME NEW j \in 1 .. last - 1, NEW k \in 1 .. last - 1, t[j] = t[k]
               PROVE  j = k
    BY <1>6 DEF IsInjective
  <2>1. place(j) = place(k)
    <3> HIDE DEF place
    <3>1. QED
      BY <1>1, <1>7 DEF IsInjective
  <2>2. QED
    BY <1>1, <2>1
<1>9. Range(t) = Range(s) \ {s[i]}
  <2>1. ASSUME NEW x \in Range(t) PROVE x \in Range(s) /\ x # s[i]
    <3>1. PICK k \in 1 .. last - 1 : x = t[k]
      BY <1>6 DEF Range
    <3> HIDE DEF place
    <3>2. x = s[place(k)] /\ place(k) \in 1 .. last /\ place(k) # i
      BY <1>7, <3>1
    <3>3. QED
      BY <1>1, <3>2 DEF Range, IsInjective
  <2>2. ASSUME NEW x \in Range(s), x # s[i] PROVE x \in Range(t)
    <3>1. PICK k \in 1 .. last : x = s[k]
      BY <1>1 DEF Range
    <3>2. k # i
      BY <2>2, <3>1
    <3> DEFINE there == IF k < i THEN k ELSE k - 1
    <3>3. there \in 1 .. last - 1 /\ place(there) = k
      BY <1>1, <3>2
    <3> HIDE DEF there, place
    <3>4. t[there] = x
      BY <1>7, <3>1, <3>3
    <3>5. QED
      BY <1>6, <3>3, <3>4 DEF Range
  <2>3. QED
    BY <2>1, <2>2
<1>10. QED
  BY <1>5, <1>8, <1>9 DEF t

LEMMA LeftOut ==
  ASSUME NEW S, NEW s \in Seq(S), IsInjective(s), NEW e
  PROVE  /\ RemoveFirst(s, e) \in Seq(S) /\ IsInjective(RemoveFirst(s, e))
         /\ Range(RemoveFirst(s, e)) = Range(s) \ {e}
<1>1. Len(s) \in Nat /\ DOMAIN s = 1 .. Len(s)
  BY LenProperties
<1>2. CASE \E i \in 1 .. Len(s) : s[i] = e
  <2> DEFINE I == {i \in 1 .. Len(s) : s[i] = e}
  <2>1. PICK k \in I : \A j \in I : k <= j
    <3>1. I \in SUBSET Nat /\ I # {}
      BY <1>1, <1>2
    <3>2. QED
      BY <3>1, LeastOf
  <2>2. Min(I) \in I
    BY <2>1, Zenon DEF Min
  <2>3. SelectInSeq(s, LAMBDA v : v = e) = Min(I)
    BY <2>2, Zenon DEF SelectInSeq
  <2>4. PICK i \in 1 .. Len(s) : s[i] = e /\ RemoveFirst(s, e) = RemoveAt(s, i)
    BY <1>2, <2>2, <2>3 DEF RemoveFirst
  <2>5. QED
    BY <2>4, LeftOutAt
<1>3. CASE ~\E i \in 1 .. Len(s) : s[i] = e
  <2>1. RemoveFirst(s, e) = s
    BY <1>3 DEF RemoveFirst
  <2>2. e \notin Range(s)
    BY <1>1, <1>3 DEF Range
  <2>3. QED
    BY <2>1, <2>2
<1>4. QED
  BY <1>2, <1>3

LEMMA OneMore ==
  ASSUME NEW S, NEW s \in Seq(S), IsInjective(s), NEW e \in S, e \notin Range(s)
  PROVE  /\ Append(s, e) \in Seq(S) /\ IsInjective(Append(s, e))
         /\ Range(Append(s, e)) = Range(s) \cup {e}
<1> DEFINE last == Len(s)
           t == Append(s, e)
<1>1. last \in Nat /\ DOMAIN s = 1 .. last
  BY LenProperties
<1>2. t \in Seq(S) /\ Len(t) = last + 1 /\ (\A k \in 1 .. last : t[k] = s[k]) /\ t[last + 1] = e
  BY AppendProperties
<1>3. DOMAIN t = 1 .. last + 1
  BY <1>2, LenProperties
<1> HIDE DEF last, t
<1>4. \A k \in 1 .. last : s[k] # e
  BY <1>1 DEF Range
<1>5. IsInjective(t)
  <2> SUFFICES ASSUME NEW j \in 1 .. last + 1, NEW k \in 1 .. last + 1, t[j] = t[k]
               PROVE  j = k
    BY <1>3 DEF IsInjective
  <2>1. /\ j = last + 1 \/ j \in 1 .. last
        /\ k = last + 1 \/ k \in 1 .. last
    BY <1>1
  <2>2. QED
    BY <1>1, <1>2, <1>4, <2>1 DEF IsInjective
<1>6. Range(t) = Range(s) \cup {e}
  <2>1. 1 .. last + 1 = (1 .. last) \cup {last + 1}
    BY <1>1
  <2>2. QED
    BY <1>1, <1>2, <1>3, <2>1 DEF Range
<1>7. QED
  BY <1>2, <1>5, <1>6 DEF t

LEMMA OneLess ==
  ASSUME NEW S, NEW s \in Seq(S), IsInjective(s), s # <<>>
  PROVE  /\ Head(s) \in S /\ Tail(s) \in Seq(S) /\ IsInjective(Tail(s))
         /\ Range(s) = Range(Tail(s)) \cup {Head(s)}
<1> DEFINE last == Len(s)
           t == Tail(s)
<1>1. last \in Nat /\ DOMAIN s = 1 .. last /\ last > 0
  BY LenProperties, EmptySeq
<1>2. t \in Seq(S) /\ Len(t) = last - 1 /\ (\A k \in 1 .. last - 1 : t[k] = s[k + 1]) /\ Head(s) \in S
  BY HeadTailProperties
<1>3. DOMAIN t = 1 .. last - 1
  BY <1>2, LenProperties
<1>4. Head(s) = s[1]
  <2>1. 1 \in 1 .. last /\ last \in 1 .. last
    BY <1>1
  <2>2. Head(SubSeq(s, 1, last)) = s[1] /\ SubSeq(s, 1, last) = s
    BY <2>1, HeadTailOfSubSeq, SubSeqFull
  <2>3. QED
    BY <2>2, Zenon
<1> HIDE DEF last, t
<1>5. IsInjective(t)
  <2> SUFFICES ASSUME NEW j \in 1 .. last - 1, NEW k \in 1 .. last - 1, t[j] = t[k]
               PROVE  j = k
    BY <1>3 DEF IsInjective
  <2>1. s[j + 1] = s[k + 1] /\ j + 1 \in 1 .. last /\ k + 1 \in 1 .. last
    BY <1>1, <1>2
  <2>2. j + 1 = k + 1
    BY <1>1, <2>1 DEF IsInjective
  <2>3. QED
    BY <1>1, <2>2
<1>6. Range(s) = Range(t) \cup {Head(s)}
  <2>1. ASSUME NEW x \in Range(s) PROVE x \in Range(t) \/ x = Head(s)
    <3>1. PICK k \in 1 .. last : x = s[k]
      BY <1>1 DEF Range
    <3>2. CASE k = 1
      BY <1>4, <3>1, <3>2
    <3>3. CASE k # 1
      <4>1. k - 1 \in 1 .. last - 1 /\ (k - 1) + 1 = k
        BY <1>1, <3>3
      <4>2. t[k - 1] = x
        BY <1>2, <3>1, <4>1
      <4>3. QED
        BY <1>3, <4>1, <4>2 DEF Range
    <3>4. QED
      BY <3>2, <3>3
  <2>2. ASSUME NEW x \in Range(t) PROVE x \in Range(s)
    <3>1. PICK k \in 1 .. last - 1 : x = t[k]
      BY <1>3 DEF Range
    <3>2. k + 1 \in 1 .. last /\ x = s[k + 1]
      BY <1>1, <1>2, <3>1
    <3>3. QED
      BY <1>1, <3>2 DEF Range
  <2>3. Head(s) \in Range(s)
    BY <1>1, <1>4 DEF Range
  <2>4. QED
    BY <2>1, <2>2, <2>3
<1>7. QED
  BY <1>2, <1>5, <1>6 DEF t

LEMMA NothingIn ==
  ASSUME NEW S, NEW s \in Seq(S)
  PROVE  s = <<>> <=> Range(s) = {}
<1>1. DOMAIN s = 1 .. Len(s) /\ Len(s) \in Nat
  BY LenProperties
<1>2. CASE s = <<>>
  <2>1. Len(s) = 0
    BY <1>2, EmptySeq
  <2>2. DOMAIN s = {}
    BY <1>1, <2>1
  <2>3. QED
    BY <1>2, <2>2 DEF Range
<1>3. CASE s # <<>>
  <2>1. Len(s) \in Nat \ {0}
    BY <1>3, EmptySeq
  <2>2. 1 \in DOMAIN s
    BY <1>1, <2>1
  <2>3. QED
    BY <1>3, <2>2 DEF Range
<1>4. QED
  BY <1>2, <1>3

-----------------------------------------------------------------------------
(* The verification queue: what its functions keep.                        *)

SameRuns(v, w) ==
  w.current = v.current /\ w.runs = v.runs /\ w.stopping = v.stopping /\ w.stops = v.stops

LEMMA ShapeKept ==
  ASSUME NEW n, NEW v, VerShape(v, n), NEW w \in VerType, SameRuns(v, w), IsInjective(w.queue)
  PROVE  VerShape(w, n) /\ ActiveOf(w) = ActiveOf(v) /\ \A l : IsCurrent(w, l) <=> IsCurrent(v, l)
<1>1. ActiveOf(w) = ActiveOf(v)
  BY DEF ActiveOf, SameRuns
<1>2. Spare(w) = Spare(v)
  BY <1>1 DEF Spare, SameRuns
<1>3. RunsKept(w)
  BY <1>1 DEF RunsKept, SameRuns, VerShape
<1>4. StopsKept(w)
  BY DEF StopsKept, SameRuns, VerShape
<1>5. \A l : IsCurrent(w, l) <=> IsCurrent(v, l)
  BY DEF IsCurrent, SameRuns
<1>6. QED
  BY <1>1, <1>2, <1>3, <1>4, <1>5 DEF VerShape

LEMMA BusyIs ==
  ASSUME NEW v \in VerType, NEW l \in Lish, NEW reason \in Reasons
  PROVE  LET w == SetBusy(v, l, reason) IN
         w \in VerType /\ SameRuns(v, w) /\ w.queue = v.queue
         /\ \A x \in Lish : w.busy[x] = IF x = l THEN reason ELSE v.busy[x]
  BY DEF SetBusy, VerType, SameRuns

LEMMA ClearIs ==
  ASSUME NEW v \in VerType, NEW l \in Lish
  PROVE  ClearBusy(v, l) = SetBusy(v, l, "no")
  BY DEF SetBusy, ClearBusy

LEMMA DequeueIs ==
  ASSUME NEW v \in VerType, IsInjective(v.queue), NEW l \in Lish
  PROVE  LET w == Dequeue(v, l) IN
         /\ w \in VerType /\ SameRuns(v, w) /\ w.busy = v.busy /\ IsInjective(w.queue)
         /\ Range(w.queue) = Range(v.queue) \ {l}
<1>1. v.queue \in Seq(Lish)
  BY DEF VerType
<1> DEFINE q == RemoveFirst(v.queue, l)
<1>2. q \in Seq(Lish) /\ IsInjective(q) /\ Range(q) = Range(v.queue) \ {l}
  BY <1>1, LeftOut
<1>3. Dequeue(v, l) = [v EXCEPT !.queue = q]
  BY DEF Dequeue
<1> HIDE DEF q
<1>4. QED
  BY <1>2, <1>3 DEF VerType, SameRuns

\* What the functions keep of a run: all but its being told to stop.
LEMMA AbortIs ==
  ASSUME NEW n, NEW v, VerShape(v, n), NEW l \in Lish
  PROVE  LET w == AbortCurrent(v, l) IN
         /\ VerShape(w, n) /\ ActiveOf(w) = ActiveOf(v) /\ w.current = v.current /\ w.queue = v.queue
         /\ w.busy = v.busy /\ w.stops = v.stops /\ w.stopping = v.stopping
         /\ \A x : IsCurrent(w, x) <=> IsCurrent(v, x)
         /\ IsCurrent(v, l) => w.runs[v.current].aborted
         /\ \A r \in Run : w.runs[r] = v.runs[r] \/ r = v.current
<1> DEFINE w == AbortCurrent(v, l)
<1>1. CASE ~IsCurrent(v, l)
  BY <1>1 DEF AbortCurrent
<1>2. CASE IsCurrent(v, l)
  <2> DEFINE c == v.current
             run == [v.runs[c] EXCEPT !.aborted = TRUE]
  <2>1. c \in Run /\ v.runs \in [Run -> RunType] /\ v \in VerType
    BY <1>2 DEF IsCurrent, VerShape, VerType
  <2>2. run \in RunType /\ run.at = v.runs[c].at /\ run.lish = v.runs[c].lish /\ run.aborted /\ run.left = v.runs[c].left
    BY <2>1 DEF RunType
  <2>3. w = [v EXCEPT !.runs[c] = run]
    BY <1>2 DEF AbortCurrent
  <2> HIDE DEF w, run
  <2>4. /\ w \in VerType /\ w.runs = [v.runs EXCEPT ![c] = run] /\ w.current = v.current /\ w.queue = v.queue
        /\ w.busy = v.busy /\ w.stops = v.stops /\ w.stopping = v.stopping
    BY <2>1, <2>2, <2>3 DEF VerType
  <2> HIDE DEF c
  <2>5. /\ \A r \in Run : r # c => w.runs[r] = v.runs[r]
        /\ w.runs[c] = run
    BY <2>1, <2>4
  <2>6. ActiveOf(w) = ActiveOf(v)
    BY <2>1, <2>2, <2>5 DEF ActiveOf
  <2>7. \A x : IsCurrent(w, x) <=> IsCurrent(v, x)
    BY <2>1, <2>2, <2>4, <2>5 DEF IsCurrent, c
  <2>8. RunsKept(w)
    <3>1. RunsKept(v)
      BY DEF VerShape
    <3>2. ASSUME NEW r \in Run PROVE w.runs[r].at = v.runs[r].at /\ w.runs[r].left = v.runs[r].left
                                     /\ (v.runs[r].aborted => w.runs[r].aborted)
      BY <2>1, <2>2, <2>5
    <3>3. ActiveOf(v) \subseteq Run
      BY DEF ActiveOf
    <3>4. QED
      BY <2>4, <2>6, <3>1, <3>2, <3>3 DEF RunsKept
  <2>9. StopsKept(w) /\ Spare(w) = Spare(v)
    BY <2>4, <2>6 DEF StopsKept, Spare, VerShape
  <2>10. VerShape(w, n)
    BY <2>4, <2>8, <2>9 DEF VerShape
  <2>11. QED
    BY <2>2, <2>4, <2>5, <2>6, <2>7, <2>10 DEF w, c
<1>3. QED
  BY <1>1, <1>2

LEMMA RunsAreFew == /\ IsFiniteSet(Run) /\ Cardinality(Run) = MaxRuns
                    /\ \A R \in SUBSET Run : IsFiniteSet(R) /\ Cardinality(R) \in Nat
<1>1. IsFiniteSet(Run) /\ Cardinality(Run) = MaxRuns
  BY FS_Interval, StoreAssumption DEF Run
<1>2. QED
  BY <1>1, FS_Subset, FS_CardinalityType

\* A current run that gives way is one more left behind.
LEMMA ForgetIs ==
  ASSUME NEW n \in Nat, NEW v, VerShape(v, n), NEW l \in Lish
  PROVE  LET w == ForgetCurrent(v, l) IN
         /\ VerShape(w, n + 1) /\ ActiveOf(w) = ActiveOf(v) /\ w.queue = v.queue
         /\ w.busy = v.busy /\ w.stops = v.stops /\ ~IsCurrent(w, l)
         /\ \A x : x # l => (IsCurrent(w, x) <=> IsCurrent(v, x))
<1> DEFINE w == ForgetCurrent(v, l)
<1>0. Cardinality(Spare(v)) \in Nat /\ Cardinality(Spare(v)) <= n
  BY RunsAreFew DEF Spare, ActiveOf, VerShape
<1>1. CASE ~IsCurrent(v, l)
  <2>1. w = v
    BY <1>1 DEF ForgetCurrent
  <2>2. VerShape(v, n + 1)
    BY <1>0 DEF VerShape
  <2>3. QED
    BY <1>1, <2>1, <2>2
<1>2. CASE IsCurrent(v, l)
  <2> DEFINE a == AbortCurrent(v, l)
  <2>1. /\ VerShape(a, n) /\ ActiveOf(a) = ActiveOf(v) /\ a.queue = v.queue /\ a.current = v.current
        /\ a.busy = v.busy /\ a.stops = v.stops /\ a.stopping = v.stopping
        /\ a.runs[a.current].aborted
        /\ a.current # None /\ \A x : IsCurrent(a, x) <=> IsCurrent(v, x)
    BY <1>2, AbortIs DEF IsCurrent
  <2>2. w = [a EXCEPT !.current = None]
    BY <1>2 DEF ForgetCurrent
  <2> HIDE DEF a, w
  <2>3. /\ w \in VerType /\ w.current = None /\ w.runs = a.runs /\ w.queue = a.queue /\ w.busy = a.busy
        /\ w.stops = a.stops /\ w.stopping = a.stopping
    BY <2>1, <2>2 DEF VerShape, VerType
  <2>4. ActiveOf(w) = ActiveOf(a)
    BY <2>3 DEF ActiveOf
  <2>5. RunsKept(w)
    BY <2>1, <2>3, <2>4 DEF RunsKept, VerShape
  <2>6. Cardinality(Spare(w)) <= n + 1
    <3>1. Spare(w) \subseteq Spare(v) \cup {v.current}
      BY <2>1, <2>4 DEF Spare
    <3>2. IsFiniteSet(Spare(v))
      BY RunsAreFew DEF Spare, ActiveOf
    <3> DEFINE S == Spare(v)
    <3> HIDE DEF S
    <3>3. IsFiniteSet(S \cup {v.current}) /\ Cardinality(S \cup {v.current}) \in {Cardinality(S), Cardinality(S) + 1}
      BY <3>2, FS_AddElement DEF S
    <3>4. Cardinality(Spare(w)) <= Cardinality(S \cup {v.current}) /\ Cardinality(Spare(w)) \in Nat
      <4>1. Spare(w) \in SUBSET (S \cup {v.current})
        BY <3>1 DEF S
      <4>2. QED
        BY <3>3, <4>1, FS_Subset, FS_CardinalityType
    <3>5. Cardinality(S) \in Nat /\ Cardinality(S) <= n
      BY <1>0 DEF S
    <3>6. QED
      BY <3>3, <3>4, <3>5
  <2>7. VerShape(w, n + 1)
    BY <2>1, <2>3, <2>5, <2>6 DEF VerShape, StopsKept
  <2>8. \A x : ~IsCurrent(w, x)
    BY <2>3 DEF IsCurrent
  <2>9. \A x : x # l => ~IsCurrent(v, x)
    BY <1>2 DEF IsCurrent
  <2>10. QED
    BY <2>1, <2>3, <2>4, <2>7, <2>8, <2>9 DEF w
<1>3. QED
  BY <1>1, <1>2

\* There is a run left, for those at work were left behind by events.
LEMMA FreeRunIs ==
  ASSUME NEW n \in 0 .. MaxEvents, NEW v, VerShape(v, n), v.current = None
  PROVE  FreeRun(v) \in Run /\ v.runs[FreeRun(v)].at = "idle"
<1> DEFINE idle == {r \in Run : v.runs[r].at = "idle"}
<1>1. idle # {}
  <2> SUFFICES ASSUME idle = {} PROVE FALSE
    OBVIOUS
  <2>1. ActiveOf(v) = Run
    BY DEF ActiveOf
  <2>2. None \notin Run
    BY DEF None, Run
  <2>3. Spare(v) = Run
    BY <2>1, <2>2 DEF Spare
  <2>4. MaxRuns <= n
    BY <2>3, RunsAreFew DEF VerShape
  <2>5. QED
    BY <2>4, StoreAssumption
<1>2. idle \in SUBSET Nat
  BY DEF Run
<1>3. PICK x \in idle : \A y \in idle : x <= y
  BY <1>1, <1>2, LeastOf
<1>4. x \in Run /\ v.runs[x].at = "idle" /\ \A q \in 1 .. x - 1 : v.runs[q].at # "idle"
  <2>1. x \in Run /\ v.runs[x].at = "idle"
    BY <1>3
  <2>2. ASSUME NEW q \in 1 .. x - 1 PROVE v.runs[q].at # "idle"
    <3>1. q \in Run /\ ~(x <= q)
      BY <2>1, StoreAssumption DEF Run
    <3>2. QED
      BY <1>3, <3>1
  <2>3. QED
    BY <2>1, <2>2
<1>5. QED
  BY <1>4, Zenon DEF FreeRun

\* A run that begins looks for its first file, or ends where the LISH is gone.
LEMMA BegunIs ==
  ASSUME RowsAre(row'), NEW l \in Lish
  PROVE  /\ Begun(l) \in RunType /\ Begun(l).lish = l /\ Begun(l).at \in {"look", "ended"} /\ Begun(l).left # {}
         /\ Begun(l).at = "look" => Begun(l).dir \in Place
<1>1. row'[l].dir \in Place \cup {Nowhere} /\ row'[l].gen \in 0 .. MaxEvents + 1 /\ (row'[l].on => row'[l].dir \in Place)
  BY DEF RowsAre, RowType
<1>2. Piece # {}
  BY StoreAssumption
<1>3. QED
  BY <1>1, <1>2 DEF Begun, NoRun, RunType

\* What a function makes of the reasons of the LISHs: they stay, or are to be verified.
OnlyVerifies(v, w) == \A x \in Lish : w.busy[x] = v.busy[x] \/ w.busy[x] \in {"no", "verifying"}

LEMMA ProcessKeeps ==
  ASSUME RowsAre(row'), NEW n \in 0 .. MaxEvents, NEW v, VerKept(v, n)
  PROVE  /\ VerKept(Process(v), n) /\ Watched(Process(v)) /\ OnlyVerifies(v, Process(v))
         /\ Process(v).stops = v.stops /\ Range(Process(v).queue) \subseteq Range(v.queue)
<1> DEFINE w == Process(v)
<1>0. v \in VerType
  BY DEF VerKept, VerShape
<1>1. CASE v.stopping \/ v.current # None \/ v.queue = <<>>
  <2>1. w = v
    BY <1>1 DEF Process
  <2>2. Watched(v)
    <3>1. v.stopping => v.stops # {}
      BY DEF VerKept, VerShape, StopsKept
    <3>2. v.current # None => ActiveOf(v) # {}
      BY DEF VerKept, VerShape, RunsKept
    <3>3. QED
      BY <1>1, <3>1, <3>2 DEF Watched
  <2>3. QED
    BY <2>1, <2>2 DEF OnlyVerifies
<1>2. CASE ~(v.stopping \/ v.current # None \/ v.queue = <<>>)
  <2> DEFINE l == Head(v.queue)
             r == FreeRun(v)
             b == Begun(l)
  <2>1. VerShape(v, n) /\ v.current = None
    BY <1>2 DEF VerKept
  <2>2. r \in Run /\ v.runs[r].at = "idle"
    BY <2>1, FreeRunIs
  <2>3. /\ l \in Lish /\ Tail(v.queue) \in Seq(Lish) /\ IsInjective(Tail(v.queue))
        /\ Range(v.queue) = Range(Tail(v.queue)) \cup {l}
    <3>1. v.queue \in Seq(Lish) /\ IsInjective(v.queue) /\ v.queue # <<>>
      BY <1>2, <1>0, <2>1 DEF VerShape, VerType
    <3>2. QED
      BY <3>1, OneLess
  <2>4. b \in RunType /\ b.lish = l /\ b.at \in {"look", "ended"} /\ b.left # {}
    <3>1. l \in Lish
      BY <2>3
    <3> HIDE DEF l
    <3>2. QED
      BY <3>1, BegunIs
  <2>5. w = SetBusy([v EXCEPT !.queue = Tail(@), !.current = r, !.runs[r] = b], l, "verifying")
    BY <1>2 DEF Process
  <2> DEFINE rest == Tail(v.queue)
  <2> HIDE DEF w, b, r, l
  <2>6. /\ w \in VerType /\ w.current = r /\ w.queue = rest /\ w.runs = [v.runs EXCEPT ![r] = b]
        /\ w.stops = v.stops /\ w.stopping = v.stopping /\ w.busy = [v.busy EXCEPT ![l] = "verifying"]
    <3>1. rest \in Seq(Lish)
      BY <2>3
    <3>2. w = [v EXCEPT !.queue = rest, !.current = r, !.runs = [v.runs EXCEPT ![r] = b],
                        !.busy = [v.busy EXCEPT ![l] = "verifying"]]
      BY <1>0, <2>5 DEF SetBusy, VerType
    <3> HIDE DEF rest
    <3>3. [v.runs EXCEPT ![r] = b] \in [Run -> RunType] /\ [v.busy EXCEPT ![l] = "verifying"] \in [Lish -> Reasons]
      BY <1>0, <2>2, <2>3, <2>4 DEF VerType, Reasons
    <3>4. QED
      BY <1>0, <2>2, <3>1, <3>2, <3>3 DEF VerType
  <2>7. v.runs \in [Run -> RunType] /\ v.busy \in [Lish -> Reasons]
    BY <1>0 DEF VerType
  <2>8. ActiveOf(w) = ActiveOf(v) \cup {r}
    <3>1. ASSUME NEW q \in Run PROVE q \in ActiveOf(w) <=> q \in ActiveOf(v) \cup {r}
      <4>1. CASE q = r
        BY <2>2, <2>4, <2>6, <2>7, <4>1 DEF ActiveOf
      <4>2. CASE q # r
        BY <2>6, <2>7, <4>2 DEF ActiveOf
      <4>3. QED
        BY <4>1, <4>2
    <3>2. QED
      BY <2>2, <3>1 DEF ActiveOf
  <2>9. \A q \in Run : q # r => w.runs[q] = v.runs[q]
    BY <2>6, <2>7
  <2>10. w.runs[r] = b
    BY <2>2, <2>6, <2>7
  <2>11. \A q \in ActiveOf(v) : v.runs[q].aborted
    BY <2>1 DEF VerShape, RunsKept, None, Run, ActiveOf
  <2>12. RunsKept(w)
    <3>1. RunsKept(v)
      BY <2>1 DEF VerShape
    <3>2. w.current # None => w.current \in ActiveOf(w)
      BY <2>6, <2>8
    <3>3. ASSUME NEW q \in ActiveOf(w), ~w.runs[q].aborted PROVE w.current = q
      BY <2>6, <2>8, <2>9, <2>11, <3>3 DEF ActiveOf
    <3>4. ASSUME NEW q \in Run, w.runs[q].at \in {"look", "read", "mark"} PROVE w.runs[q].left # {}
      BY <2>4, <2>9, <2>10, <3>1, <3>4 DEF RunsKept
    <3>5. QED
      BY <3>2, <3>3, <3>4 DEF RunsKept
  <2>13. Spare(w) = Spare(v)
    <3>1. r \notin ActiveOf(v)
      BY <2>2 DEF ActiveOf
    <3>2. None \notin ActiveOf(v)
      BY DEF None, Run, ActiveOf
    <3>3. QED
      BY <2>1, <2>6, <2>8, <3>1, <3>2 DEF Spare
  <2>14. VerShape(w, n)
    <3>1. StopsKept(w)
      BY <2>1, <2>6 DEF StopsKept, VerShape
    <3>2. QED
      BY <2>1, <2>3, <2>6, <2>12, <2>13, <3>1 DEF VerShape
  <2>15. IsCurrent(w, l)
    <3>1. r # None
      BY <2>2 DEF None, Run
    <3>2. QED
      BY <2>4, <2>6, <2>10, <3>1 DEF IsCurrent
  <2>16. VerifyingBut(w, {})
    <3>1. ASSUME NEW x \in Lish, w.busy[x] = "verifying" PROVE x \in Range(w.queue) \/ IsCurrent(w, x)
      <4>1. CASE x = l
        BY <2>15, <4>1
      <4>2. CASE x # l
        <5>1. v.busy[x] = "verifying"
          BY <2>6, <2>7, <3>1, <4>2
        <5>2. x \in Range(v.queue)
          BY <1>2, <5>1 DEF VerKept, VerifyingBut, IsCurrent
        <5>3. QED
          BY <2>3, <2>6, <4>2, <5>2
      <4>3. QED
        BY <4>1, <4>2
    <3>2. QED
      BY <3>1 DEF VerifyingBut
  <2>17. Watched(w)
    BY <2>8 DEF Watched
  <2>18. OnlyVerifies(v, w)
    BY <2>3, <2>6, <2>7 DEF OnlyVerifies
  <2>19. Range(w.queue) \subseteq Range(v.queue)
    BY <2>3, <2>6
  <2>20. QED
    BY <2>6, <2>14, <2>16, <2>17, <2>18, <2>19 DEF w, VerKept
<1>3. QED
  BY <1>1, <1>2

LEMMA EnqueueKeeps ==
  ASSUME RowsAre(row'), NEW n \in 0 .. MaxEvents, NEW v, NEW l \in Lish, VerShape(v, n), VerifyingBut(v, {l})
  PROVE  /\ VerKept(Enqueue(v, l), n) /\ OnlyVerifies(v, Enqueue(v, l)) /\ Enqueue(v, l).stops = v.stops
         /\ Watched(v) => Watched(Enqueue(v, l))
<1>0. v \in VerType
  BY DEF VerShape
<1>1. CASE IsCurrent(v, l) \/ l \in Range(v.queue)
  <2>1. Enqueue(v, l) = v
    BY <1>1 DEF Enqueue
  <2>2. VerifyingBut(v, {})
    BY <1>1 DEF VerifyingBut
  <2>3. OnlyVerifies(v, v)
    BY DEF OnlyVerifies
  <2>4. QED
    BY <2>1, <2>2, <2>3 DEF VerKept
<1>2. CASE ~(IsCurrent(v, l) \/ l \in Range(v.queue))
  <2> DEFINE a == [v EXCEPT !.queue = Append(@, l)]
             b == SetBusy(a, l, "verifying")
  <2>1. v.queue \in Seq(Lish) /\ IsInjective(v.queue) /\ l \notin Range(v.queue)
    BY <1>0, <1>2 DEF VerType, VerShape
  <2>2. /\ Append(v.queue, l) \in Seq(Lish) /\ IsInjective(Append(v.queue, l))
        /\ Range(Append(v.queue, l)) = Range(v.queue) \cup {l}
    BY <2>1, OneMore
  <2>3. /\ a \in VerType /\ SameRuns(v, a) /\ a.busy = v.busy /\ a.queue = Append(v.queue, l)
    <3> DEFINE q == Append(v.queue, l)
    <3>1. q \in Seq(Lish) /\ a = [v EXCEPT !.queue = q]
      BY <1>0, <2>2 DEF VerType
    <3> HIDE DEF q, a
    <3>2. QED
      BY <1>0, <3>1 DEF VerType, SameRuns, q
  <2> HIDE DEF a
  <2>4. /\ b \in VerType /\ SameRuns(a, b) /\ b.queue = a.queue
        /\ \A x \in Lish : b.busy[x] = IF x = l THEN "verifying" ELSE a.busy[x]
    <3>1. "verifying" \in Reasons
      BY DEF Reasons
    <3>2. QED
      BY <2>3, <3>1, BusyIs
  <2>5. Enqueue(v, l) = Process(b)
    BY <1>2 DEF Enqueue, a
  <2> HIDE DEF b
  <2>6. VerShape(b, n) /\ \A x : IsCurrent(b, x) <=> IsCurrent(v, x)
    <3>1. SameRuns(v, b) /\ IsInjective(b.queue)
      BY <2>2, <2>3, <2>4 DEF SameRuns
    <3>2. QED
      BY <2>4, <3>1, ShapeKept
  <2>7. VerifyingBut(b, {})
    BY <2>2, <2>3, <2>4, <2>6 DEF VerifyingBut
  <2>8. VerKept(b, n)
    BY <2>6, <2>7 DEF VerKept
  <2>9. /\ VerKept(Process(b), n) /\ Watched(Process(b)) /\ OnlyVerifies(b, Process(b))
        /\ Process(b).stops = b.stops
    BY <2>8, ProcessKeeps
  <2>10. OnlyVerifies(v, Process(b))
    BY <2>3, <2>4, <2>9 DEF OnlyVerifies
  <2>11. b.stops = v.stops
    BY <2>3, <2>4 DEF SameRuns
  <2>12. QED
    BY <2>5, <2>9, <2>10, <2>11
<1>3. QED
  BY <1>1, <1>2

LEMMA VerifiedKeeps ==
  ASSUME RowsAre(row'), NEW n \in Nat, n + 1 <= MaxEvents, NEW v, VerKept(v, n), NEW l \in Lish
  PROVE  /\ VerKept(Verified(v, l), n + 1) /\ OnlyVerifies(v, Verified(v, l)) /\ Verified(v, l).stops = v.stops
         /\ Watched(v) => Watched(Verified(v, l))
<1> DEFINE a == ForgetCurrent(v, l)
           b == Dequeue(a, l)
<1>1. /\ VerShape(a, n + 1) /\ ActiveOf(a) = ActiveOf(v) /\ a.queue = v.queue
      /\ a.busy = v.busy /\ a.stops = v.stops
      /\ \A x : x # l => (IsCurrent(a, x) <=> IsCurrent(v, x))
  BY ForgetIs DEF VerKept
<1> HIDE DEF a
<1>2. /\ b \in VerType /\ SameRuns(a, b) /\ b.busy = a.busy /\ IsInjective(b.queue)
      /\ Range(b.queue) = Range(a.queue) \ {l}
  BY <1>1, DequeueIs DEF VerShape
<1> HIDE DEF b
<1>3. VerShape(b, n + 1) /\ ActiveOf(b) = ActiveOf(a) /\ \A x : IsCurrent(b, x) <=> IsCurrent(a, x)
  BY <1>1, <1>2, ShapeKept
<1>4. VerifyingBut(b, {l})
  BY <1>1, <1>2, <1>3 DEF VerKept, VerifyingBut
<1>5. Verified(v, l) = Enqueue(b, l)
  BY DEF Verified, a, b
<1>6. n + 1 \in 0 .. MaxEvents
  BY StoreAssumption
<1>7. /\ VerKept(Enqueue(b, l), n + 1) /\ OnlyVerifies(b, Enqueue(b, l)) /\ Enqueue(b, l).stops = b.stops
      /\ Watched(b) => Watched(Enqueue(b, l))
  BY <1>3, <1>4, <1>6, EnqueueKeeps
<1>8. Watched(v) => Watched(b)
  <2>1. b.queue # <<>> => v.queue # <<>>
    <3>1. b.queue \in Seq(Lish) /\ v.queue \in Seq(Lish)
      BY <1>2 DEF VerType, VerShape, VerKept
    <3>2. Range(b.queue) \subseteq Range(v.queue)
      BY <1>1, <1>2
    <3>3. (b.queue = <<>> <=> Range(b.queue) = {}) /\ (v.queue = <<>> <=> Range(v.queue) = {})
      BY <3>1, NothingIn
    <3>4. QED
      BY <3>2, <3>3
  <2>2. QED
    BY <1>1, <1>2, <1>3, <2>1 DEF Watched, SameRuns
<1>9. OnlyVerifies(v, Enqueue(b, l)) /\ b.stops = v.stops
  BY <1>1, <1>2, <1>7 DEF OnlyVerifies, SameRuns
<1>10. QED
  BY <1>5, <1>7, <1>8, <1>9

\* What a call that takes a LISH from the verifications leaves of them: the LISH waits no
\* longer, and is free for now.
GivenUp(v, w, l) ==
  /\ ActiveOf(w) = ActiveOf(v) /\ w.stops = v.stops /\ l \notin Range(w.queue)
  /\ Range(w.queue) \subseteq Range(v.queue)
  /\ \A x \in Lish : x # l => w.busy[x] = v.busy[x]

LEMMA MovedKeeps ==
  ASSUME NEW n \in Nat, NEW v, VerKept(v, n), NEW l \in Lish, NEW reason \in Reasons, reason # "verifying"
  PROVE  LET w == SetBusy(Dequeue(ForgetCurrent(v, l), l), l, reason) IN
         VerKept(w, n + 1) /\ GivenUp(v, w, l) /\ w.busy[l] = reason
<1> DEFINE a == ForgetCurrent(v, l)
           b == Dequeue(a, l)
           w == SetBusy(b, l, reason)
<1>1. /\ VerShape(a, n + 1) /\ ActiveOf(a) = ActiveOf(v) /\ a.queue = v.queue
      /\ a.busy = v.busy /\ a.stops = v.stops
      /\ \A x : x # l => (IsCurrent(a, x) <=> IsCurrent(v, x))
  BY ForgetIs DEF VerKept
<1> HIDE DEF a
<1>2. /\ b \in VerType /\ SameRuns(a, b) /\ b.busy = a.busy /\ IsInjective(b.queue)
      /\ Range(b.queue) = Range(a.queue) \ {l}
  BY <1>1, DequeueIs DEF VerShape
<1> HIDE DEF b
<1>3. VerShape(b, n + 1) /\ ActiveOf(b) = ActiveOf(a) /\ \A x : IsCurrent(b, x) <=> IsCurrent(a, x)
  BY <1>1, <1>2, ShapeKept
<1>4. w \in VerType /\ SameRuns(b, w) /\ w.queue = b.queue
      /\ \A x \in Lish : w.busy[x] = IF x = l THEN reason ELSE b.busy[x]
  BY <1>2, BusyIs
<1> HIDE DEF w
<1>5. VerShape(w, n + 1) /\ ActiveOf(w) = ActiveOf(b) /\ \A x : IsCurrent(w, x) <=> IsCurrent(b, x)
  BY <1>2, <1>3, <1>4, ShapeKept
<1>6. VerifyingBut(w, {})
  BY <1>1, <1>2, <1>3, <1>4, <1>5 DEF VerKept, VerifyingBut
<1>7. GivenUp(v, w, l)
  BY <1>1, <1>2, <1>3, <1>4, <1>5 DEF GivenUp, SameRuns
<1>8. QED
  BY <1>4, <1>5, <1>6, <1>7 DEF VerKept, w, b, a

LEMMA FreedKeeps ==
  ASSUME NEW n, NEW v, VerKept(v, n), NEW l \in Lish, NEW reason \in Reasons, reason # "verifying"
  PROVE  LET w == SetBusy(v, l, reason) IN
         /\ VerKept(w, n) /\ ActiveOf(w) = ActiveOf(v) /\ w.stops = v.stops /\ w.queue = v.queue
         /\ \A x \in Lish : w.busy[x] = IF x = l THEN reason ELSE v.busy[x]
<1> DEFINE w == SetBusy(v, l, reason)
<1>1. w \in VerType /\ SameRuns(v, w) /\ w.queue = v.queue
      /\ \A x \in Lish : w.busy[x] = IF x = l THEN reason ELSE v.busy[x]
  BY BusyIs DEF VerKept, VerShape
<1> HIDE DEF w
<1>2. VerShape(w, n) /\ ActiveOf(w) = ActiveOf(v) /\ \A x : IsCurrent(w, x) <=> IsCurrent(v, x)
  <2>1. VerShape(v, n) /\ IsInjective(w.queue)
    BY <1>1 DEF VerKept, VerShape
  <2>2. QED
    BY <1>1, <2>1, ShapeKept
<1>3. VerifyingBut(w, {})
  BY <1>1, <1>2 DEF VerKept, VerifyingBut
<1>4. QED
  BY <1>1, <1>2, <1>3 DEF VerKept, SameRuns, w

\* stopVerify, and a deletion: the run is told to stop and stays the current one.
LEMMA StoppedKeeps ==
  ASSUME NEW n, NEW v, VerKept(v, n), NEW l \in Lish
  PROVE  /\ VerKept(Stopped(v, l), n) /\ GivenUp(v, Stopped(v, l), l) /\ Stopped(v, l).busy[l] = "no"
         /\ ClearBusy(Dequeue(AbortCurrent(v, l), l), l) = Stopped(v, l)
<1> DEFINE a == SetBusy(v, l, "no")
           b == AbortCurrent(a, l)
           w == Dequeue(b, l)
<1>0. "no" \in Reasons /\ v \in VerType
  BY DEF Reasons, VerKept, VerShape
<1>1. /\ VerKept(a, n) /\ ActiveOf(a) = ActiveOf(v) /\ a.stops = v.stops /\ a.queue = v.queue
      /\ \A x \in Lish : a.busy[x] = IF x = l THEN "no" ELSE v.busy[x]
  BY <1>0, FreedKeeps
<1>2. Stopped(v, l) = w
  BY <1>0, ClearIs DEF Stopped
<1>3. ClearBusy(Dequeue(AbortCurrent(v, l), l), l) = w
  BY <1>0 DEF ClearBusy, SetBusy, Dequeue, AbortCurrent, IsCurrent, VerType
<1> HIDE DEF a
<1>4. /\ VerShape(b, n) /\ ActiveOf(b) = ActiveOf(a) /\ b.queue = a.queue
      /\ b.busy = a.busy /\ b.stops = a.stops /\ \A x : IsCurrent(b, x) <=> IsCurrent(a, x)
  <2>1. VerShape(a, n)
    BY <1>1 DEF VerKept
  <2>2. QED
    BY <2>1, AbortIs
<1> HIDE DEF b
<1>5. /\ w \in VerType /\ SameRuns(b, w) /\ w.busy = b.busy /\ IsInjective(w.queue)
      /\ Range(w.queue) = Range(b.queue) \ {l}
  BY <1>4, DequeueIs DEF VerShape
<1> HIDE DEF w
<1>6. VerShape(w, n) /\ ActiveOf(w) = ActiveOf(b) /\ \A x : IsCurrent(w, x) <=> IsCurrent(b, x)
  BY <1>4, <1>5, ShapeKept
<1>7. VerifyingBut(w, {})
  <2>1. ASSUME NEW x \in Lish, w.busy[x] = "verifying" PROVE x \in Range(w.queue) \/ IsCurrent(w, x)
    <3>1. x # l /\ a.busy[x] = "verifying"
      BY <1>1, <1>4, <1>5, <2>1
    <3>2. QED
      BY <1>1, <1>4, <1>5, <1>6, <3>1 DEF VerKept, VerifyingBut
  <2>2. QED
    BY <2>1 DEF VerifyingBut
<1>8. GivenUp(v, w, l) /\ w.busy[l] = "no"
  BY <1>1, <1>4, <1>5, <1>6 DEF GivenUp, SameRuns
<1>9. QED
  BY <1>2, <1>3, <1>6, <1>7, <1>8 DEF VerKept

LEMMA StopsAllKeeps ==
  ASSUME NEW n, VerKept(ver, n), NEW s \in {"user", "reset"}
  PROVE  LET w == StopsAll(ver, s) IN
         /\ VerKept(w, n) /\ w.queue = <<>> /\ w.stops = ver.stops \cup {s}
         /\ \A x \in Lish : w.busy[x] \in {ver.busy[x], "no"}
<1> DEFINE w == StopsAll(ver, s)
           active == ActiveRuns
           runs == [r \in Run |-> IF r \in active THEN [ver.runs[r] EXCEPT !.aborted = TRUE] ELSE ver.runs[r]]
           busy == [l \in Lish |-> IF l \in Range(ver.queue) \/ \E r \in active : ver.runs[r].lish = l THEN "no"
                                   ELSE ver.busy[l]]
<1>1. ver \in VerType /\ ver.runs \in [Run -> RunType] /\ ver.busy \in [Lish -> Reasons]
  BY DEF VerKept, VerShape, VerType
<1>2. w = [ver EXCEPT !.stopping = TRUE, !.stops = ver.stops \cup {s}, !.queue = <<>>, !.busy = busy, !.runs = runs]
  BY <1>1 DEF StopsAll, VerType
<1>3. busy \in [Lish -> Reasons] /\ \A x \in Lish : busy[x] \in {ver.busy[x], "no"}
  BY <1>1 DEF Reasons
<1>4. runs \in [Run -> RunType] /\ \A r \in Run : runs[r].at = ver.runs[r].at /\ runs[r].lish = ver.runs[r].lish
                                                /\ runs[r].left = ver.runs[r].left /\ (r \in active => runs[r].aborted)
  <2>1. ASSUME NEW r \in Run
        PROVE  runs[r] \in RunType /\ runs[r].at = ver.runs[r].at /\ runs[r].lish = ver.runs[r].lish
               /\ runs[r].left = ver.runs[r].left /\ (r \in active => runs[r].aborted)
    <3> DEFINE run == ver.runs[r]
    <3>1. run \in RunType /\ runs[r] = IF r \in active THEN [run EXCEPT !.aborted = TRUE] ELSE run
      BY <1>1
    <3> HIDE DEF run, active, runs
    <3>2. runs[r] \in RunType /\ runs[r].at = run.at /\ runs[r].lish = run.lish /\ runs[r].left = run.left
          /\ (r \in active => runs[r].aborted)
      BY <3>1 DEF RunType
    <3>3. QED
      BY <3>2 DEF run
  <2> DEFINE all == runs
  <2>2. all = [r \in Run |-> all[r]]
    OBVIOUS
  <2> HIDE DEF runs
  <2>3. QED
    BY <2>1, <2>2
<1>5. active = ActiveOf(ver)
  BY DEF ActiveRuns, ActiveOf
<1> HIDE DEF active
<1>6. /\ w \in VerType /\ w.current = ver.current /\ w.queue = <<>> /\ w.runs = runs /\ w.busy = busy
      /\ w.stops = ver.stops \cup {s}
  <2> HIDE DEF w, runs, busy
  <2>1. <<>> \in Seq(Lish)
    BY EmptySeq
  <2>2. QED
    BY <1>1, <1>2, <1>3, <1>4, <2>1 DEF VerType
<1> HIDE DEF w
<1>7. ActiveOf(w) = ActiveOf(ver)
  BY <1>4, <1>6 DEF ActiveOf
<1>8. Spare(w) = Spare(ver) /\ ActiveOf(ver) \subseteq Run
  BY <1>6, <1>7 DEF Spare, ActiveOf
<1>9. RunsKept(w)
  <2>1. RunsKept(ver)
    BY DEF VerKept, VerShape
  <2> HIDE DEF runs
  <2>2. QED
    BY <1>4, <1>5, <1>6, <1>7, <1>8, <2>1 DEF RunsKept
<1>10. IsInjective(w.queue) /\ StopsKept(w)
  BY <1>6 DEF IsInjective, StopsKept
<1>11. VerShape(w, n)
  BY <1>6, <1>8, <1>9, <1>10 DEF VerKept, VerShape
<1>12. VerifyingBut(w, {})
  <2>1. ASSUME NEW x \in Lish, busy[x] = "verifying" PROVE FALSE
    <3>1. ver.busy[x] = "verifying" /\ x \notin Range(ver.queue) /\ ~\E r \in active : ver.runs[r].lish = x
      BY <2>1
    <3>2. IsCurrent(ver, x)
      BY <3>1 DEF VerKept, VerifyingBut
    <3>3. QED
      BY <1>5, <3>1, <3>2 DEF VerKept, VerShape, RunsKept, IsCurrent
  <2> HIDE DEF busy
  <2>2. QED
    BY <1>6, <2>1 DEF VerifyingBut
<1>13. QED
  BY <1>3, <1>6, <1>11, <1>12 DEF VerKept, w

-----------------------------------------------------------------------------
(* verifyAll puts one LISH after the other in the queue.                   *)

LEMMA GreatestOf ==
  ASSUME NEW m \in Nat, NEW S \in SUBSET (1 .. m), S # {}
  PROVE  Max(S) \in S
<1> DEFINE T == {x \in Nat : m - x \in S}
<1>1. T \in SUBSET Nat /\ T # {}
  <2>1. PICK y \in S : TRUE
    OBVIOUS
  <2>2. y \in 1 .. m
    OBVIOUS
  <2>3. m - y \in Nat /\ m - (m - y) = y
    BY <2>2
  <2>4. QED
    BY <2>1, <2>3
<1>2. PICK x \in T : \A y \in T : x <= y
  BY <1>1, LeastOf
<1>3. m - x \in S /\ x \in Nat
  BY <1>2
<1>4. \A y \in S : m - x >= y
  <2>1. ASSUME NEW y \in S PROVE m - x >= y
    <3>1. y \in 1 .. m
      OBVIOUS
    <3>2. m - y \in Nat /\ m - (m - y) = y
      BY <3>1
    <3>3. x <= m - y
      BY <1>2, <3>2
    <3>4. QED
      BY <1>3, <3>1, <3>3
  <2>2. QED
    BY <2>1
<1>5. QED
  BY <1>3, <1>4, Zenon DEF Max

LEMMA OneOut ==
  ASSUME NEW m \in Nat, NEW s \in SUBSET (1 .. m), s # {}
  PROVE  /\ Max(s) \in s /\ s \ {Max(s)} \in SUBSET (1 .. m)
         /\ Cardinality(s) \in Nat /\ Cardinality(s \ {Max(s)}) \in Nat
         /\ Cardinality(s \ {Max(s)}) = Cardinality(s) - 1
<1>1. Max(s) \in s
  BY GreatestOf
<1>2. IsFiniteSet(s)
  <2>1. IsFiniteSet(1 .. m)
    BY FS_Interval
  <2>2. QED
    BY <2>1, FS_Subset
<1>3. QED
  BY <1>1, <1>2, FS_RemoveElement, FS_CardinalityType

\* The fold over the places of the order, with what it needs of smaller sets of places in h.
Queued(order, h, s) == IF s = {} THEN ver ELSE Enqueue(h[s \ {Max(s)}], order[Max(s)])
FoldsTo(order, m, h) == h = [s \in SUBSET (1 .. m) |-> Queued(order, h, s)]
FoldsUpTo(order, m, k, h) == \A s \in SUBSET (1 .. m) : Cardinality(s) <= k => h[s] = Queued(order, h, s)

LEMMA FoldGrows ==
  ASSUME NEW m \in Nat, NEW order, NEW k \in Nat, NEW h, k = 0 \/ FoldsUpTo(order, m, k - 1, h)
  PROVE  FoldsUpTo(order, m, k, [s \in SUBSET (1 .. m) |-> Queued(order, h, s)])
<1> DEFINE g == [s \in SUBSET (1 .. m) |-> Queued(order, h, s)]
<1> SUFFICES ASSUME NEW s \in SUBSET (1 .. m), Cardinality(s) <= k
             PROVE  g[s] = Queued(order, g, s)
  BY DEF FoldsUpTo
<1>1. g[s] = Queued(order, h, s)
  OBVIOUS
<1>2. CASE s = {}
  BY <1>1, <1>2 DEF Queued
<1>3. CASE s # {}
  <2> DEFINE t == s \ {Max(s)}
  <2>1. t \in SUBSET (1 .. m) /\ Cardinality(s) \in Nat /\ Cardinality(t) \in Nat /\ Cardinality(t) = Cardinality(s) - 1
    BY <1>3, OneOut
  <2>2. g[t] = Queued(order, h, t)
    BY <2>1
  <2>3. h[t] = Queued(order, h, t)
    <3> HIDE DEF t
    <3>1. Cardinality(t) <= k - 1 /\ k # 0
      BY <2>1
    <3>2. QED
      BY <2>1, <3>1 DEF FoldsUpTo
  <2> HIDE DEF g
  <2>4. QED
    BY <1>1, <1>3, <2>2, <2>3 DEF Queued
<1>4. QED
  BY <1>2, <1>3

LEMMA FoldExists ==
  ASSUME NEW m \in Nat, NEW order
  PROVE  \E h : FoldsTo(order, m, h)
<1> DEFINE bad == {k \in Nat : ~ \E h : FoldsUpTo(order, m, k, h)}
<1>1. bad = {}
  <2> SUFFICES ASSUME bad # {} PROVE FALSE
    OBVIOUS
  <2>1. PICK k \in bad : \A y \in bad : k <= y
    BY LeastOf
  <2>2. k \in Nat /\ ~ \E h : FoldsUpTo(order, m, k, h)
    BY <2>1
  <2>3. \E h : k = 0 \/ FoldsUpTo(order, m, k - 1, h)
    <3>1. CASE k = 0
      BY <3>1
    <3>2. CASE k # 0
      <4>1. k - 1 \in Nat /\ ~(k <= k - 1)
        BY <2>2, <3>2
      <4>2. k - 1 \notin bad
        BY <2>1, <4>1
      <4>3. QED
        BY <4>1, <4>2
    <3>3. QED
      BY <3>1, <3>2
  <2>4. QED
    BY <2>2, <2>3, FoldGrows
<1>2. IsFiniteSet(1 .. m)
  BY FS_Interval
<1>3. Cardinality(1 .. m) \in Nat
  BY <1>2, FS_CardinalityType
<1>4. PICK h : FoldsUpTo(order, m, Cardinality(1 .. m), h)
  BY <1>1, <1>3
<1>5. \A s \in SUBSET (1 .. m) : h[s] = Queued(order, h, s)
  BY <1>2, <1>4, FS_Subset DEF FoldsUpTo
<1> DEFINE g == [s \in SUBSET (1 .. m) |-> Queued(order, h, s)]
<1>6. ASSUME NEW s \in SUBSET (1 .. m) PROVE Queued(order, h, s) = Queued(order, g, s)
  <2>1. CASE s = {}
    BY <2>1 DEF Queued
  <2>2. CASE s # {}
    <3>1. s \ {Max(s)} \in SUBSET (1 .. m)
      OBVIOUS
    <3>2. g[s \ {Max(s)}] = h[s \ {Max(s)}]
      BY <3>1, <1>5
    <3> HIDE DEF g
    <3>3. QED
      BY <2>2, <3>2 DEF Queued
  <2>3. QED
    BY <2>1, <2>2
<1>7. g = [s \in SUBSET (1 .. m) |-> Queued(order, g, s)]
  BY <1>6
<1>8. QED
  BY <1>7 DEF FoldsTo

\* What the verifications are after each LISH.
QueuedWell(v, n) ==
  VerKept(v, n) /\ OnlyVerifies(ver, v) /\ v.stops = ver.stops /\ (Watched(ver) => Watched(v))

LEMMA FoldKeeps ==
  ASSUME RowsAre(row'), NEW n \in 0 .. MaxEvents, VerKept(ver, n), NEW m \in Nat, NEW order,
         \A i \in 1 .. m : order[i] \in Lish, NEW h, FoldsTo(order, m, h)
  PROVE  QueuedWell(h[1 .. m], n)
<1> DEFINE bad == {k \in Nat : \E s \in SUBSET (1 .. m) : Cardinality(s) = k /\ ~QueuedWell(h[s], n)}
<1>1. bad = {}
  <2> SUFFICES ASSUME bad # {} PROVE FALSE
    OBVIOUS
  <2>1. PICK k \in bad : \A y \in bad : k <= y
    BY LeastOf
  <2>2. PICK s \in SUBSET (1 .. m) : Cardinality(s) = k /\ ~QueuedWell(h[s], n)
    BY <2>1
  <2>3. h[s] = Queued(order, h, s)
    BY DEF FoldsTo
  <2>4. CASE s = {}
    <3>1. h[s] = ver
      BY <2>3, <2>4 DEF Queued
    <3>2. QueuedWell(ver, n)
      BY DEF QueuedWell, OnlyVerifies
    <3>3. QED
      BY <2>2, <3>1, <3>2
  <2>5. CASE s # {}
    <3> DEFINE t == s \ {Max(s)}
               v == h[t]
               l == order[Max(s)]
    <3>1. /\ Max(s) \in s /\ t \in SUBSET (1 .. m) /\ k \in Nat /\ Cardinality(t) \in Nat
          /\ Cardinality(t) = k - 1
      BY <2>2, <2>5, OneOut
    <3>2. QueuedWell(v, n)
      <4>1. ~(k <= Cardinality(t))
        <5> HIDE DEF t
        <5>1. QED
          BY <3>1
      <4>2. Cardinality(t) \notin bad
        BY <2>1, <4>1
      <4>3. QED
        BY <3>1, <4>2
    <3>3. l \in Lish
      BY <3>1
    <3>4. h[s] = Enqueue(v, l)
      BY <2>3, <2>5 DEF Queued
    <3> HIDE DEF t, v, l
    <3>5. VerShape(v, n) /\ VerifyingBut(v, {l})
      BY <3>2 DEF QueuedWell, VerKept, VerifyingBut
    <3>6. /\ VerKept(Enqueue(v, l), n) /\ OnlyVerifies(v, Enqueue(v, l)) /\ Enqueue(v, l).stops = v.stops
          /\ Watched(v) => Watched(Enqueue(v, l))
      BY <3>3, <3>5, EnqueueKeeps
    <3>7. QueuedWell(Enqueue(v, l), n)
      BY <3>2, <3>6 DEF QueuedWell, OnlyVerifies
    <3>8. QED
      BY <2>2, <3>4, <3>7
  <2>6. QED
    BY <2>4, <2>5
<1>2. Cardinality(1 .. m) \in Nat
  BY FS_Interval, FS_CardinalityType
<1>3. QED
  BY <1>1, <1>2

LEMMA AllQueuedWell ==
  ASSUME RowsAre(row'), NEW n \in 0 .. MaxEvents, VerKept(ver, n), NEW S \in SUBSET Lish, NEW order \in SetToSeqs(S)
  PROVE  QueuedWell(FoldLeft(Enqueue, ver, order), n)
<1> DEFINE m == Cardinality(S)
<1>1. m \in Nat /\ DOMAIN order = 1 .. m /\ \A i \in 1 .. m : order[i] \in Lish
  <2>1. IsFiniteSet(S)
    BY StoreAssumption, FS_Subset
  <2>2. m \in Nat
    BY <2>1, FS_CardinalityType
  <2>3. order \in [1 .. m -> S]
    BY DEF SetToSeqs
  <2>4. QED
    BY <2>2, <2>3
<1> HIDE DEF m
<1> DEFINE h == CHOOSE h : FoldsTo(order, m, h)
<1>2. FoldsTo(order, m, h)
  BY <1>1, FoldExists
<1>3. FoldLeft(Enqueue, ver, order) = h[1 .. m]
  BY <1>1, Zenon DEF FoldLeft, MapThenFoldSet, FoldsTo, Queued, Max
<1> HIDE DEF h
<1>4. QED
  BY <1>1, <1>2, <1>3, FoldKeeps

-----------------------------------------------------------------------------
(* One call goes on: what the other parts of the state have of it.         *)

OpGoes(o, rec) == op' = [op EXCEPT ![o] = rec] /\ rec \in OpType /\ OpFits(rec)
MakesOf(rec, l) == rec.lish = l /\ rec.at \in {"scan", "fetch", "mkdir"}
WorksOf(rec, l, kinds) == rec.at # "idle" /\ rec.lish = l /\ rec.then \in kinds

LEMMA OpIs ==
  ASSUME OpsKept, NEW o \in Op, NEW rec, OpGoes(o, rec)
  PROVE  OpsKept' /\ op'[o] = rec /\ \A q \in Op : q # o => op'[q] = op[q]
<1>1. op \in [Op -> OpType] /\ \A q \in Op : OpFits(op[q])
  BY DEF OpsKept
<1>2. op' \in [Op -> OpType] /\ op'[o] = rec /\ \A q \in Op : q # o => op'[q] = op[q]
  BY <1>1 DEF OpGoes
<1>3. \A q \in Op : OpFits(op'[q])
  BY <1>1, <1>2 DEF OpGoes
<1>4. QED
  BY <1>2, <1>3 DEF OpsKept

LEMMA MakingIs ==
  ASSUME OpsKept, NEW o \in Op, NEW rec, OpGoes(o, rec), NEW l \in Lish
  PROVE  /\ Cardinality(Making(l)) \in Nat /\ Cardinality(Making(l)') \in Nat
         /\ Cardinality(Making(l)') <= Cardinality(Making(l)) + 1
         /\ ~MakesOf(rec, l) => Cardinality(Making(l)') <= Cardinality(Making(l))
         /\ MakesOf(op[o], l) => Cardinality(Making(l)') <= Cardinality(Making(l))
         /\ MakesOf(op[o], l) /\ ~MakesOf(rec, l) => Cardinality(Making(l)') + 1 <= Cardinality(Making(l))
<1> DEFINE A == Making(l)
           B == Making(l)'
<1>1. op'[o] = rec /\ \A q \in Op : q # o => op'[q] = op[q]
  BY OpIs
<1>2. /\ A = {q \in Op : MakesOf(op[q], l)}
      /\ B = {q \in Op : MakesOf(op'[q], l)}
  BY DEF Making, MakesOf
<1>3. /\ B \subseteq A \cup {o}
      /\ o \in A <=> MakesOf(op[o], l)
      /\ o \in B <=> MakesOf(rec, l)
  <2> HIDE DEF A, B
  <2>1. QED
    BY <1>1, <1>2
<1>4. IsFiniteSet(A) /\ IsFiniteSet(B)
  <2>1. A \subseteq Op /\ B \subseteq Op
    BY DEF Making
  <2>2. QED
    BY <2>1, StoreAssumption, FS_Subset
<1> HIDE DEF A, B
<1>5. /\ Cardinality(A) \in Nat /\ Cardinality(B) \in Nat
      /\ IsFiniteSet(A \cup {o}) /\ Cardinality(A \cup {o}) \in Nat
      /\ Cardinality(A \cup {o}) = IF o \in A THEN Cardinality(A) ELSE Cardinality(A) + 1
  BY <1>4, FS_AddElement, FS_CardinalityType
<1>6. Cardinality(B) <= Cardinality(A \cup {o})
  BY <1>3, <1>5, FS_Subset
<1>7. Cardinality(B) <= Cardinality(A) + 1
  BY <1>5, <1>6
<1>8. ASSUME o \notin B PROVE Cardinality(B) <= Cardinality(A)
  <2>1. B \subseteq A
    BY <1>3, <1>8
  <2>2. QED
    BY <1>4, <2>1, FS_Subset
<1>9. ASSUME o \in A PROVE Cardinality(B) <= Cardinality(A)
  BY <1>5, <1>6, <1>9
<1>10. ASSUME o \in A, o \notin B PROVE Cardinality(B) + 1 <= Cardinality(A)
  <2>1. B \subseteq A \ {o}
    BY <1>3, <1>10
  <2>2. IsFiniteSet(A \ {o}) /\ Cardinality(A \ {o}) = Cardinality(A) - 1
    BY <1>4, <1>10, FS_RemoveElement
  <2>3. Cardinality(B) <= Cardinality(A \ {o})
    BY <2>1, <2>2, FS_Subset
  <2>4. QED
    BY <1>5, <2>2, <2>3
<1>11. QED
  BY <1>3, <1>5, <1>7, <1>8, <1>9, <1>10 DEF A, B

Passed == events \in Nat /\ events' \in {events, events + 1}

\* A call begins with an event, or goes on without a generation more than it has made.
LEMMA GenGoes ==
  ASSUME OpsKept, RowsAre(row), GenKept, Passed, NEW o \in Op, NEW rec, OpGoes(o, rec),
         \A l \in Lish : row'[l].gen = row[l].gen,
         events' = events + 1 \/ \A l \in Lish : MakesOf(rec, l) => MakesOf(op[o], l)
  PROVE  GenKept'
<1>1. ASSUME NEW l \in Lish PROVE row'[l].gen + Cardinality(Making(l)') <= events' + 1
  <2> DEFINE a == Cardinality(Making(l))
             b == Cardinality(Making(l)')
  <2>1. /\ a \in Nat /\ b \in Nat /\ b <= a + 1
        /\ ~MakesOf(rec, l) => b <= a
        /\ MakesOf(op[o], l) => b <= a
    BY MakingIs
  <2>2. row[l].gen \in Nat /\ row'[l].gen = row[l].gen
    BY DEF RowsAre, RowType
  <2>3. row[l].gen + a <= events + 1
    BY DEF GenKept
  <2>4. events \in Nat /\ (events' = events + 1 \/ events' = events)
    BY DEF Passed
  <2> HIDE DEF a, b
  <2>5. ASSUME events' = events + 1 PROVE row'[l].gen + b <= events' + 1
    BY <2>1, <2>2, <2>3, <2>4, <2>5
  <2>6. ASSUME events' = events PROVE row'[l].gen + b <= events' + 1
    <3>1. b <= a
      BY <2>1, <2>4, <2>6
    <3>2. QED
      BY <2>1, <2>2, <2>3, <2>4, <2>6, <3>1
  <2>7. QED
    BY <2>4, <2>5, <2>6 DEF a, b
<1>2. QED
  BY <1>1 DEF GenKept

LEMMA GenMade ==
  ASSUME OpsKept, RowsAre(row), GenKept, Passed, NEW o \in Op, OpGoes(o, NoOp),
         op[o].at \in {"scan", "fetch", "mkdir"},
         \A l \in Lish : row'[l].gen = IF l = op[o].lish THEN row[l].gen + 1 ELSE row[l].gen
  PROVE  GenKept'
<1>1. ASSUME NEW l \in Lish PROVE row'[l].gen + Cardinality(Making(l)') <= events' + 1
  <2> DEFINE a == Cardinality(Making(l))
             b == Cardinality(Making(l)')
  <2>0. ~MakesOf(NoOp, l)
    BY DEF MakesOf, NoOp
  <2>1. /\ a \in Nat /\ b \in Nat /\ b <= a
        /\ l = op[o].lish => b + 1 <= a
    BY <2>0, MakingIs DEF MakesOf
  <2>2. row[l].gen \in Nat /\ row'[l].gen = IF l = op[o].lish THEN row[l].gen + 1 ELSE row[l].gen
    BY DEF RowsAre, RowType
  <2>3. row[l].gen + a <= events + 1
    BY DEF GenKept
  <2>4. events \in Nat /\ (events' = events + 1 \/ events' = events)
    BY DEF Passed
  <2> HIDE DEF a, b
  <2>5. ASSUME l = op[o].lish PROVE row'[l].gen + b <= events' + 1
    BY <2>1, <2>2, <2>3, <2>4, <2>5
  <2>6. ASSUME l # op[o].lish PROVE row'[l].gen + b <= events' + 1
    BY <2>1, <2>2, <2>3, <2>4, <2>6
  <2>7. QED
    BY <2>5, <2>6 DEF a, b
<1>2. QED
  BY <1>1 DEF GenKept

\* Where no call goes on.
LEMMA GenStays ==
  ASSUME RowsAre(row), GenKept, Passed, UNCHANGED op, \A l \in Lish : row'[l].gen = row[l].gen
  PROVE  GenKept'
<1>1. ASSUME NEW l \in Lish PROVE row'[l].gen + Cardinality(Making(l)') <= events' + 1
  <2>1. Making(l)' = Making(l)
    BY DEF Making
  <2>2. row[l].gen + Cardinality(Making(l)) <= events + 1
    BY DEF GenKept
  <2>3. row[l].gen \in Nat /\ Cardinality(Making(l)) \in Nat
    <3>1. IsFiniteSet(Making(l))
      BY StoreAssumption, FS_Subset DEF Making
    <3>2. QED
      BY <3>1, FS_CardinalityType DEF RowsAre, RowType
  <2> DEFINE a == Cardinality(Making(l))
  <2>4. row'[l].gen = row[l].gen /\ Cardinality(Making(l)') = a
    BY <2>1
  <2> HIDE DEF a
  <2>5. row'[l].gen + a <= events' + 1
    BY <2>2, <2>3, <2>4 DEF Passed, a
  <2>6. QED
    BY <2>4, <2>5
<1>2. QED
  BY <1>1 DEF GenKept

Moves == {"moved", "finalized"}
\* A LISH stays as busy as it is only for a call that goes on with it.
StaysBusy(o, rec) ==
  \A l \in Lish :
    /\ ver'.busy[l] = "moving" => WorksOf(rec, l, Moves) \/ (ver.busy[l] = "moving" /\ ~WorksOf(op[o], l, Moves))
    /\ ver'.busy[l] = "deleting" => WorksOf(rec, l, {"reset"}) \/ (ver.busy[l] = "deleting" /\ ~WorksOf(op[o], l, {"reset"}))

LEMMA BusyGoes ==
  ASSUME OpsKept, BusyKept, NEW o \in Op, NEW rec, OpGoes(o, rec), StaysBusy(o, rec)
  PROVE  BusyKept'
<1>1. op'[o] = rec /\ \A q \in Op : q # o => op'[q] = op[q]
  BY OpIs
<1>2. ASSUME NEW l \in Lish, NEW kinds, WorksOf(rec, l, kinds) PROVE Works(l, kinds)'
  BY <1>1, <1>2 DEF Works, WorksOf
<1>3. ASSUME NEW l \in Lish, NEW kinds, Works(l, kinds), ~WorksOf(op[o], l, kinds) PROVE Works(l, kinds)'
  <2>1. PICK q \in Op : WorksOf(op[q], l, kinds)
    BY <1>3 DEF Works, WorksOf
  <2>2. q # o
    BY <1>3, <2>1
  <2>3. QED
    BY <1>1, <2>1, <2>2 DEF Works, WorksOf
<1>4. ASSUME NEW l \in Lish
      PROVE  /\ (ver.busy[l] = "moving" => Works(l, Moves)) /\ (ver.busy[l] = "deleting" => Works(l, {"reset"}))
  BY DEF BusyKept, Moves
<1>5. ASSUME NEW l \in Lish
      PROVE  /\ (ver'.busy[l] = "moving" => Works(l, Moves)') /\ (ver'.busy[l] = "deleting" => Works(l, {"reset"})')
  BY <1>2, <1>3, <1>4 DEF StaysBusy
<1>6. QED
  BY <1>5 DEF BusyKept, Moves

LEMMA BusyStays ==
  ASSUME BusyKept, UNCHANGED op,
         \A l \in Lish : ver'.busy[l] = ver.busy[l] \/ ver'.busy[l] \in {"no", "verifying"}
  PROVE  BusyKept'
<1>1. ASSUME NEW l \in Lish, NEW kinds PROVE Works(l, kinds)' <=> Works(l, kinds)
  BY DEF Works
<1>2. QED
  BY <1>1 DEF BusyKept

\* While the factory reset has the gate, only finalizations go on.
LEMMA GateGoes ==
  ASSUME OpsKept, GateKept, UNCHANGED gate, NEW o \in Op, NEW rec, OpGoes(o, rec), ver'.stops = ver.stops,
         gate.phase \in {"stopping", "quiet"} => (rec.at = "idle" \/ rec.then = "finalized") /\ ver'.queue = ver.queue
  PROVE  GateKept'
<1>1. op'[o] = rec /\ \A q \in Op : q # o => op'[q] = op[q]
  BY OpIs
<1>2. ASSUME gate.phase \in {"stopping", "quiet"} PROVE Admitted' = {} /\ ver'.queue = <<>>
  <2>1. Admitted = {} /\ ver.queue = <<>>
    BY <1>2 DEF GateKept
  <2>2. ASSUME NEW q \in Op PROVE op'[q].at = "idle" \/ op'[q].then = "finalized"
    BY <1>1, <1>2, <2>1 DEF Admitted, Working
  <2>3. QED
    BY <1>2, <2>1, <2>2 DEF Admitted, Working
<1>3. QED
  BY <1>2 DEF GateKept

LEMMA GateStays ==
  ASSUME GateKept, UNCHANGED <<gate, op>>, ver'.stops = ver.stops,
         gate.phase \in {"stopping", "quiet"} => ver'.queue = ver.queue
  PROVE  GateKept'
<1>1. Admitted' = Admitted
  BY DEF Admitted, Working
<1>2. QED
  BY <1>1 DEF GateKept

\* ... which no call has begun, or is at, that waits for the gate.
LEMMA NotAdmitted ==
  ASSUME GateKept, gate.phase \in {"stopping", "quiet"}
  PROVE  gate.closed /\ \A o \in Op : op[o].at = "idle" \/ op[o].then = "finalized"
  BY DEF GateKept, Admitted, Working

LEMMA WatchedIs ==
  ASSUME QueueIsWatched, UNCHANGED gate, ~gate.closed /\ Watched(ver) => Watched(ver')
  PROVE  QueueIsWatched'
<1>1. ActiveRuns = ActiveOf(ver) /\ ActiveRuns' = ActiveOf(ver')
  BY DEF ActiveRuns, ActiveOf
<1>2. CASE gate.closed
  BY <1>2 DEF QueueIsWatched
<1>3. CASE ~gate.closed
  BY <1>1, <1>3 DEF QueueIsWatched, Watched
<1>4. QED
  BY <1>2, <1>3

LEMMA TimeIs ==
  ASSUME events \in 0 .. MaxEvents, Event \/ Quietly
  PROVE  /\ events' \in 0 .. MaxEvents /\ Passed /\ events \in Nat /\ events <= events'
         /\ Event => events' = events + 1
  BY StoreAssumption DEF Event, Quietly, Passed

LEMMA VerLater ==
  ASSUME NEW n \in Nat, NEW m \in Nat, n <= m, NEW v, VerKept(v, n)
  PROVE  VerKept(v, m)
<1>1. Cardinality(Spare(v)) \in Nat
  BY RunsAreFew DEF Spare, ActiveOf
<1>2. Cardinality(Spare(v)) <= m
  BY <1>1 DEF VerKept, VerShape
<1>3. QED
  BY <1>2 DEF VerKept, VerShape

LEMMA NoOpIs == NoOp \in OpType /\ OpFits(NoOp) /\ NoOp.at = "idle"
<1>1. (CHOOSE l \in Lish : TRUE) \in Lish
  BY StoreAssumption
<1>2. QED
  BY <1>1 DEF NoOp, OpType, OpFits

LEMMA CreationGoes ==
  ASSUME OpsKept, CreationKept, NEW o \in Op, NEW rec, OpGoes(o, rec),
         creation' \in {creation, None, o}, creation' = o => rec.at = "scan"
  PROVE  CreationKept'
<1>1. op'[o] = rec /\ \A q \in Op : q # o => op'[q] = op[q]
  BY OpIs
<1>2. QED
  BY <1>1 DEF CreationKept

\* No creation is at work on behalf of another call.
LEMMA CreationStays ==
  ASSUME OpsKept, CreationKept, NEW o \in Op, NEW rec, OpGoes(o, rec), op[o].at # "scan", UNCHANGED creation
  PROVE  CreationKept'
<1>1. op'[o] = rec /\ \A q \in Op : q # o => op'[q] = op[q]
  BY OpIs
<1>2. QED
  BY <1>1 DEF CreationKept

RowShape == [on : BOOLEAN, dir : Place \cup {Nowhere}, final : Place \cup {Nowhere}, gen : Nat]
LEMMA RowsGo ==
  ASSUME RowsAre(row), events' \in 0 .. MaxEvents, GenKept',
         NEW l \in Lish, NEW R \in RowShape, R.on => R.dir \in Place, row' = [row EXCEPT ![l] = R]
  PROVE  RowsAre(row')
<1>1. row \in [Lish -> RowType]
  BY DEF RowsAre
<1>2. row'[l] = R
  BY <1>1
<1>3. Cardinality(Making(l)') \in Nat
  <2>1. Making(l)' \subseteq Op
    BY DEF Making
  <2>2. IsFiniteSet(Making(l)')
    BY <2>1, StoreAssumption, FS_Subset
  <2>3. QED
    BY <2>2, FS_CardinalityType
<1>4. R.gen + Cardinality(Making(l)') <= events' + 1
  BY <1>2 DEF GenKept
<1>5. R.gen \in Nat
  BY DEF RowShape
<1>6. R.gen \in 0 .. MaxEvents + 1
  <2>1. ASSUME NEW a \in Nat, NEW e \in 0 .. MaxEvents, NEW g \in Nat, g + a <= e + 1 PROVE g \in 0 .. MaxEvents + 1
    <3>1. MaxEvents \in Nat
      BY StoreAssumption
    <3>2. QED
      BY <2>1, <3>1
  <2>2. QED
    BY <1>3, <1>4, <1>5, <2>1
<1>7. R \in RowType
  BY <1>6 DEF RowType, RowShape
<1>8. row' \in [Lish -> RowType]
  BY <1>1, <1>7
<1>9. \A x \in Lish : row'[x].on => row'[x].dir \in Place
  BY <1>1 DEF RowsAre
<1>10. QED
  BY <1>8, <1>9 DEF RowsAre

\* The row of a LISH moves, or is lost, or a part of it changes.
LEMMA GensStay ==
  ASSUME RowsAre(row), NEW l \in Lish, NEW R, row' = [row EXCEPT ![l] = R], R.gen = row[l].gen
  PROVE  \A x \in Lish : row'[x].gen = row[x].gen
<1>1. row \in [Lish -> RowType]
  BY DEF RowsAre
<1>2. QED
  BY <1>1

\* All that is kept, from its parts, where a call goes on.
CallGoes(o, rec) ==
  /\ OpGoes(o, rec) /\ UNCHANGED gate /\ ver'.stops = ver.stops /\ StaysBusy(o, rec)
  /\ VerKept(ver', events') /\ (Watched(ver) => Watched(ver'))
  /\ gate.phase \in {"stopping", "quiet"} => (rec.at = "idle" \/ rec.then = "finalized") /\ ver'.queue = ver.queue

LEMMA CallKept ==
  ASSUME CoreInv, events' \in 0 .. MaxEvents, RowsAre(row'), CreationKept', GenKept',
         NEW o \in Op, NEW rec, CallGoes(o, rec)
  PROVE  CoreInv'
<1> USE DEF CallGoes, CoreInv
<1>1. OpsKept'
  BY OpIs
<1>2. BusyKept'
  BY BusyGoes
<1>3. GateKept'
  BY GateGoes
<1>4. QueueIsWatched'
  BY WatchedIs
<1>5. QED
  BY <1>1, <1>2, <1>3, <1>4

\* Calls that leave the verifications alone.
LEMMA QuietCall ==
  ASSUME CoreInv, Event \/ Quietly, NEW o \in Op, NEW rec, OpGoes(o, rec), UNCHANGED <<ver, gate>>,
         \A l \in Lish : WorksOf(op[o], l, Moves) => WorksOf(rec, l, Moves),
         \A l \in Lish : WorksOf(op[o], l, {"reset"}) => WorksOf(rec, l, {"reset"}),
         gate.phase \in {"stopping", "quiet"} => rec.at = "idle" \/ rec.then = "finalized"
  PROVE  CallGoes(o, rec)
<1>1. events' \in 0 .. MaxEvents /\ events \in Nat /\ events' \in Nat /\ events <= events'
  BY TimeIs DEF CoreInv
<1>2. VerKept(ver', events')
  BY <1>1, VerLater DEF CoreInv
<1>3. StaysBusy(o, rec)
  BY DEF StaysBusy
<1>4. QED
  BY <1>2, <1>3 DEF CallGoes

\* ... nor does a call stay between a LISH and its being free.
LEMMA FreedCall ==
  ASSUME CoreInv, Event \/ Quietly, NEW o \in Op, NEW rec, OpGoes(o, rec), UNCHANGED gate,
         ver' = ClearBusy(ver, op[o].lish),
         rec.at = "idle"
  PROVE  CallGoes(o, rec)
<1>1. events' \in 0 .. MaxEvents /\ events \in Nat /\ events' \in Nat /\ events <= events'
  BY TimeIs DEF CoreInv
<1>2. op[o].lish \in Lish
  BY DEF CoreInv, OpsKept, OpType
<1>3. "no" \in Reasons /\ ver \in VerType
  BY DEF Reasons, CoreInv, VerKept, VerShape
<1> DEFINE l == op[o].lish
<1>4. ver' = SetBusy(ver, l, "no")
  BY <1>2, <1>3, ClearIs
<1>5. /\ VerKept(ver', events) /\ ActiveOf(ver') = ActiveOf(ver) /\ ver'.stops = ver.stops /\ ver'.queue = ver.queue
      /\ \A x \in Lish : ver'.busy[x] = IF x = l THEN "no" ELSE ver.busy[x]
  BY <1>2, <1>3, <1>4, FreedKeeps DEF CoreInv
<1>6. VerKept(ver', events')
  BY <1>1, <1>5, VerLater
<1>7. StaysBusy(o, rec)
  BY <1>5 DEF StaysBusy, WorksOf
<1>8. Watched(ver) => Watched(ver')
  BY <1>5 DEF Watched
<1>9. QED
  BY <1>5, <1>6, <1>7, <1>8 DEF CallGoes

-----------------------------------------------------------------------------
(* What is kept by each call, in turn.                                     *)

LEMMA CallIs ==
  ASSUME CoreInv, NEW o \in Op
  PROVE  op[o] \in OpType /\ OpFits(op[o]) /\ op[o].lish \in Lish
  BY DEF CoreInv, OpsKept, OpType

LEMMA SameCall ==
  ASSUME CoreInv, Event \/ Quietly, NEW o \in Op, NEW rec, OpGoes(o, rec), UNCHANGED <<ver, gate, creation>>,
         rec.lish = op[o].lish, rec.then = op[o].then, rec.at # "idle", op[o].at \notin {"idle", "scan"},
         rec.at \in {"scan", "fetch", "mkdir"} => op[o].at \in {"scan", "fetch", "mkdir"},
         \A l \in Lish : row'[l].gen = row[l].gen
  PROVE  CallGoes(o, rec) /\ GenKept' /\ CreationKept'
<1>1. \A l \in Lish : MakesOf(rec, l) => MakesOf(op[o], l)
  BY DEF MakesOf
<1>2. GenKept'
  BY <1>1, GenGoes, TimeIs DEF CoreInv
<1>3. CreationKept'
  BY CreationStays DEF CoreInv
<1>4. \A l \in Lish : \A kinds : WorksOf(op[o], l, kinds) => WorksOf(rec, l, kinds)
  BY DEF WorksOf
<1>5. gate.phase \in {"stopping", "quiet"} => rec.at = "idle" \/ rec.then = "finalized"
  BY NotAdmitted DEF CoreInv
<1>6. CallGoes(o, rec)
  BY <1>4, <1>5, QuietCall
<1>7. QED
  BY <1>2, <1>3, <1>6

LEMMA EndedCall ==
  ASSUME CoreInv, Event \/ Quietly, NEW o \in Op, Ends(o), UNCHANGED <<ver, gate, creation>>,
         op[o].then \notin {"moved", "finalized", "reset"}, op[o].at # "scan",
         \A l \in Lish : row'[l].gen = row[l].gen
  PROVE  CallGoes(o, NoOp) /\ GenKept' /\ CreationKept'
<1>0. OpGoes(o, NoOp) /\ NoOp.at = "idle"
  BY NoOpIs DEF OpGoes, Ends
<1>1. \A l \in Lish : ~MakesOf(NoOp, l)
  BY <1>0 DEF MakesOf
<1>2. GenKept'
  BY <1>0, <1>1, GenGoes, TimeIs DEF CoreInv
<1>3. CreationKept'
  BY <1>0, CreationStays DEF CoreInv
<1>4. \A l \in Lish : ~WorksOf(op[o], l, Moves) /\ ~WorksOf(op[o], l, {"reset"})
  BY DEF WorksOf, Moves
<1>5. CallGoes(o, NoOp)
  BY <1>0, <1>4, QuietCall
<1>6. QED
  BY <1>2, <1>3, <1>5

LEMMA FinalCall ==
  ASSUME CoreInv, Event \/ Quietly, NEW o \in Op, Finally(o), UNCHANGED <<gate, creation>>,
         op[o].at # "scan", \A l \in Lish : row'[l].gen = row[l].gen
  PROVE  CallGoes(o, NoOp) /\ GenKept' /\ CreationKept'
<1>0. OpGoes(o, NoOp) /\ NoOp.at = "idle"
  BY NoOpIs DEF OpGoes, Finally, Ends
<1>1. \A l \in Lish : ~MakesOf(NoOp, l)
  BY <1>0 DEF MakesOf
<1>2. GenKept'
  BY <1>0, <1>1, GenGoes, TimeIs DEF CoreInv
<1>3. CreationKept'
  BY <1>0, CreationStays DEF CoreInv
<1>4. CallGoes(o, NoOp)
  BY <1>0, FreedCall DEF Finally
<1>5. QED
  BY <1>2, <1>3, <1>4

LEMMA BegunCall ==
  ASSUME CoreInv, Event, NEW o \in Op, NEW rec, OpGoes(o, rec), UNCHANGED <<row, ver, gate>>,
         op[o].at = "idle", ~gate.closed
  PROVE  CallGoes(o, rec) /\ GenKept'
<1>1. GenKept'
  BY GenGoes, TimeIs DEF CoreInv
<1>2. \A l \in Lish : \A kinds : ~WorksOf(op[o], l, kinds)
  BY DEF WorksOf
<1>3. gate.phase \notin {"stopping", "quiet"}
  BY NotAdmitted DEF CoreInv
<1>4. CallGoes(o, rec)
  BY <1>2, <1>3, QuietCall
<1>5. QED
  BY <1>1, <1>4

LEMMA SameRows ==
  ASSUME CoreInv, UNCHANGED row
  PROVE  RowsAre(row') /\ \A l \in Lish : row'[l].gen = row[l].gen
  BY DEF CoreInv

LEMMA CopiesKeeps == ASSUME CoreInv, NEW o \in Op, Copies(o) PROVE CoreInv'
<1> DEFINE rec == [op[o] EXCEPT !.left = @ \ {NextFile(op[o].left)}]
<1>1. op' = [op EXCEPT ![o] = rec] /\ Quietly /\ UNCHANGED <<row, ver, gate, creation>> /\ op[o].at = "copy"
  BY DEF Copies, To, storeVars
<1>2. rec \in OpType /\ rec.at = "copy" /\ rec.lish = op[o].lish /\ rec.then = op[o].then /\ OpFits(rec)
  BY <1>1, CallIs DEF OpType, OpFits
<1> HIDE DEF rec
<1>3. CallGoes(o, rec) /\ GenKept' /\ CreationKept'
  BY <1>1, <1>2, SameRows, SameCall DEF OpGoes
<1>4. QED
  BY <1>1, <1>3, SameRows, TimeIs, CallKept DEF CoreInv

LEMMA AcrossKeeps == ASSUME CoreInv, NEW o \in Op, AcrossDisks(o) PROVE CoreInv'
<1> DEFINE rec == [op[o] EXCEPT !.at = "copy", !.left = Piece]
<1>1. op' = [op EXCEPT ![o] = rec] /\ Quietly /\ UNCHANGED <<row, ver, gate, creation>> /\ op[o].at = "rename"
  BY DEF AcrossDisks, To, storeVars
<1>2. rec \in OpType /\ rec.at = "copy" /\ rec.lish = op[o].lish /\ rec.then = op[o].then /\ OpFits(rec)
  BY <1>1, CallIs DEF OpType, OpFits
<1> HIDE DEF rec
<1>3. CallGoes(o, rec) /\ GenKept' /\ CreationKept'
  BY <1>1, <1>2, SameRows, SameCall DEF OpGoes
<1>4. QED
  BY <1>1, <1>3, SameRows, TimeIs, CallKept DEF CoreInv

LEMMA UnlinksKeeps == ASSUME CoreInv, NEW o \in Op, Unlinks(o) PROVE CoreInv'
<1>1. PICK left \in SUBSET Piece : op' = [op EXCEPT ![o] = [op[o] EXCEPT !.left = left]]
  <2>1. op[o].left \in SUBSET Piece
    BY CallIs DEF OpType
  <2>2. CASE op[o].wipe
    BY <2>2 DEF Unlinks, To
  <2>3. CASE ~op[o].wipe
    BY <2>1, <2>3 DEF Unlinks, To
  <2>4. QED
    BY <2>2, <2>3
<1> DEFINE rec == [op[o] EXCEPT !.left = left]
<1>2. Quietly /\ UNCHANGED <<row, ver, gate, creation>> /\ op[o].at = "unlink"
  BY DEF Unlinks, storeVars
<1>3. rec \in OpType /\ rec.at = "unlink" /\ rec.lish = op[o].lish /\ rec.then = op[o].then /\ OpFits(rec)
  BY <1>2, CallIs DEF OpType, OpFits
<1>4. op' = [op EXCEPT ![o] = rec]
  BY <1>1
<1> HIDE DEF rec
<1>5. CallGoes(o, rec) /\ GenKept' /\ CreationKept'
  BY <1>2, <1>3, <1>4, SameRows, SameCall DEF OpGoes
<1>6. QED
  BY <1>2, <1>5, SameRows, TimeIs, CallKept DEF CoreInv

LEMMA FetchFailsKeeps == ASSUME CoreInv, NEW o \in Op, FetchFails(o) PROVE CoreInv'
<1>1. Ends(o) /\ Event /\ UNCHANGED <<row, ver, gate, creation>> /\ op[o].at = "fetch"
  BY DEF FetchFails, storeVars
<1>2. op[o].then \in {"share", "download"}
  BY <1>1, CallIs DEF OpFits
<1>3. CallGoes(o, NoOp) /\ GenKept' /\ CreationKept'
  BY <1>1, <1>2, SameRows, EndedCall
<1>4. QED
  BY <1>1, <1>3, SameRows, TimeIs, CallKept DEF CoreInv

LEMMA ImportFailsKeeps == ASSUME CoreInv, NEW o \in Op, ImportFails(o) PROVE CoreInv'
<1>1. Ends(o) /\ Event /\ UNCHANGED <<row, ver, gate, creation>> /\ op[o].at = "mkdir"
  BY DEF ImportFails, storeVars
<1>2. op[o].then \in {"share", "download"}
  BY <1>1, CallIs DEF OpFits
<1>3. CallGoes(o, NoOp) /\ GenKept' /\ CreationKept'
  BY <1>1, <1>2, SameRows, EndedCall
<1>4. QED
  BY <1>1, <1>3, SameRows, TimeIs, CallKept DEF CoreInv

LEMMA CreateKeeps == ASSUME CoreInv, NEW o \in Op, NEW l \in Lish, Create(o, l) PROVE CoreInv'
<1> DEFINE rec == [NoOp EXCEPT !.at = "scan", !.lish = l]
<1>1. /\ op' = [op EXCEPT ![o] = rec] /\ Event /\ UNCHANGED <<row, ver, gate>> /\ op[o].at = "idle" /\ ~gate.closed
      /\ creation' = o
  BY DEF Create, Starts, To, storeVars
<1>2. rec \in OpType /\ rec.at = "scan" /\ OpFits(rec)
  BY NoOpIs DEF OpType, OpFits, NoOp
<1> HIDE DEF rec
<1>3. CallGoes(o, rec) /\ GenKept'
  BY <1>1, <1>2, BegunCall DEF OpGoes
<1>4. CreationKept'
  BY <1>1, <1>2, CreationGoes DEF CoreInv, OpGoes
<1>5. QED
  BY <1>1, <1>3, <1>4, SameRows, TimeIs, CallKept DEF CoreInv

LEMMA ImportsKeeps == ASSUME CoreInv, NEW o \in Op, NEW l \in Lish, Imports(o, l) PROVE CoreInv'
<1>0. PICK kind \in {"share", "download"} : To(o, [NoOp EXCEPT !.at = "fetch", !.lish = l, !.then = kind])
  BY DEF Imports
<1> DEFINE rec == [NoOp EXCEPT !.at = "fetch", !.lish = l, !.then = kind]
<1>1. /\ op' = [op EXCEPT ![o] = rec] /\ Event /\ UNCHANGED <<row, ver, gate, creation>> /\ op[o].at = "idle"
      /\ ~gate.closed
  BY <1>0 DEF Imports, Starts, To, storeVars
<1>2. rec \in OpType /\ rec.at = "fetch" /\ OpFits(rec)
  BY NoOpIs DEF OpType, OpFits, NoOp
<1> HIDE DEF rec
<1>3. CallGoes(o, rec) /\ GenKept'
  BY <1>1, <1>2, BegunCall DEF OpGoes
<1>4. CreationKept'
  BY <1>1, <1>2, CreationStays DEF CoreInv, OpGoes
<1>5. QED
  BY <1>1, <1>3, <1>4, SameRows, TimeIs, CallKept DEF CoreInv

LEMMA StopCreateKeeps == ASSUME CoreInv, StopCreate PROVE CoreInv'
<1> DEFINE o == creation
           rec == [op[o] EXCEPT !.then = "cancelled"]
<1>1. o \in Op /\ op[o].at = "scan"
  BY DEF StopCreate, CoreInv, CreationKept
<1>2. op' = [op EXCEPT ![o] = rec] /\ creation' = None /\ Event /\ UNCHANGED <<row, ver, gate>>
  <2>1. op \in [Op -> OpType]
    BY DEF CoreInv, OpsKept
  <2>2. QED
    BY <2>1 DEF StopCreate, storeVars
<1>3. rec \in OpType /\ rec.at = "scan" /\ OpFits(rec) /\ op[o].then \in {"nothing", "cancelled"}
  BY <1>1, CallIs DEF OpType, OpFits
<1> HIDE DEF rec
<1>4. CreationKept'
  BY <1>2 DEF CreationKept
<1>5. GenKept'
  BY <1>1, <1>2, <1>3, SameRows, GenGoes, TimeIs DEF CoreInv, OpGoes
<1>6. gate.phase \notin {"stopping", "quiet"}
  BY <1>1, <1>3, NotAdmitted DEF CoreInv
<1>7. \A l \in Lish : ~WorksOf(op[o], l, Moves) /\ ~WorksOf(op[o], l, {"reset"})
  BY <1>3 DEF WorksOf, Moves
<1>8. CallGoes(o, rec)
  BY <1>1, <1>2, <1>3, <1>6, <1>7, QuietCall DEF OpGoes
<1>9. QED
  BY <1>1, <1>2, <1>4, <1>5, <1>8, SameRows, TimeIs, CallKept DEF CoreInv

\* A call that changes the row of its LISH, not its generation.
LEMMA RowOfCall ==
  ASSUME CoreInv, Event \/ Quietly, GenKept', NEW l \in Lish, NEW R \in RowShape, R.on => R.dir \in Place,
         row' = [row EXCEPT ![l] = R]
  PROVE  RowsAre(row')
<1>1. RowsAre(row) /\ events' \in 0 .. MaxEvents
  BY TimeIs DEF CoreInv
<1>2. QED
  BY <1>1, RowsGo

LEMMA SameGens ==
  ASSUME CoreInv, NEW l \in Lish, NEW R, R.gen = row[l].gen, row' = [row EXCEPT ![l] = R]
  PROVE  \A x \in Lish : row'[x].gen = row[x].gen
  BY GensStay DEF CoreInv

LEMMA RowIs ==
  ASSUME CoreInv, NEW l \in Lish
  PROVE  row[l] \in RowShape /\ (row[l].on => row[l].dir \in Place) /\ row \in [Lish -> RowType]
<1>1. row[l] \in RowType
  BY DEF CoreInv, RowsAre
<1>2. row[l] \in RowShape
  BY <1>1 DEF RowType, RowShape
<1>3. QED
  BY <1>2 DEF CoreInv, RowsAre

LEMMA FetchedKeeps == ASSUME CoreInv, NEW o \in Op, Fetched(o) PROVE CoreInv'
<1> DEFINE l == op[o].lish
<1>1. Quietly /\ UNCHANGED <<ver, gate, creation>> /\ op[o].at = "fetch" /\ l \in Lish
  BY CallIs DEF Fetched
<1>2. op[o].then \in {"share", "download"}
  BY <1>1, CallIs DEF OpFits
<1>3. CASE Ends(o) /\ UNCHANGED row
  <2>1. CallGoes(o, NoOp) /\ GenKept' /\ CreationKept'
    BY <1>1, <1>2, <1>3, SameRows, EndedCall
  <2>2. QED
    BY <1>1, <1>3, <2>1, SameRows, TimeIs, CallKept DEF CoreInv
<1>4. CASE To(o, [op[o] EXCEPT !.at = "mkdir"]) /\ row' = [row EXCEPT ![l] = [NoRow EXCEPT !.gen = row[l].gen]]
  <2> DEFINE rec == [op[o] EXCEPT !.at = "mkdir"]
  <2>1. rec \in OpType /\ rec.at = "mkdir" /\ rec.lish = op[o].lish /\ rec.then = op[o].then /\ OpFits(rec)
    BY <1>2, CallIs DEF OpType, OpFits
  <2>2. op' = [op EXCEPT ![o] = rec]
    BY <1>4 DEF To
  <2> HIDE DEF rec
  <2> DEFINE R == [NoRow EXCEPT !.gen = row[l].gen]
  <2>3. row' = [row EXCEPT ![l] = R] /\ R \in RowShape /\ R.gen = row[l].gen /\ ~R.on
    BY <1>1, <1>4, RowIs DEF NoRow, RowShape
  <2> HIDE DEF l, R
  <2>4. \A x \in Lish : row'[x].gen = row[x].gen
    BY <1>1, <2>3, SameGens
  <2>5. CallGoes(o, rec) /\ GenKept' /\ CreationKept'
    BY <1>1, <2>1, <2>2, <2>4, SameCall DEF OpGoes
  <2>6. RowsAre(row')
    BY <1>1, <2>3, <2>5, RowOfCall
  <2>7. QED
    BY <1>1, <2>5, <2>6, TimeIs, CallKept DEF CoreInv
<1>5. QED
  BY <1>3, <1>4 DEF Fetched

LEMMA DroppedKeeps == ASSUME CoreInv, NEW o \in Op, Dropped(o) PROVE CoreInv'
<1> DEFINE l == op[o].lish
<1>1. Ends(o) /\ Quietly /\ UNCHANGED <<ver, gate, creation>> /\ op[o].at = "unlink" /\ op[o].then = "drop" /\ l \in Lish
  BY CallIs DEF Dropped
<1> DEFINE R == [NoRow EXCEPT !.gen = row[l].gen]
<1>2. row' = [row EXCEPT ![l] = R] /\ R \in RowShape /\ R.gen = row[l].gen /\ ~R.on
  BY <1>1, RowIs DEF Dropped, NoRow, RowShape
<1> HIDE DEF l, R
<1>3. \A x \in Lish : row'[x].gen = row[x].gen
  BY <1>1, <1>2, SameGens
<1>4. CallGoes(o, NoOp) /\ GenKept' /\ CreationKept'
  BY <1>1, <1>3, EndedCall
<1>5. RowsAre(row')
  BY <1>1, <1>2, <1>4, RowOfCall
<1>6. QED
  BY <1>1, <1>4, <1>5, TimeIs, CallKept DEF CoreInv

LEMMA CopiedKeeps == ASSUME CoreInv, NEW o \in Op, Copied(o) PROVE CoreInv'
<1> DEFINE l == op[o].lish
           rec == Unlinking(op[o], op[o].from, op[o].wipe, op[o].then)
<1>1. /\ op' = [op EXCEPT ![o] = rec] /\ Quietly /\ UNCHANGED <<ver, gate, creation>> /\ op[o].at = "copy" /\ l \in Lish
  BY CallIs DEF Copied, To
<1>2. /\ rec \in OpType /\ rec.at = "unlink" /\ rec.lish = op[o].lish /\ rec.then = op[o].then /\ OpFits(rec)
      /\ op[o].to \in Place
  BY <1>1, CallIs DEF OpType, OpFits, Unlinking
<1> HIDE DEF rec
<1>3. PICK R \in RowShape : (R.on => R.dir \in Place) /\ R.gen = row[l].gen /\ row' = [row EXCEPT ![l] = R]
  <2>0. row[l] \in RowShape /\ (row[l].on => row[l].dir \in Place) /\ row \in [Lish -> RowType]
    BY <1>1, RowIs
  <2>1. CASE op[o].then = "finalized" /\ row[l].on
    <3> DEFINE R == [row[l] EXCEPT !.dir = op[o].to, !.final = Nowhere]
    <3>1. R \in RowShape /\ R.gen = row[l].gen /\ R.dir \in Place
      BY <1>2, <2>0, <2>1 DEF RowShape
    <3>2. row' = [row EXCEPT ![l] = R]
      BY <2>0, <2>1 DEF Copied
    <3> HIDE DEF R
    <3>3. QED
      BY <3>1, <3>2
  <2>2. CASE ~(op[o].then = "finalized" /\ row[l].on)
    <3>1. row' = [row EXCEPT ![l] = row[l]]
      BY <2>0, <2>2 DEF Copied
    <3>2. QED
      BY <2>0, <3>1
  <2>3. QED
    BY <2>1, <2>2
<1> HIDE DEF l
<1>4. \A x \in Lish : row'[x].gen = row[x].gen
  BY <1>1, <1>3, SameGens
<1>5. CallGoes(o, rec) /\ GenKept' /\ CreationKept'
  BY <1>1, <1>2, <1>4, SameCall DEF OpGoes
<1>6. RowsAre(row')
  BY <1>1, <1>3, <1>5, RowOfCall
<1>7. QED
  BY <1>1, <1>5, <1>6, TimeIs, CallKept DEF CoreInv

LEMMA MovedKeepsAll == ASSUME CoreInv, NEW o \in Op, Moved(o) PROVE CoreInv'
<1> DEFINE l == op[o].lish
<1>1. Finally(o) /\ Quietly /\ UNCHANGED <<gate, creation>> /\ op[o].at = "unlink" /\ l \in Lish
  BY CallIs DEF Moved
<1>2. op[o].then = "moved" => op[o].to \in Place
  BY <1>1, CallIs DEF OpFits
<1>3. PICK R \in RowShape : (R.on => R.dir \in Place) /\ R.gen = row[l].gen /\ row' = [row EXCEPT ![l] = R]
  <2>0. row[l] \in RowShape /\ (row[l].on => row[l].dir \in Place) /\ row \in [Lish -> RowType]
    BY <1>1, RowIs
  <2>1. CASE op[o].then = "moved" /\ row[l].on
    <3> DEFINE R == [row[l] EXCEPT !.dir = op[o].to]
    <3>1. R \in RowShape /\ R.gen = row[l].gen /\ R.dir \in Place
      BY <1>2, <2>0, <2>1 DEF RowShape
    <3>2. row' = [row EXCEPT ![l] = R]
      BY <2>0, <2>1 DEF Moved
    <3> HIDE DEF R
    <3>3. QED
      BY <3>1, <3>2
  <2>2. CASE ~(op[o].then = "moved" /\ row[l].on)
    <3>1. row' = [row EXCEPT ![l] = row[l]]
      BY <2>0, <2>2 DEF Moved
    <3>2. QED
      BY <2>0, <3>1
  <2>3. QED
    BY <2>1, <2>2
<1> HIDE DEF l
<1>4. \A x \in Lish : row'[x].gen = row[x].gen
  BY <1>1, <1>3, SameGens
<1>5. CallGoes(o, NoOp) /\ GenKept' /\ CreationKept'
  BY <1>1, <1>4, FinalCall
<1>6. RowsAre(row')
  BY <1>1, <1>3, <1>5, RowOfCall
<1>7. QED
  BY <1>1, <1>5, <1>6, TimeIs, CallKept DEF CoreInv

LEMMA RenamedKeeps == ASSUME CoreInv, NEW o \in Op, Renamed(o) PROVE CoreInv'
<1> DEFINE l == op[o].lish
<1>1. Finally(o) /\ Quietly /\ UNCHANGED <<gate, creation>> /\ op[o].at = "rename" /\ l \in Lish
  BY CallIs DEF Renamed
<1>2. op[o].to \in Place
  BY <1>1, CallIs DEF OpFits
<1>3. PICK R \in RowShape : (R.on => R.dir \in Place) /\ R.gen = row[l].gen /\ row' = [row EXCEPT ![l] = R]
  <2>0. row[l] \in RowShape /\ (row[l].on => row[l].dir \in Place) /\ row \in [Lish -> RowType]
    BY <1>1, RowIs
  <2>1. CASE row[l].on
    <3> DEFINE R == [row[l] EXCEPT !.dir = op[o].to, !.final = Nowhere]
    <3>1. R \in RowShape /\ R.gen = row[l].gen /\ R.dir \in Place
      BY <1>2, <2>0, <2>1 DEF RowShape
    <3>2. row' = [row EXCEPT ![l] = R]
      BY <2>0, <2>1 DEF Renamed
    <3> HIDE DEF R
    <3>3. QED
      BY <3>1, <3>2
  <2>2. CASE ~row[l].on
    <3>1. row' = [row EXCEPT ![l] = row[l]]
      BY <2>0, <2>2 DEF Renamed
    <3>2. QED
      BY <2>0, <3>1
  <2>3. QED
    BY <2>1, <2>2
<1> HIDE DEF l
<1>4. \A x \in Lish : row'[x].gen = row[x].gen
  BY <1>1, <1>3, SameGens
<1>5. CallGoes(o, NoOp) /\ GenKept' /\ CreationKept'
  BY <1>1, <1>4, FinalCall
<1>6. RowsAre(row')
  BY <1>1, <1>3, <1>5, RowOfCall
<1>7. QED
  BY <1>1, <1>5, <1>6, TimeIs, CallKept DEF CoreInv

LEMMA RenameFailsKeeps == ASSUME CoreInv, NEW o \in Op, RenameFails(o) PROVE CoreInv'
<1>1. Finally(o) /\ (Event \/ Quietly) /\ UNCHANGED <<row, gate, creation>> /\ op[o].at = "rename"
  BY DEF RenameFails, storeVars
<1>2. CallGoes(o, NoOp) /\ GenKept' /\ CreationKept'
  BY <1>1, SameRows, FinalCall
<1>3. QED
  BY <1>1, <1>2, SameRows, TimeIs, CallKept DEF CoreInv

LEMMA CopyFailsKeeps == ASSUME CoreInv, NEW o \in Op, CopyFails(o) PROVE CoreInv'
<1>1. (Event \/ Quietly) /\ UNCHANGED <<row, gate, creation>> /\ op[o].at = "copy"
  BY DEF CopyFails, HalfCopied, storeVars
<1>2. CASE op[o].then = "moved"
  <2>1. Finally(o)
    BY <1>2 DEF CopyFails
  <2>2. CallGoes(o, NoOp) /\ GenKept' /\ CreationKept'
    BY <1>1, <2>1, SameRows, FinalCall
  <2>3. QED
    BY <1>1, <2>2, SameRows, TimeIs, CallKept DEF CoreInv
<1>3. CASE op[o].then # "moved"
  <2> DEFINE rec == Unlinking(op[o], op[o].to, TRUE, "finalized")
  <2>1. op' = [op EXCEPT ![o] = rec] /\ UNCHANGED ver
    BY <1>3 DEF CopyFails, To
  <2>2. rec \in OpType /\ rec.at = "unlink" /\ rec.lish = op[o].lish /\ rec.then = op[o].then /\ OpFits(rec)
    BY <1>1, <1>3, CallIs DEF OpType, OpFits, Unlinking
  <2> HIDE DEF rec
  <2>3. CallGoes(o, rec) /\ GenKept' /\ CreationKept'
    BY <1>1, <2>1, <2>2, SameRows, SameCall DEF OpGoes
  <2>4. QED
    BY <1>1, <2>3, SameRows, TimeIs, CallKept DEF CoreInv
<1>4. QED
  BY <1>2, <1>3

\* A call ends with its LISH put in the queue.
LEMMA QueuedCall ==
  ASSUME CoreInv, Quietly, NEW o \in Op, Ends(o), RowsAre(row'), UNCHANGED gate,
         op[o].at # "idle", op[o].then \notin {"moved", "finalized", "reset"}, ver' = Enqueue(ver, op[o].lish)
  PROVE  CallGoes(o, NoOp)
<1> DEFINE l == op[o].lish
<1>0. OpGoes(o, NoOp) /\ NoOp.at = "idle"
  BY NoOpIs DEF OpGoes, Ends
<1>1. l \in Lish /\ events' = events /\ events \in 0 .. MaxEvents
  BY CallIs DEF Quietly, CoreInv
<1>2. VerShape(ver, events) /\ VerifyingBut(ver, {l})
  BY DEF CoreInv, VerKept, VerifyingBut
<1> HIDE DEF l
<1>3. /\ VerKept(Enqueue(ver, l), events) /\ OnlyVerifies(ver, Enqueue(ver, l)) /\ Enqueue(ver, l).stops = ver.stops
      /\ Watched(ver) => Watched(Enqueue(ver, l))
  BY <1>1, <1>2, EnqueueKeeps
<1>4. ver' = Enqueue(ver, l)
  BY DEF l
<1>5. gate.phase \notin {"stopping", "quiet"}
  BY NotAdmitted DEF CoreInv
<1>6. StaysBusy(o, NoOp)
  BY <1>3, <1>4 DEF StaysBusy, OnlyVerifies, WorksOf, Moves
<1>7. QED
  BY <1>0, <1>1, <1>3, <1>4, <1>5, <1>6 DEF CallGoes

LEMMA CreatedKeeps == ASSUME CoreInv, NEW o \in Op, Created(o) PROVE CoreInv'
<1> DEFINE l == op[o].lish
<1>1. Quietly /\ Ends(o) /\ UNCHANGED gate /\ op[o].at = "scan" /\ l \in Lish
  BY CallIs DEF Created
<1>2. op[o].then \in {"nothing", "cancelled"}
  BY <1>1, CallIs DEF OpFits
<1>3. OpGoes(o, NoOp) /\ NoOp.at = "idle"
  BY <1>1, NoOpIs DEF OpGoes, Ends
<1>4. CreationKept'
  <2>1. creation' = IF creation = o THEN None ELSE creation
    BY DEF Created
  <2>2. op'[o] = NoOp /\ \A q \in Op : q # o => op'[q] = op[q]
    BY <1>3, OpIs DEF CoreInv
  <2>3. QED
    BY <2>1, <2>2 DEF CoreInv, CreationKept
<1>5. CASE op[o].then = "cancelled"
  <2>1. UNCHANGED <<row, ver>>
    BY <1>5 DEF Created, storeVars
  <2>2. \A x \in Lish : ~MakesOf(NoOp, x)
    BY <1>3 DEF MakesOf
  <2>3. GenKept'
    BY <1>1, <1>3, <2>1, <2>2, SameRows, GenGoes, TimeIs DEF CoreInv
  <2>4. \A x \in Lish : ~WorksOf(op[o], x, Moves) /\ ~WorksOf(op[o], x, {"reset"})
    BY <1>2 DEF WorksOf, Moves
  <2>5. CallGoes(o, NoOp)
    BY <1>1, <1>3, <2>1, <2>4, QuietCall
  <2>6. QED
    BY <1>1, <1>4, <2>1, <2>3, <2>5, SameRows, TimeIs, CallKept DEF CoreInv
<1>6. CASE op[o].then # "cancelled"
  <2>1. Adds(l, "home", Nowhere) /\ ver' = Enqueue(ver, l)
    BY <1>6 DEF Created
  <2> DEFINE R == [on |-> TRUE, dir |-> "home", final |-> Nowhere, gen |-> row[l].gen + 1]
  <2>2. row \in [Lish -> RowType] /\ row[l] \in RowShape
    BY <1>1, RowIs
  <2>3. row' = [row EXCEPT ![l] = R]
    BY <2>1, <2>2 DEF Adds
  <2>4. R \in RowShape /\ R.gen = row[l].gen + 1 /\ R.dir \in Place
    BY <2>2 DEF RowShape, Place
  <2> HIDE DEF R
  <2>5. \A x \in Lish : row'[x].gen = IF x = l THEN row[x].gen + 1 ELSE row[x].gen
    BY <2>2, <2>3, <2>4
  <2>6. GenKept'
    BY <1>1, <1>3, <2>5, GenMade, TimeIs DEF CoreInv
  <2>7. RowsAre(row')
    BY <1>1, <2>3, <2>4, <2>6, RowOfCall
  <2>8. CallGoes(o, NoOp)
    BY <1>1, <1>2, <2>1, <2>7, QueuedCall
  <2>9. QED
    BY <1>1, <1>4, <2>6, <2>7, <2>8, TimeIs, CallKept DEF CoreInv
<1>7. QED
  BY <1>5, <1>6

LEMMA ImportedKeeps == ASSUME CoreInv, NEW o \in Op, Imported(o) PROVE CoreInv'
<1> DEFINE l == op[o].lish
<1>1. Quietly /\ Ends(o) /\ UNCHANGED <<gate, creation>> /\ op[o].at = "mkdir" /\ l \in Lish
  BY CallIs DEF Imported
<1>2. op[o].then \in {"share", "download"}
  BY <1>1, CallIs DEF OpFits
<1>3. OpGoes(o, NoOp) /\ NoOp.at = "idle"
  BY <1>1, NoOpIs DEF OpGoes, Ends
<1>4. CreationKept'
  BY <1>1, <1>3, CreationStays DEF CoreInv
<1> DEFINE downloading == op[o].then = "download"
           dir == IF downloading THEN "temp" ELSE "home"
           final == IF downloading THEN "home" ELSE Nowhere
<1>5. Adds(l, dir, final) /\ ver' = Enqueue(ver, l)
  BY DEF Imported
<1> DEFINE R == [on |-> TRUE, dir |-> dir, final |-> final, gen |-> row[l].gen + 1]
<1>6. row \in [Lish -> RowType] /\ row[l] \in RowShape
  BY <1>1, RowIs
<1>7. dir \in Place /\ final \in Place \cup {Nowhere}
  BY DEF Place
<1> HIDE DEF dir, final
<1>8. row' = [row EXCEPT ![l] = R]
  BY <1>5, <1>6 DEF Adds
<1>9. R \in RowShape /\ R.gen = row[l].gen + 1 /\ R.dir \in Place
  BY <1>6, <1>7 DEF RowShape
<1> HIDE DEF R
<1>10. \A x \in Lish : row'[x].gen = IF x = l THEN row[x].gen + 1 ELSE row[x].gen
  BY <1>6, <1>8, <1>9
<1>11. GenKept'
  BY <1>1, <1>3, <1>10, GenMade, TimeIs DEF CoreInv
<1>12. RowsAre(row')
  BY <1>1, <1>8, <1>9, <1>11, RowOfCall
<1>13. CallGoes(o, NoOp)
  BY <1>1, <1>2, <1>5, <1>12, QueuedCall
<1>14. QED
  BY <1>1, <1>4, <1>11, <1>12, <1>13, TimeIs, CallKept DEF CoreInv

LEMMA DataDeletedKeeps == ASSUME CoreInv, NEW o \in Op, DataDeleted(o) PROVE CoreInv'
<1> DEFINE l == op[o].lish
           a == SetBusy(ver, l, "verifying")
<1>1. /\ Quietly /\ Ends(o) /\ UNCHANGED <<row, gate, creation>> /\ op[o].at = "unlink" /\ op[o].then = "reset"
      /\ l \in Lish /\ ver' = Enqueue(a, l) /\ events' = events /\ events \in 0 .. MaxEvents
  BY CallIs DEF DataDeleted, CoreInv, Quietly
<1>2. OpGoes(o, NoOp) /\ NoOp.at = "idle"
  BY <1>1, NoOpIs DEF OpGoes, Ends
<1>3. CreationKept'
  BY <1>1, <1>2, CreationStays DEF CoreInv
<1>4. RowsAre(row')
  BY <1>1, SameRows
<1>5. GenKept'
  <2>1. \A x \in Lish : ~MakesOf(NoOp, x)
    BY <1>2 DEF MakesOf
  <2>2. QED
    BY <1>1, <1>2, <2>1, SameRows, GenGoes, TimeIs DEF CoreInv
<1>6. a \in VerType /\ SameRuns(ver, a) /\ a.queue = ver.queue
      /\ \A x \in Lish : a.busy[x] = IF x = l THEN "verifying" ELSE ver.busy[x]
  <2>1. "verifying" \in Reasons /\ ver \in VerType
    BY DEF Reasons, CoreInv, VerKept, VerShape
  <2>2. QED
    BY <1>1, <2>1, BusyIs
<1> HIDE DEF a, l
<1>7. VerShape(a, events) /\ ActiveOf(a) = ActiveOf(ver) /\ \A x : IsCurrent(a, x) <=> IsCurrent(ver, x)
  <2>1. VerShape(ver, events) /\ IsInjective(a.queue)
    BY <1>6 DEF CoreInv, VerKept, VerShape
  <2>2. QED
    BY <1>6, <2>1, ShapeKept
<1>8. VerifyingBut(a, {l})
  BY <1>6, <1>7 DEF CoreInv, VerKept, VerifyingBut
<1>9. /\ VerKept(Enqueue(a, l), events) /\ OnlyVerifies(a, Enqueue(a, l)) /\ Enqueue(a, l).stops = a.stops
      /\ Watched(a) => Watched(Enqueue(a, l))
  BY <1>1, <1>4, <1>7, <1>8, EnqueueKeeps
<1>10. ver'.stops = ver.stops /\ (Watched(ver) => Watched(ver'))
  BY <1>1, <1>6, <1>7, <1>9 DEF SameRuns, Watched
<1>11. StaysBusy(o, NoOp)
  <2>1. \A x \in Lish : x # l => \A kinds : ~WorksOf(op[o], x, kinds)
    BY DEF WorksOf, l
  <2>2. \A x \in Lish : IF x = l THEN ver'.busy[x] \in {"no", "verifying"}
                        ELSE ver'.busy[x] = ver.busy[x] \/ ver'.busy[x] \in {"no", "verifying"}
    BY <1>1, <1>6, <1>9 DEF OnlyVerifies
  <2>3. QED
    BY <2>1, <2>2 DEF StaysBusy
<1>12. gate.phase \notin {"stopping", "quiet"}
  BY <1>1, NotAdmitted DEF CoreInv
<1>13. CallGoes(o, NoOp)
  BY <1>1, <1>2, <1>9, <1>10, <1>11, <1>12 DEF CallGoes
<1>14. QED
  BY <1>1, <1>3, <1>4, <1>5, <1>13, TimeIs, CallKept DEF CoreInv

LEMMA UndownloadedKeeps == ASSUME CoreInv, NEW o \in Op, Undownloaded(o) PROVE CoreInv'
<1> DEFINE l == op[o].lish
           rec == [op[o] EXCEPT !.at = "unlink"]
<1>1. /\ op' = [op EXCEPT ![o] = rec] /\ Quietly /\ UNCHANGED <<row, gate, creation>> /\ op[o].at = "undownload"
      /\ l \in Lish /\ events' = events /\ events \in 0 .. MaxEvents
  BY CallIs DEF Undownloaded, To, storeVars, Quietly, CoreInv
<1>2. /\ rec \in OpType /\ rec.at = "unlink" /\ rec.lish = op[o].lish /\ rec.then = op[o].then /\ OpFits(rec)
      /\ op[o].then \in {"drop", "reset"}
  BY <1>1, CallIs DEF OpType, OpFits
<1> HIDE DEF rec
<1>3. CASE op[o].then = "reset"
  <2>1. UNCHANGED ver
    BY <1>3 DEF Undownloaded
  <2>2. CallGoes(o, rec) /\ GenKept' /\ CreationKept'
    BY <1>1, <1>2, <2>1, SameRows, SameCall DEF OpGoes
  <2>3. QED
    BY <1>1, <2>2, SameRows, TimeIs, CallKept DEF CoreInv
<1>4. CASE op[o].then = "drop"
  <2>1. ver' = ClearBusy(Dequeue(AbortCurrent(ver, l), l), l)
    BY <1>4 DEF Undownloaded
  <2>2. OpGoes(o, rec)
    BY <1>1, <1>2 DEF OpGoes
  <2> HIDE DEF l
  <2>3. VerKept(ver', events) /\ GivenUp(ver, ver', l) /\ ver'.busy[l] = "no"
    BY <1>1, <2>1, StoppedKeeps DEF CoreInv
  <2>4. GenKept'
    <3>1. \A x \in Lish : ~MakesOf(rec, x)
      BY <1>2 DEF MakesOf
    <3>2. QED
      BY <1>1, <2>2, <3>1, SameRows, GenGoes, TimeIs DEF CoreInv
  <2>5. CreationKept'
    BY <1>1, <2>2, CreationStays DEF CoreInv
  <2>6. StaysBusy(o, rec)
    <3>1. \A x \in Lish : ~WorksOf(op[o], x, Moves) /\ ~WorksOf(op[o], x, {"reset"})
      BY <1>4 DEF WorksOf, Moves
    <3>2. \A x \in Lish : ver'.busy[x] = ver.busy[x] \/ ver'.busy[x] = "no"
      BY <2>3 DEF GivenUp
    <3>3. QED
      BY <3>1, <3>2 DEF StaysBusy
  <2>7. gate.phase \notin {"stopping", "quiet"}
    BY <1>1, <1>4, NotAdmitted DEF CoreInv
  <2>8. Watched(ver) => Watched(ver')
    <3>1. ver'.queue # <<>> => ver.queue # <<>>
      <4>1. ver'.queue \in Seq(Lish) /\ ver.queue \in Seq(Lish)
        BY <2>3 DEF VerKept, VerShape, VerType, CoreInv
      <4>2. (ver'.queue = <<>> <=> Range(ver'.queue) = {}) /\ (ver.queue = <<>> <=> Range(ver.queue) = {})
        BY <4>1, NothingIn
      <4>3. QED
        BY <2>3, <4>2 DEF GivenUp
    <3>2. QED
      BY <2>3, <3>1 DEF GivenUp, Watched
  <2>9. CallGoes(o, rec)
    BY <1>1, <2>2, <2>3, <2>6, <2>7, <2>8 DEF CallGoes, GivenUp
  <2>10. QED
    BY <1>1, <2>4, <2>5, <2>9, SameRows, TimeIs, CallKept DEF CoreInv
<1>5. QED
  BY <1>2, <1>3, <1>4

\* A call begins and makes its LISH busy.
LEMMA TakenCall ==
  ASSUME CoreInv, Event \/ Quietly, NEW o \in Op, NEW rec, OpGoes(o, rec), UNCHANGED gate, op[o].at = "idle",
         rec.at # "idle", NEW v, VerKept(v, events'), v.stops = ver.stops, Watched(ver) => Watched(v),
         \A x \in Lish : x # rec.lish => v.busy[x] = ver.busy[x],
         v.busy[rec.lish] = "moving" => rec.then \in Moves, v.busy[rec.lish] = "deleting" => rec.then = "reset",
         gate.phase \in {"stopping", "quiet"} => rec.then = "finalized" /\ v.queue = ver.queue, ver' = v
  PROVE  CallGoes(o, rec)
<1>1. \A x \in Lish : \A kinds : ~WorksOf(op[o], x, kinds)
  BY DEF WorksOf
<1>2. StaysBusy(o, rec)
  <2>1. ASSUME NEW x \in Lish, x # rec.lish PROVE v.busy[x] = ver.busy[x]
    BY <2>1
  <2>2. WorksOf(rec, rec.lish, Moves) <=> rec.then \in Moves
    BY DEF WorksOf
  <2>3. WorksOf(rec, rec.lish, {"reset"}) <=> rec.then = "reset"
    BY DEF WorksOf
  <2>4. QED
    BY <1>1, <2>1, <2>2, <2>3 DEF StaysBusy
<1>3. QED
  BY <1>2 DEF CallGoes

LEMMA DeleteKeeps == ASSUME CoreInv, NEW o \in Op, NEW l \in Lish, Delete(o, l) PROVE CoreInv'
<1>1. PICK lishToo \in BOOLEAN, dataToo \in BOOLEAN :
        /\ To(o, [Unlinking([NoOp EXCEPT !.lish = l], row[l].dir, row[l].final # Nowhere, IF lishToo THEN "drop" ELSE "reset")
                  EXCEPT !.at = "undownload", !.left = IF dataToo THEN Piece ELSE {}])
        /\ ver' = IF lishToo THEN ver ELSE SetBusy(ver, l, "deleting")
  BY DEF Delete
<1> DEFINE then == IF lishToo THEN "drop" ELSE "reset"
           left == IF dataToo THEN Piece ELSE {}
           rec == [Unlinking([NoOp EXCEPT !.lish = l], row[l].dir, row[l].final # Nowhere, then)
                   EXCEPT !.at = "undownload", !.left = left]
<1>2. /\ op' = [op EXCEPT ![o] = rec] /\ Event /\ UNCHANGED <<row, gate, creation>> /\ op[o].at = "idle" /\ ~gate.closed
      /\ row[l].on
  BY <1>1 DEF Delete, Starts, To
<1>3. then \in {"drop", "reset"} /\ left \in SUBSET Piece
  OBVIOUS
<1> HIDE DEF left
<1>4. rec \in OpType /\ rec.at = "undownload" /\ rec.lish = l /\ rec.then = then /\ rec.from \in Place
  <2> HIDE DEF then
  <2>1. row[l].dir \in Place
    BY <1>2, RowIs
  <2>2. QED
    BY <1>3, <2>1, NoOpIs DEF Unlinking, OpType, NoOp
<1> HIDE DEF rec
<1>5. OpFits(rec) /\ OpGoes(o, rec)
  <2>1. OpFits(rec)
    BY <1>3, <1>4 DEF OpFits
  <2>2. QED
    BY <1>2, <1>4, <2>1 DEF OpGoes
<1>6. GenKept'
  BY <1>2, <1>5, SameRows, GenGoes, TimeIs DEF CoreInv
<1>7. CreationKept'
  BY <1>2, <1>5, CreationStays DEF CoreInv
<1>8. gate.phase \notin {"stopping", "quiet"}
  BY <1>2, NotAdmitted DEF CoreInv
<1>9. CallGoes(o, rec)
  <2>1. CASE lishToo
    <3>1. UNCHANGED ver
      BY <1>1, <2>1
    <3>2. QED
      BY <1>2, <1>5, <3>1, BegunCall
  <2>2. CASE ~lishToo
    <3> DEFINE v == SetBusy(ver, l, "deleting")
    <3>1. "deleting" \in Reasons /\ VerKept(ver, events)
      BY DEF Reasons, CoreInv
    <3>2. /\ VerKept(v, events) /\ ActiveOf(v) = ActiveOf(ver) /\ v.stops = ver.stops /\ v.queue = ver.queue
          /\ \A x \in Lish : v.busy[x] = IF x = l THEN "deleting" ELSE ver.busy[x]
      BY <3>1, FreedKeeps
    <3>3. VerKept(v, events')
      <4> HIDE DEF v
      <4>1. QED
        BY <1>2, <3>2, TimeIs, VerLater DEF CoreInv
    <3>4. ver' = v
      BY <1>1, <2>2
    <3>5. then = "reset"
      BY <2>2
    <3> HIDE DEF v, then
    <3>6. Watched(ver) => Watched(v)
      BY <3>2 DEF Watched
    <3>7. v.busy[rec.lish] = "deleting" /\ \A x \in Lish : x # rec.lish => v.busy[x] = ver.busy[x]
      BY <1>4, <3>2
    <3>8. rec.then = "reset" /\ rec.at # "idle"
      BY <1>4, <3>5
    <3>9. QED
      BY <1>2, <1>5, <1>8, <3>2, <3>3, <3>4, <3>6, <3>7, <3>8, TakenCall
  <2>3. QED
    BY <2>1, <2>2
<1>10. QED
  BY <1>2, <1>6, <1>7, <1>9, SameRows, TimeIs, CallKept DEF CoreInv

\* Where no call goes on.
LEMMA StillKept ==
  ASSUME CoreInv, events' \in 0 .. MaxEvents, UNCHANGED <<op, creation, gate>>, RowsAre(row'), GenKept',
         VerKept(ver', events'), ~gate.closed /\ Watched(ver) => Watched(ver'), ver'.stops = ver.stops,
         \A x \in Lish : ver'.busy[x] = ver.busy[x] \/ ver'.busy[x] \in {"no", "verifying"},
         gate.phase \in {"stopping", "quiet"} => ver'.queue = ver.queue
  PROVE  CoreInv'
<1> USE DEF CoreInv
<1>1. OpsKept' /\ CreationKept'
  BY DEF OpsKept, CreationKept
<1>2. BusyKept'
  BY BusyStays
<1>3. GateKept'
  BY GateStays
<1>4. QueueIsWatched'
  BY WatchedIs
<1>5. QED
  BY <1>1, <1>2, <1>3, <1>4

LEMMA GivenWatched ==
  ASSUME NEW n, NEW m, NEW v, VerKept(v, n), NEW w, VerKept(w, m), NEW l, GivenUp(v, w, l)
  PROVE  Watched(v) => Watched(w)
<1>1. w.queue # <<>> => v.queue # <<>>
  <2>1. w.queue \in Seq(Lish) /\ v.queue \in Seq(Lish)
    BY DEF VerKept, VerShape, VerType
  <2>2. (w.queue = <<>> <=> Range(w.queue) = {}) /\ (v.queue = <<>> <=> Range(v.queue) = {})
    BY <2>1, NothingIn
  <2>3. QED
    BY <2>2 DEF GivenUp
<1>2. QED
  BY <1>1 DEF GivenUp, Watched

LEMMA MoveKeeps == ASSUME CoreInv, NEW o \in Op, NEW l \in Lish, NEW to \in Place, Move(o, l, to) PROVE CoreInv'
<1> DEFINE given == Dequeue(ForgetCurrent(ver, l), l)
<1>1. /\ Event /\ UNCHANGED <<gate, creation>> /\ op[o].at = "idle" /\ ~gate.closed /\ row[l].on
  BY DEF Move, Starts
<1>2. events' = events + 1 /\ events \in Nat /\ events' \in 0 .. MaxEvents /\ Passed /\ to \in Place /\ VerKept(ver, events)
  BY <1>1, TimeIs DEF CoreInv, Place
<1>3. gate.phase \notin {"stopping", "quiet"}
  BY <1>1, NotAdmitted DEF CoreInv
<1>4. row[l] \in RowShape /\ row[l].dir \in Place /\ row \in [Lish -> RowType]
  BY <1>1, RowIs
<1>5. ver \in VerType /\ "moving" \in Reasons /\ "no" \in Reasons
  BY <1>2 DEF VerKept, VerShape, Reasons
<1>6. CASE /\ To(o, [NoOp EXCEPT !.at = "copy", !.lish = l, !.left = Piece, !.from = row[l].dir, !.to = to,
                     !.wipe = row[l].final # Nowhere, !.then = "moved"])
           /\ ver' = SetBusy(given, l, "moving") /\ UNCHANGED row
  <2> DEFINE wipe == row[l].final # Nowhere
             rec == [NoOp EXCEPT !.at = "copy", !.lish = l, !.left = Piece, !.from = row[l].dir, !.to = to,
                     !.wipe = wipe, !.then = "moved"]
  <2>1. op' = [op EXCEPT ![o] = rec]
    BY <1>6 DEF To
  <2>2. wipe \in BOOLEAN
    OBVIOUS
  <2> HIDE DEF wipe
  <2>3. rec \in OpType /\ rec.at = "copy" /\ rec.lish = l /\ rec.then = "moved" /\ OpFits(rec)
    BY <1>2, <1>4, <2>2, NoOpIs DEF OpType, OpFits, NoOp
  <2> HIDE DEF rec
  <2>4. OpGoes(o, rec)
    BY <2>1, <2>3 DEF OpGoes
  <2> DEFINE v == SetBusy(given, l, "moving")
  <2>5. VerKept(v, events + 1) /\ GivenUp(ver, v, l) /\ v.busy[l] = "moving"
    BY <1>2, <1>5, MovedKeeps
  <2>6. ver' = v
    BY <1>6
  <2> HIDE DEF v
  <2>7. GenKept'
    BY <1>2, <1>6, <2>4, SameRows, GenGoes DEF CoreInv
  <2>8. CreationKept'
    BY <1>1, <2>4, CreationStays DEF CoreInv
  <2>9. Watched(ver) => Watched(v)
    BY <1>2, <2>5, GivenWatched
  <2>10. CallGoes(o, rec)
    <3>1. v.busy[rec.lish] = "moving" /\ v.stops = ver.stops /\ \A x \in Lish : x # rec.lish => v.busy[x] = ver.busy[x]
      BY <2>3, <2>5 DEF GivenUp
    <3>2. rec.then \in Moves /\ rec.at # "idle"
      BY <2>3 DEF Moves
    <3>3. VerKept(v, events')
      BY <1>2, <2>5
    <3>4. QED
      BY <1>1, <1>3, <2>4, <2>6, <2>9, <3>1, <3>2, <3>3, TakenCall
  <2>11. QED
    BY <1>2, <1>6, <2>7, <2>8, <2>10, SameRows, CallKept
<1>7. CASE row' = [row EXCEPT ![l].dir = to] /\ ver' = ClearBusy(given, l) /\ UNCHANGED op
  <2> DEFINE R == [row[l] EXCEPT !.dir = to]
             v == SetBusy(given, l, "no")
  <2>1. row' = [row EXCEPT ![l] = R]
    BY <1>4, <1>7
  <2>2. R \in RowShape /\ R.gen = row[l].gen /\ R.dir \in Place
    BY <1>2, <1>4 DEF RowShape
  <2> HIDE DEF R
  <2>3. VerKept(v, events + 1) /\ GivenUp(ver, v, l) /\ v.busy[l] = "no"
    BY <1>2, <1>5, MovedKeeps
  <2>4. given \in VerType
    <3> DEFINE a == ForgetCurrent(ver, l)
    <3>1. VerShape(a, events + 1)
      BY <1>2, ForgetIs DEF VerKept
    <3> HIDE DEF a
    <3>2. Dequeue(a, l) \in VerType
      BY <3>1, DequeueIs DEF VerShape
    <3>3. QED
      BY <3>2 DEF a
  <2>5. ver' = v
    <3> HIDE DEF given
    <3>1. ClearBusy(given, l) = SetBusy(given, l, "no")
      BY <2>4, ClearIs
    <3>2. QED
      BY <1>7, <3>1
  <2> HIDE DEF v
  <2>6. \A x \in Lish : row'[x].gen = row[x].gen
    BY <2>1, <2>2, SameGens
  <2>7. GenKept'
    BY <1>2, <1>7, <2>6, GenStays DEF CoreInv
  <2>8. RowsAre(row')
    BY <1>1, <2>1, <2>2, <2>7, RowOfCall
  <2>9. Watched(ver) => Watched(v)
    BY <1>2, <2>3, GivenWatched
  <2>10. v.stops = ver.stops /\ \A x \in Lish : v.busy[x] = ver.busy[x] \/ v.busy[x] = "no"
    BY <2>3 DEF GivenUp
  <2>11. VerKept(v, events')
    BY <1>2, <2>3
  <2>12. QED
    BY <1>1, <1>2, <1>3, <1>7, <2>5, <2>7, <2>8, <2>9, <2>10, <2>11, StillKept
<1>8. QED
  BY <1>6, <1>7 DEF Move

LEMMA FinalizeKeeps == ASSUME CoreInv, NEW o \in Op, NEW l \in Lish, Finalize(o, l) PROVE CoreInv'
<1>1. /\ Quietly /\ UNCHANGED <<row, gate, creation>> /\ op[o].at = "idle" /\ row[l].on
      /\ events' = events /\ events \in 0 .. MaxEvents
  BY DEF Finalize, storeVars, Quietly, CoreInv
<1>2. CASE UNCHANGED <<op, ver>>
  <2>1. GenKept'
    BY <1>1, <1>2, SameRows, GenStays, TimeIs DEF CoreInv
  <2>2. VerKept(ver', events')
    BY <1>1, <1>2 DEF CoreInv
  <2>3. QED
    BY <1>1, <1>2, <2>1, <2>2, SameRows, StillKept
<1>3. CASE /\ row[l].final # Nowhere
           /\ To(o, [NoOp EXCEPT !.at = "rename", !.lish = l, !.from = row[l].dir, !.to = row[l].final, !.wipe = TRUE,
                     !.then = "finalized"])
           /\ ver' = SetBusy(ver, l, "moving")
  <2> DEFINE rec == [NoOp EXCEPT !.at = "rename", !.lish = l, !.from = row[l].dir, !.to = row[l].final, !.wipe = TRUE,
                     !.then = "finalized"]
  <2>1. op' = [op EXCEPT ![o] = rec]
    BY <1>3 DEF To
  <2>2. row[l].dir \in Place /\ row[l].final \in Place
    <3>1. row[l] \in RowShape /\ row[l].dir \in Place
      BY <1>1, RowIs
    <3>2. QED
      BY <1>3, <3>1 DEF RowShape
  <2>3. rec \in OpType /\ rec.at = "rename" /\ rec.lish = l /\ rec.then = "finalized" /\ OpFits(rec)
    BY <2>2, NoOpIs DEF OpType, OpFits, NoOp
  <2> HIDE DEF rec
  <2>4. OpGoes(o, rec)
    BY <2>1, <2>3 DEF OpGoes
  <2> DEFINE v == SetBusy(ver, l, "moving")
  <2>5. "moving" \in Reasons /\ VerKept(ver, events)
    BY DEF Reasons, CoreInv
  <2>6. /\ VerKept(v, events) /\ ActiveOf(v) = ActiveOf(ver) /\ v.stops = ver.stops /\ v.queue = ver.queue
        /\ \A x \in Lish : v.busy[x] = IF x = l THEN "moving" ELSE ver.busy[x]
    BY <2>5, FreedKeeps
  <2>7. ver' = v
    BY <1>3
  <2> HIDE DEF v
  <2>8. \A x \in Lish : ~MakesOf(rec, x)
    BY <2>3 DEF MakesOf
  <2>9. GenKept'
    BY <1>1, <2>4, <2>8, SameRows, GenGoes, TimeIs DEF CoreInv
  <2>10. CreationKept'
    BY <1>1, <2>4, CreationStays DEF CoreInv
  <2>11. Watched(ver) => Watched(v)
    BY <2>6 DEF Watched
  <2>12. CallGoes(o, rec)
    <3>1. v.busy[rec.lish] = "moving" /\ \A x \in Lish : x # rec.lish => v.busy[x] = ver.busy[x]
      BY <2>3, <2>6
    <3>2. rec.then \in Moves /\ rec.at # "idle" /\ rec.then = "finalized"
      BY <2>3 DEF Moves
    <3>3. VerKept(v, events')
      BY <1>1, <2>6
    <3>4. QED
      BY <1>1, <2>4, <2>6, <2>7, <2>11, <3>1, <3>2, <3>3, TakenCall
  <2>13. QED
    BY <1>1, <2>9, <2>10, <2>12, SameRows, CallKept
<1>4. QED
  BY <1>2, <1>3 DEF Finalize

-----------------------------------------------------------------------------
(* What is kept where no call goes on.                                     *)

LEMMA StillRows ==
  ASSUME CoreInv, Event \/ Quietly, UNCHANGED <<row, op>>
  PROVE  /\ events' \in 0 .. MaxEvents /\ events \in Nat /\ events' \in Nat /\ events <= events'
         /\ RowsAre(row') /\ GenKept'
<1>1. events' \in 0 .. MaxEvents /\ events \in Nat /\ events' \in Nat /\ events <= events' /\ Passed
  BY TimeIs DEF CoreInv
<1>2. GenKept'
  BY <1>1, SameRows, GenStays DEF CoreInv
<1>3. QED
  BY <1>1, <1>2, SameRows

\* Steps that leave the verifications alone as well.
LEMMA StillCore ==
  ASSUME CoreInv, Event \/ Quietly, UNCHANGED <<row, op, creation, gate, ver>>
  PROVE  CoreInv'
<1>1. /\ events' \in 0 .. MaxEvents /\ events \in Nat /\ events' \in Nat /\ events <= events'
      /\ RowsAre(row') /\ GenKept'
  BY StillRows
<1>2. VerKept(ver', events')
  BY <1>1, VerLater DEF CoreInv
<1>3. QED
  BY <1>1, <1>2, StillKept

LEMMA VerifyKeeps == ASSUME CoreInv, NEW l \in Lish, Verify(l) PROVE CoreInv'
<1>1. Event /\ ~gate.closed /\ UNCHANGED <<row, op, creation, gate>> /\ ver' = Verified(ver, l)
  BY DEF Verify, storeVars, callVars
<1>2. /\ events' \in 0 .. MaxEvents /\ events \in Nat /\ events' = events + 1
      /\ RowsAre(row') /\ GenKept'
  BY <1>1, StillRows, TimeIs DEF CoreInv
<1>3. events + 1 <= MaxEvents /\ VerKept(ver, events)
  BY <1>2, StoreAssumption DEF CoreInv
<1>4. /\ VerKept(Verified(ver, l), events + 1) /\ OnlyVerifies(ver, Verified(ver, l))
      /\ Verified(ver, l).stops = ver.stops /\ (Watched(ver) => Watched(Verified(ver, l)))
  BY <1>2, <1>3, VerifiedKeeps
<1>5. gate.phase \notin {"stopping", "quiet"}
  BY <1>1, NotAdmitted DEF CoreInv
<1>6. QED
  BY <1>1, <1>2, <1>4, <1>5, StillKept DEF OnlyVerifies

LEMMA VerifyAllKeeps == ASSUME CoreInv, VerifyAll PROVE CoreInv'
<1>1. Event /\ ~gate.closed /\ UNCHANGED <<row, op, creation, gate>>
  BY DEF VerifyAll, storeVars, callVars
<1>2. PICK order \in SetToSeqs({l \in Lish : row[l].on}) : ver' = FoldLeft(Enqueue, ver, order)
  BY DEF VerifyAll
<1>3. /\ events' \in 0 .. MaxEvents /\ events \in Nat /\ events' \in Nat /\ events <= events'
      /\ RowsAre(row') /\ GenKept'
  BY <1>1, StillRows
<1>4. VerKept(ver, events')
  BY <1>3, VerLater DEF CoreInv
<1>5. QueuedWell(ver', events')
  <2> DEFINE S == {l \in Lish : row[l].on}
  <2>1. S \in SUBSET Lish /\ order \in SetToSeqs(S)
    OBVIOUS
  <2> HIDE DEF S
  <2>2. QueuedWell(FoldLeft(Enqueue, ver, order), events')
    BY <1>3, <1>4, <2>1, AllQueuedWell
  <2>3. QED
    BY <1>2, <2>2
<1>6. gate.phase \notin {"stopping", "quiet"}
  BY <1>1, NotAdmitted DEF CoreInv
<1>7. QED
  BY <1>1, <1>3, <1>5, <1>6, StillKept DEF QueuedWell, OnlyVerifies

LEMMA StopVerifyKeeps == ASSUME CoreInv, NEW l \in Lish, StopVerify(l) PROVE CoreInv'
<1>1. Event /\ ~gate.closed /\ UNCHANGED <<row, op, creation, gate>> /\ ver' = Stopped(ver, l)
  BY DEF StopVerify, storeVars, callVars
<1>2. /\ events' \in 0 .. MaxEvents /\ events \in Nat /\ events' \in Nat /\ events <= events'
      /\ RowsAre(row') /\ GenKept'
  BY <1>1, StillRows
<1>3. VerKept(ver, events')
  BY <1>2, VerLater DEF CoreInv
<1>4. VerKept(ver', events') /\ GivenUp(ver, ver', l) /\ ver'.busy[l] = "no"
  BY <1>1, <1>3, StoppedKeeps
<1>5. Watched(ver) => Watched(ver')
  BY <1>3, <1>4, GivenWatched
<1>6. \A x \in Lish : ver'.busy[x] = ver.busy[x] \/ ver'.busy[x] \in {"no", "verifying"}
  BY <1>4 DEF GivenUp
<1>7. gate.phase \notin {"stopping", "quiet"} /\ ver'.stops = ver.stops
  BY <1>1, <1>4, NotAdmitted DEF CoreInv, GivenUp
<1>8. QED
  BY <1>1, <1>2, <1>4, <1>5, <1>6, <1>7, StillKept

\* The verifications are told to stop, by the user or by the factory reset.
LEMMA StopsKeep ==
  ASSUME CoreInv, Event \/ Quietly, UNCHANGED <<row, op, creation>>, NEW s \in {"user", "reset"},
         ver' = StopsAll(ver, s), GateKept'
  PROVE  CoreInv'
<1>1. /\ events' \in 0 .. MaxEvents /\ events \in Nat /\ events' \in Nat /\ events <= events'
      /\ RowsAre(row') /\ GenKept'
  BY StillRows
<1>2. VerKept(ver, events')
  BY <1>1, VerLater DEF CoreInv
<1>3. /\ VerKept(ver', events') /\ ver'.queue = <<>> /\ ver'.stops = ver.stops \cup {s}
      /\ \A x \in Lish : ver'.busy[x] \in {ver.busy[x], "no"}
  BY <1>2, StopsAllKeeps
<1>4. BusyKept'
  BY <1>3, BusyStays DEF CoreInv
<1>5. OpsKept' /\ CreationKept'
  BY DEF CoreInv, OpsKept, CreationKept
<1>6. QueueIsWatched'
  BY <1>3 DEF QueueIsWatched
<1>7. QED
  BY <1>1, <1>3, <1>4, <1>5, <1>6 DEF CoreInv

LEMMA StopVerifyAllKeeps == ASSUME CoreInv, StopVerifyAll PROVE CoreInv'
<1>1. Event /\ UNCHANGED <<row, op, creation, gate>> /\ ver' = StopsAll(ver, "user")
  BY DEF StopVerifyAll, storeVars, callVars
<1>2. VerKept(ver, events)
  BY DEF CoreInv
<1>3. ver'.queue = <<>> /\ ver'.stops = ver.stops \cup {"user"}
  BY <1>1, <1>2, StopsAllKeeps
<1>4. Admitted' = Admitted
  BY <1>1 DEF Admitted, Working
<1>5. GateKept'
  BY <1>1, <1>3, <1>4 DEF CoreInv, GateKept
<1>6. QED
  BY <1>1, <1>5, StopsKeep

LEMMA DrainedKeeps == ASSUME CoreInv, Drained PROVE CoreInv'
<1>1. Quietly /\ UNCHANGED <<row, op, creation>> /\ ver' = StopsAll(ver, "reset")
  BY DEF Drained, storeVars, callVars
<1>2. VerKept(ver, events)
  BY DEF CoreInv
<1>3. ver'.queue = <<>> /\ ver'.stops = ver.stops \cup {"reset"}
  BY <1>1, <1>2, StopsAllKeeps
<1>4. Admitted' = Admitted /\ Admitted = {}
  BY <1>1 DEF Admitted, Working, Drained
<1>5. GateKept'
  BY <1>1, <1>3, <1>4 DEF CoreInv, GateKept, Drained
<1>6. QED
  BY <1>1, <1>5, StopsKeep

LEMMA GateTurns ==
  ASSUME CoreInv, Quietly, UNCHANGED <<row, op, creation, ver>>, GateKept', QueueIsWatched'
  PROVE  CoreInv'
<1>1. events' \in 0 .. MaxEvents /\ events' = events /\ RowsAre(row') /\ GenKept'
  BY StillRows DEF Quietly
<1>2. OpsKept' /\ CreationKept'
  BY DEF CoreInv, OpsKept, CreationKept
<1>3. BusyKept'
  BY BusyStays DEF CoreInv
<1>4. VerKept(ver', events')
  BY <1>1 DEF CoreInv
<1>5. QED
  BY <1>1, <1>2, <1>3, <1>4 DEF CoreInv

LEMMA PauseKeeps == ASSUME CoreInv, PauseMutations PROVE CoreInv'
<1>1. /\ Quietly /\ UNCHANGED <<row, op, creation, ver>> /\ gate' = [closed |-> TRUE, phase |-> "draining", used |-> TRUE]
      /\ ~gate.used
  BY DEF PauseMutations, storeVars, callVars
<1>2. gate.phase = "open"
  BY <1>1 DEF CoreInv, GateKept
<1>3. GateKept'
  BY <1>1, <1>2 DEF CoreInv, GateKept
<1>4. QueueIsWatched'
  BY <1>1 DEF QueueIsWatched
<1>5. QED
  BY <1>1, <1>3, <1>4, GateTurns

LEMMA ResumeKeeps == ASSUME CoreInv, ResumeMutations PROVE CoreInv'
<1>1. /\ Quietly /\ UNCHANGED <<row, op, creation, ver>> /\ gate.phase = "quiet"
      /\ gate' = [gate EXCEPT !.closed = FALSE, !.phase = "open"]
  BY DEF ResumeMutations, storeVars, callVars
<1>2. ver.queue = <<>>
  BY <1>1 DEF CoreInv, GateKept
<1>3. GateKept'
  BY <1>1 DEF CoreInv, GateKept
<1>4. QueueIsWatched'
  BY <1>1, <1>2 DEF QueueIsWatched
<1>5. QED
  BY <1>1, <1>3, <1>4, GateTurns

LEMMA StopReturnsKeeps == ASSUME CoreInv, NEW s \in ver.stops, StopReturns(s) PROVE CoreInv'
<1> DEFINE done == [ver EXCEPT !.current = None, !.stopping = FALSE, !.stops = @ \ {s}]
<1>1. /\ Quietly /\ UNCHANGED <<row, op, creation>> /\ ver' = (IF gate.closed THEN done ELSE Process(done))
      /\ gate' = (IF s = "reset" THEN [gate EXCEPT !.phase = "quiet"] ELSE gate)
      /\ ActiveRuns = {}
  BY DEF StopReturns, storeVars, callVars
<1>2. events' \in 0 .. MaxEvents /\ events' = events /\ RowsAre(row') /\ GenKept' /\ events \in 0 .. MaxEvents
  BY <1>1, StillRows DEF Quietly
<1>3. VerShape(ver, events) /\ VerifyingBut(ver, {}) /\ ver \in VerType
  BY DEF CoreInv, VerKept, VerShape
<1>4. ActiveOf(ver) = {}
  BY <1>1 DEF ActiveOf, ActiveRuns
<1>5. ver.current = None
  BY <1>3, <1>4 DEF VerShape, RunsKept
<1>6. /\ done \in VerType /\ done.current = None /\ done.queue = ver.queue /\ done.runs = ver.runs
      /\ done.busy = ver.busy /\ ~done.stopping /\ done.stops = ver.stops \ {s}
  BY <1>3 DEF VerType
<1> HIDE DEF done
<1>7. ActiveOf(done) = {} /\ Spare(done) = Spare(ver)
  BY <1>4, <1>5, <1>6 DEF ActiveOf, Spare
<1>8. VerKept(done, events)
  <2>1. RunsKept(done)
    BY <1>3, <1>6, <1>7 DEF VerShape, RunsKept
  <2>2. StopsKept(done)
    BY <1>6 DEF StopsKept
  <2>3. VerifyingBut(done, {})
    BY <1>3, <1>5, <1>6 DEF VerifyingBut, IsCurrent
  <2>4. QED
    BY <1>3, <1>6, <1>7, <2>1, <2>2, <2>3 DEF VerKept, VerShape
<1>9. /\ VerKept(Process(done), events) /\ Watched(Process(done)) /\ OnlyVerifies(done, Process(done))
      /\ Process(done).stops = done.stops
  BY <1>2, <1>8, ProcessKeeps
<1>10. VerKept(ver', events') /\ ver'.stops = ver.stops \ {s}
  BY <1>1, <1>2, <1>6, <1>8, <1>9
<1>11. \A x \in Lish : ver'.busy[x] = ver.busy[x] \/ ver'.busy[x] \in {"no", "verifying"}
  BY <1>1, <1>6, <1>9 DEF OnlyVerifies
<1>12. BusyKept'
  BY <1>1, <1>11, BusyStays DEF CoreInv
<1>13. gate.closed => ver'.queue = ver.queue
  BY <1>1, <1>6
<1>14. GateKept
  BY DEF CoreInv
<1>15. gate'.closed = gate.closed
  BY <1>1, <1>14 DEF GateKept
<1>16. QueueIsWatched'
  <2>1. CASE gate.closed
    BY <1>15, <2>1 DEF QueueIsWatched
  <2>2. CASE ~gate.closed
    <3>1. Watched(ver')
      BY <1>1, <1>9, <2>2
    <3>2. ActiveRuns' = ActiveOf(ver')
      BY DEF ActiveRuns, ActiveOf
    <3>3. QED
      BY <3>1, <3>2 DEF QueueIsWatched, Watched
  <2>3. QED
    BY <2>1, <2>2
<1>17. GateKept'
  <2>1. Admitted' = Admitted
    BY <1>1 DEF Admitted, Working
  <2>2. CASE s = "reset"
    <3>1. gate.phase = "stopping" /\ gate.closed /\ gate' = [gate EXCEPT !.phase = "quiet"]
      BY <1>1, <1>14, <2>2 DEF GateKept
    <3>2. QED
      BY <1>10, <1>13, <1>14, <2>1, <2>2, <3>1 DEF GateKept
  <2>3. CASE s # "reset"
    <3>1. gate' = gate
      BY <1>1, <2>3
    <3>2. QED
      BY <1>10, <1>13, <1>14, <2>1, <3>1 DEF GateKept
  <2>4. QED
    BY <2>2, <2>3
<1>18. OpsKept' /\ CreationKept'
  BY <1>1 DEF CoreInv, OpsKept, CreationKept
<1>19. QED
  BY <1>2, <1>10, <1>12, <1>16, <1>17, <1>18 DEF CoreInv

\* A run goes on: the one of the verifications it is stays what it is.
LEMMA RunGoes ==
  ASSUME CoreInv, Quietly, UNCHANGED <<row, op, creation, gate>>, NEW r \in Run, ver.runs[r].at # "idle",
         NEW run \in RunType, ver' = [ver EXCEPT !.runs[r] = run],
         run.at # "idle", run.lish = ver.runs[r].lish, run.aborted = ver.runs[r].aborted,
         run.at \in {"look", "read", "mark"} => run.left # {}
  PROVE  CoreInv'
<1>1. /\ events' \in 0 .. MaxEvents /\ events' = events /\ RowsAre(row') /\ GenKept'
  BY StillRows DEF Quietly
<1>2. VerShape(ver, events) /\ VerifyingBut(ver, {}) /\ ver \in VerType /\ RunsKept(ver)
  BY DEF CoreInv, VerKept, VerShape
<1>3. /\ ver' \in VerType /\ ver'.current = ver.current /\ ver'.queue = ver.queue /\ ver'.busy = ver.busy
      /\ ver'.stopping = ver.stopping /\ ver'.stops = ver.stops /\ ver'.runs = [ver.runs EXCEPT ![r] = run]
  BY <1>2 DEF VerType
<1>4. ver.runs \in [Run -> RunType] /\ ver'.runs[r] = run /\ \A q \in Run : q # r => ver'.runs[q] = ver.runs[q]
  BY <1>2, <1>3 DEF VerType
<1>5. ActiveOf(ver') = ActiveOf(ver) /\ ActiveOf(ver) \subseteq Run
  BY <1>4 DEF ActiveOf
<1>6. RunsKept(ver')
  <2>1. ASSUME NEW q \in Run
        PROVE  /\ ver'.runs[q].aborted = ver.runs[q].aborted
               /\ ver'.runs[q].at \in {"look", "read", "mark"} => ver'.runs[q].left # {}
    BY <1>2, <1>4 DEF RunsKept
  <2>2. QED
    BY <1>2, <1>3, <1>5, <2>1 DEF RunsKept
<1>7. \A l : IsCurrent(ver', l) <=> IsCurrent(ver, l)
  <2>1. ver.current # None => ver.current \in Run
    BY <1>2 DEF VerType
  <2>2. QED
    BY <1>3, <1>4, <2>1 DEF IsCurrent
<1>8. VerKept(ver', events')
  <2>1. Spare(ver') = Spare(ver) /\ StopsKept(ver')
    BY <1>2, <1>3, <1>5 DEF Spare, StopsKept, VerShape
  <2>2. VerifyingBut(ver', {})
    BY <1>2, <1>3, <1>7 DEF VerifyingBut
  <2>3. QED
    BY <1>1, <1>2, <1>3, <1>6, <2>1, <2>2 DEF VerKept, VerShape
<1>9. Watched(ver) => Watched(ver')
  BY <1>3, <1>5 DEF Watched
<1>10. QED
  BY <1>1, <1>3, <1>8, <1>9, StillKept

LEMMA RunIs ==
  ASSUME CoreInv, NEW r \in Run
  PROVE  /\ ver.runs[r] \in RunType
         /\ ver.runs[r].at \in {"look", "read", "mark"} =>
              ver.runs[r].left # {} /\ Turn(ver.runs[r]) \in Piece /\ Turn(ver.runs[r]) \in ver.runs[r].left
<1> DEFINE run == ver.runs[r]
<1>1. run \in RunType
  BY DEF CoreInv, VerKept, VerShape, VerType
<1>2. run.at \in {"look", "read", "mark"} => run.left # {}
  BY DEF CoreInv, VerKept, VerShape, RunsKept
<1> HIDE DEF run
<1>3. run.left # {} => Turn(run) \in run.left
  BY DEF Turn
<1>4. run.left \subseteq Piece
  BY <1>1 DEF RunType
<1>5. QED
  BY <1>1, <1>2, <1>3, <1>4 DEF run

LEMMA NextIs ==
  ASSUME NEW run \in RunType, NEW left \in SUBSET Piece
  PROVE  /\ Next1(run, left) \in RunType /\ Next1(run, left).at \in {"ended", "look"}
         /\ Next1(run, left).lish = run.lish /\ Next1(run, left).aborted = run.aborted
         /\ Next1(run, left).at = "look" => Next1(run, left).left # {}
<1>1. CASE run.aborted \/ left = {} \/ ~row[run.lish].on
  BY <1>1 DEF Next1, RunType
<1>2. CASE ~(run.aborted \/ left = {} \/ ~row[run.lish].on)
  BY <1>2 DEF Next1, RunType
<1>3. QED
  BY <1>1, <1>2

LEMMA RunLooksKeeps == ASSUME CoreInv, NEW r \in Run, RunLooks(r) PROVE CoreInv'
<1> DEFINE run == ver.runs[r]
<1>1. run \in RunType /\ run.at = "look" /\ run.left # {} /\ run.left \subseteq Piece
  <2>1. run.at = "look"
    BY DEF RunLooks
  <2>2. run \in RunType /\ run.left # {}
    BY <2>1, RunIs
  <2>3. QED
    BY <2>1, <2>2 DEF RunType
<1>2. \/ RunDo(r, Next1(run, {})) \/ RunDo(r, Next1(run, run.left \ {Turn(run)})) \/ RunDo(r, [run EXCEPT !.at = "read"])
  BY Zenon DEF RunLooks
<1> DEFINE a == Next1(run, {})
           b == Next1(run, run.left \ {Turn(run)})
           c == [run EXCEPT !.at = "read"]
<1> HIDE DEF run
<1>3. a \in RunType /\ a.at # "idle" /\ a.lish = run.lish /\ a.aborted = run.aborted
      /\ (a.at \in {"look", "read", "mark"} => a.left # {})
  <2>1. {} \in SUBSET Piece
    OBVIOUS
  <2>2. QED
    BY <1>1, <2>1, NextIs
<1>4. b \in RunType /\ b.at # "idle" /\ b.lish = run.lish /\ b.aborted = run.aborted
      /\ (b.at \in {"look", "read", "mark"} => b.left # {})
  <2>1. run.left \ {Turn(run)} \in SUBSET Piece
    BY <1>1
  <2>2. QED
    BY <1>1, <2>1, NextIs
<1>5. c \in RunType /\ c.at # "idle" /\ c.lish = run.lish /\ c.aborted = run.aborted
      /\ (c.at \in {"look", "read", "mark"} => c.left # {})
  BY <1>1 DEF RunType
<1> HIDE DEF a, b, c
<1>6. PICK to \in {a, b, c} : RunDo(r, to)
  BY <1>2 DEF a, b, c
<1>7. /\ Quietly /\ UNCHANGED <<row, op, creation, gate>> /\ ver' = [ver EXCEPT !.runs[r] = to]
  BY <1>6 DEF RunDo, callVars
<1>8. to \in RunType /\ to.at # "idle" /\ to.lish = run.lish /\ to.aborted = run.aborted
      /\ (to.at \in {"look", "read", "mark"} => to.left # {})
  BY <1>3, <1>4, <1>5
<1>9. QED
  BY <1>1, <1>7, <1>8, RunGoes DEF run

LEMMA RunReadsKeeps == ASSUME CoreInv, NEW r \in Run, RunReads(r) PROVE CoreInv'
<1> DEFINE run == ver.runs[r]
           fine == onDisk[run.lish][run.dir][Turn(run)] = "data"
           to == [run EXCEPT !.at = "mark", !.ok = fine]
<1>1. run.at = "read" /\ RunDo(r, to)
  BY DEF RunReads
<1>2. run \in RunType /\ run.left # {}
  BY <1>1, RunIs
<1>3. fine \in BOOLEAN
  OBVIOUS
<1>4. /\ Quietly /\ UNCHANGED <<row, op, creation, gate>> /\ ver' = [ver EXCEPT !.runs[r] = to]
  BY <1>1 DEF RunDo, callVars
<1> HIDE DEF run, fine
<1>5. to \in RunType /\ to.at = "mark" /\ to.lish = run.lish /\ to.aborted = run.aborted /\ to.left # {}
  BY <1>2, <1>3 DEF RunType
<1> HIDE DEF to
<1>6. QED
  BY <1>1, <1>4, <1>5, RunGoes DEF run

LEMMA RunMarksKeeps == ASSUME CoreInv, NEW r \in Run, RunMarks(r) PROVE CoreInv'
<1> DEFINE run == ver.runs[r]
           before == [run EXCEPT !.ok = FALSE]
           left == run.left \ {Turn(run)}
           to == Next1(before, left)
<1>1. run.at = "mark" /\ RunDo(r, to)
  BY DEF RunMarks
<1>2. run \in RunType
  BY RunIs
<1>3. /\ Quietly /\ UNCHANGED <<row, op, creation, gate>> /\ ver' = [ver EXCEPT !.runs[r] = to]
  BY <1>1 DEF RunDo, callVars
<1> HIDE DEF run
<1>4. before \in RunType /\ before.lish = run.lish /\ before.aborted = run.aborted /\ left \in SUBSET Piece
  BY <1>2 DEF RunType
<1> HIDE DEF before, left
<1>5. to \in RunType /\ to.at # "idle" /\ to.lish = run.lish /\ to.aborted = run.aborted
      /\ (to.at \in {"look", "read", "mark"} => to.left # {})
  BY <1>4, NextIs
<1> HIDE DEF to
<1>6. QED
  BY <1>1, <1>3, <1>5, RunGoes DEF run

LEMMA RunFinishesKeeps == ASSUME CoreInv, NEW r \in Run, RunFinishes(r) PROVE CoreInv'
<1> DEFINE run == ver.runs[r]
           gone == [ver EXCEPT !.runs[r] = NoRun]
           freed == IF ver.current = r THEN [ClearBusy(gone, run.lish) EXCEPT !.current = None] ELSE gone
<1>1. /\ run.at = "ended" /\ Quietly /\ UNCHANGED <<row, op, creation, gate>>
      /\ ver' = (IF gate.closed THEN freed ELSE Process(freed))
  BY DEF RunFinishes, storeVars, callVars
<1>2. /\ events' \in 0 .. MaxEvents /\ events' = events /\ RowsAre(row') /\ GenKept' /\ events \in 0 .. MaxEvents
  BY <1>1, StillRows DEF Quietly, CoreInv
<1>3. VerShape(ver, events) /\ VerifyingBut(ver, {}) /\ ver \in VerType /\ RunsKept(ver)
  BY DEF CoreInv, VerKept, VerShape
<1>4. run \in RunType /\ run.lish \in Lish
  BY RunIs DEF RunType
<1>5. NoRun \in RunType /\ NoRun.at = "idle"
  <2>1. (CHOOSE l \in Lish : TRUE) \in Lish
    BY StoreAssumption
  <2>2. QED
    BY <2>1, StoreAssumption DEF NoRun, RunType
<1> DEFINE runs == [ver.runs EXCEPT ![r] = NoRun]
           busy == IF ver.current = r THEN [ver.busy EXCEPT ![run.lish] = "no"] ELSE ver.busy
           current == IF ver.current = r THEN None ELSE ver.current
<1>6. freed = [ver EXCEPT !.runs = runs, !.busy = busy, !.current = current]
  BY <1>3 DEF ClearBusy, VerType
<1>7. runs \in [Run -> RunType] /\ busy \in [Lish -> Reasons] /\ current \in Run \cup {None}
  <2> HIDE DEF run
  <2>1. QED
    BY <1>3, <1>4, <1>5 DEF VerType, Reasons
<1>8. /\ runs[r] = NoRun /\ \A q \in Run : q # r => runs[q] = ver.runs[q]
      /\ \A x \in Lish : busy[x] \in {ver.busy[x], "no"}
      /\ ver.current = r => busy[run.lish] = "no"
  <2> HIDE DEF run
  <2>1. QED
    BY <1>3, <1>4 DEF VerType
<1> HIDE DEF freed, gone, busy, runs, current
<1>9. /\ freed \in VerType /\ freed.runs = runs /\ freed.busy = busy /\ freed.current = current
      /\ freed.queue = ver.queue /\ freed.stopping = ver.stopping /\ freed.stops = ver.stops
  BY <1>3, <1>6, <1>7 DEF VerType
<1>10. ActiveOf(freed) = ActiveOf(ver) \ {r} /\ ActiveOf(ver) \subseteq Run
  <2>1. \A q \in Run : q \in ActiveOf(freed) <=> q \in ActiveOf(ver) /\ q # r
    BY <1>5, <1>8, <1>9 DEF ActiveOf
  <2>2. ActiveOf(freed) \subseteq Run /\ ActiveOf(ver) \subseteq Run
    BY DEF ActiveOf
  <2>3. QED
    BY <2>1, <2>2
<1>11. RunsKept(freed)
  <2>1. freed.current # None => freed.current \in ActiveOf(freed)
    BY <1>3, <1>9, <1>10 DEF RunsKept, current
  <2>2. ASSUME NEW q \in ActiveOf(freed), ~freed.runs[q].aborted PROVE freed.current = q
    BY <1>3, <1>8, <1>9, <1>10, <2>2 DEF RunsKept, current
  <2>3. ASSUME NEW q \in Run, freed.runs[q].at \in {"look", "read", "mark"} PROVE freed.runs[q].left # {}
    BY <1>3, <1>5, <1>8, <1>9, <2>3 DEF RunsKept
  <2>4. QED
    BY <2>1, <2>2, <2>3 DEF RunsKept
<1>12. Cardinality(Spare(freed)) <= events
  <2>1. Spare(freed) \subseteq Spare(ver)
    BY <1>9, <1>10 DEF Spare, current
  <2>2. IsFiniteSet(Spare(ver)) /\ Spare(ver) \in SUBSET Run /\ Spare(freed) \in SUBSET Run
    BY <1>10, <2>1, RunsAreFew DEF Spare
  <2>3. /\ Cardinality(Spare(freed)) <= Cardinality(Spare(ver))
        /\ Cardinality(Spare(ver)) \in Nat /\ Cardinality(Spare(freed)) \in Nat
    BY <2>1, <2>2, FS_Subset, RunsAreFew
  <2>4. Cardinality(Spare(ver)) <= events
    BY <1>3 DEF VerShape
  <2>5. ASSUME NEW a \in Nat, NEW b \in Nat, NEW n \in Nat, a <= b, b <= n PROVE a <= n
    BY <2>5
  <2>6. events \in Nat
    BY <1>2, StoreAssumption
  <2>7. QED
    BY <2>3, <2>4, <2>5, <2>6
<1>13. VerifyingBut(freed, {})
  <2>1. ASSUME NEW x \in Lish, freed.busy[x] = "verifying" PROVE x \in Range(freed.queue) \/ IsCurrent(freed, x)
    <3>1. ver.busy[x] = "verifying" /\ (ver.current = r => x # run.lish)
      BY <1>8, <1>9, <2>1
    <3>2. x \in Range(ver.queue) \/ IsCurrent(ver, x)
      BY <1>3, <3>1 DEF VerifyingBut
    <3>3. CASE ver.current = r
      BY <1>9, <3>1, <3>2, <3>3 DEF IsCurrent
    <3>4. CASE ver.current # r
      BY <1>3, <1>8, <1>9, <1>10, <3>2, <3>4 DEF IsCurrent, current, RunsKept
    <3>5. QED
      BY <3>3, <3>4
  <2>2. QED
    BY <2>1 DEF VerifyingBut
<1>14. VerKept(freed, events)
  <2>1. StopsKept(freed)
    BY <1>3, <1>9 DEF StopsKept, VerShape
  <2>2. QED
    BY <1>3, <1>9, <1>11, <1>12, <1>13, <2>1 DEF VerKept, VerShape
<1>15. /\ VerKept(Process(freed), events) /\ Watched(Process(freed)) /\ OnlyVerifies(freed, Process(freed))
       /\ Process(freed).stops = freed.stops
  BY <1>2, <1>14, ProcessKeeps
<1>16. VerKept(ver', events') /\ ver'.stops = ver.stops /\ (~gate.closed /\ Watched(ver) => Watched(ver'))
  BY <1>1, <1>2, <1>9, <1>14, <1>15
<1>17. \A x \in Lish : ver'.busy[x] = ver.busy[x] \/ ver'.busy[x] \in {"no", "verifying"}
  BY <1>1, <1>8, <1>9, <1>15 DEF OnlyVerifies
<1>18. gate.phase \in {"stopping", "quiet"} => ver'.queue = ver.queue
  BY <1>1, <1>9, NotAdmitted DEF CoreInv
<1>19. QED
  BY <1>1, <1>2, <1>16, <1>17, <1>18, StillKept

-----------------------------------------------------------------------------
(* The transfers.                                                          *)

LEMMA TriggeredKeeps ==
  ASSUME CoreInv, Event \/ Quietly, UNCHANGED <<row, op, creation, gate>>, NEW l \in Lish, Triggered(l)
  PROVE  CoreInv'
<1>1. /\ events' \in 0 .. MaxEvents /\ events \in Nat /\ events' \in Nat /\ events <= events'
      /\ RowsAre(row') /\ GenKept'
  BY StillRows
<1>2. CASE gate.closed
  <2>1. UNCHANGED ver
    BY <1>2 DEF Triggered
  <2>2. QED
    BY <2>1, StillCore
<1>3. CASE ~gate.closed
  <2>1. VerShape(ver, events') /\ VerifyingBut(ver, {l})
    <3>1. VerKept(ver, events')
      BY <1>1, VerLater DEF CoreInv
    <3>2. QED
      BY <3>1 DEF VerKept, VerifyingBut
  <2>2. /\ VerKept(Enqueue(ver, l), events') /\ OnlyVerifies(ver, Enqueue(ver, l)) /\ Enqueue(ver, l).stops = ver.stops
        /\ Watched(ver) => Watched(Enqueue(ver, l))
    BY <1>1, <2>1, EnqueueKeeps
  <2>3. ver' = Enqueue(ver, l)
    BY <1>3 DEF Triggered
  <2>4. gate.phase \notin {"stopping", "quiet"}
    BY <1>3, NotAdmitted DEF CoreInv
  <2>5. QED
    BY <1>1, <2>2, <2>3, <2>4, StillKept DEF OnlyVerifies
<1>4. QED
  BY <1>2, <1>3

ReaderKept == reader.on => reader.lish \in Lish /\ reader.piece \in Piece

LEMMA ChunkReadKeeps == ASSUME CoreInv, ReaderKept, ChunkRead PROVE CoreInv'
<1> DEFINE l == reader.lish
<1>1. Quietly /\ UNCHANGED <<row, op, creation, gate>> /\ l \in Lish /\ (UNCHANGED ver \/ Triggered(l))
  BY DEF ChunkRead, ReaderKept, callVars
<1> HIDE DEF l
<1>2. CASE UNCHANGED ver
  BY <1>1, <1>2, StillCore
<1>3. CASE Triggered(l)
  BY <1>1, <1>3, TriggeredKeeps
<1>4. QED
  BY <1>1, <1>2, <1>3

LEMMA UploadFailsKeeps == ASSUME CoreInv, ReaderKept, UploadFails PROVE CoreInv'
<1> DEFINE l == reader.lish
<1>1. Event /\ UNCHANGED <<row, op, creation, gate>> /\ l \in Lish /\ Triggered(l)
  BY DEF UploadFails, ReaderKept, callVars
<1> HIDE DEF l
<1>2. QED
  BY <1>1, TriggeredKeeps

LEMMA TransfersKeep ==
  ASSUME CoreInv, NEW l \in Lish, NEW p \in Piece,
         DownloadStarts(l) \/ DownloadStops(l) \/ DownloadWrites(l, p) \/ ChunkAsked(l, p)
  PROVE  CoreInv'
<1>1. CASE DownloadStarts(l)
  <2>1. Event /\ UNCHANGED <<row, op, creation, gate, ver>>
    BY <1>1 DEF DownloadStarts, storeVars, callVars
  <2>2. QED
    BY <2>1, StillCore
<1>2. CASE DownloadStops(l)
  <2>1. Event /\ UNCHANGED <<row, op, creation, gate, ver>>
    BY <1>2 DEF DownloadStops, storeVars, callVars
  <2>2. QED
    BY <2>1, StillCore
<1>3. CASE DownloadWrites(l, p)
  <2>1. Quietly /\ UNCHANGED <<row, op, creation, gate, ver>>
    BY <1>3 DEF DownloadWrites, storeVars, callVars
  <2>2. QED
    BY <2>1, StillCore
<1>4. CASE ChunkAsked(l, p)
  <2>1. Event /\ UNCHANGED <<row, op, creation, gate, ver>>
    BY <1>4 DEF ChunkAsked, storeVars, callVars
  <2>2. QED
    BY <2>1, StillCore
<1>5. QED
  BY <1>1, <1>2, <1>3, <1>4

-----------------------------------------------------------------------------
(* The types of the rest.                                                  *)

Contents == {"none", "empty", "data"}
DataInv == FlagsKept /\ DiskKept /\ PlainKept
contentVars == <<flagged, onDisk, mine, sharing, moving, writer, reader>>

LEMMA FlagsGo ==
  ASSUME FlagsKept, NEW l, NEW s \in SUBSET Piece, flagged' = [flagged EXCEPT ![l] = s]
  PROVE  FlagsKept'
  BY DEF FlagsKept

LEMMA DiskGoes ==
  ASSUME DiskKept, NEW l, NEW D \in [Place -> [Piece -> Contents]], onDisk' = [onDisk EXCEPT ![l] = D]
  PROVE  DiskKept'
  BY DEF DiskKept, Contents

LEMMA DiskIs ==
  ASSUME DiskKept, NEW l \in Lish
  PROVE  /\ onDisk[l] \in [Place -> [Piece -> Contents]] /\ NoFiles \in [Piece -> Contents]
         /\ [p \in Piece |-> "data"] \in [Piece -> Contents]
  BY DEF DiskKept, Contents, NoFiles

LEMMA SameData == ASSUME DataInv, UNCHANGED contentVars PROVE DataInv'
  BY DEF DataInv, contentVars, FlagsKept, DiskKept, PlainKept

LEMMA FlaggedKeeps ==
  ASSUME FlagsKept, NEW run, NEW p \in Piece, NEW ok, Flagged(run, p, ok)
  PROVE  FlagsKept'
<1>1. CASE run.lish \in Lish
  <2>1. flagged[run.lish] \cup {p} \in SUBSET Piece /\ flagged[run.lish] \ {p} \in SUBSET Piece
    BY <1>1 DEF FlagsKept
  <2> DEFINE s == IF ok THEN flagged[run.lish] \cup {p} ELSE flagged[run.lish] \ {p}
  <2>2. s \in SUBSET Piece
    BY <2>1
  <2>3. UNCHANGED flagged \/ flagged' = [flagged EXCEPT ![run.lish] = s]
    BY <1>1 DEF Flagged, FlagsKept
  <2> HIDE DEF s
  <2>4. QED
    BY <2>2, <2>3 DEF FlagsKept
<1>2. CASE run.lish \notin Lish
  BY <1>2 DEF Flagged, FlagsKept
<1>3. QED
  BY <1>1, <1>2

LEMMA RunData ==
  ASSUME CoreInv, DataInv, NEW r \in Run, RunLooks(r) \/ RunReads(r) \/ RunMarks(r) \/ RunFinishes(r)
  PROVE  DataInv'
<1> DEFINE run == ver.runs[r]
<1>1. CASE RunReads(r) \/ RunFinishes(r)
  <2>1. UNCHANGED contentVars
    BY <1>1 DEF RunReads, RunFinishes, RunDo, contentVars, storeVars, diskVars, transferVars, callVars
  <2>2. QED
    BY <2>1, SameData
<1>2. CASE RunLooks(r)
  <2>1. run.at = "look"
    BY <1>2 DEF RunLooks
  <2>2. Turn(run) \in Piece
    BY <2>1, RunIs
  <2>3. /\ UNCHANGED flagged \/ Flagged(run, Turn(run), FALSE)
        /\ UNCHANGED <<onDisk, mine, sharing, moving, writer, reader>>
    BY <1>2 DEF RunLooks, RunDo, diskVars, transferVars, callVars
  <2> HIDE DEF run
  <2>4. FlagsKept'
    <3>1. CASE UNCHANGED flagged
      BY <3>1 DEF DataInv, FlagsKept
    <3>2. CASE Flagged(run, Turn(run), FALSE)
      BY <2>2, <3>2, FlaggedKeeps DEF DataInv
    <3>3. QED
      BY <2>3, <3>1, <3>2
  <2>5. QED
    BY <2>3, <2>4 DEF DataInv, DiskKept, PlainKept
<1>3. CASE RunMarks(r)
  <2>1. run.at = "mark"
    BY <1>3 DEF RunMarks
  <2>2. Turn(run) \in Piece
    BY <2>1, RunIs
  <2>3. /\ UNCHANGED flagged \/ Flagged(run, Turn(run), run.ok)
        /\ UNCHANGED <<onDisk, mine, sharing, moving, writer, reader>>
    BY <1>3 DEF RunMarks, RunDo, diskVars, transferVars, callVars
  <2> HIDE DEF run
  <2>4. FlagsKept'
    <3>1. CASE UNCHANGED flagged
      BY <3>1 DEF DataInv, FlagsKept
    <3>2. CASE Flagged(run, Turn(run), run.ok)
      BY <2>2, <3>2, FlaggedKeeps DEF DataInv
    <3>3. QED
      BY <2>3, <3>1, <3>2
  <2>5. QED
    BY <2>3, <2>4 DEF DataInv, DiskKept, PlainKept
<1>4. QED
  BY <1>1, <1>2, <1>3

\* Calls that change flags and what is shared, no files.
LEMMA FlagData ==
  ASSUME CoreInv, DataInv, NEW o \in Op,
         Fetched(o) \/ Imported(o) \/ Dropped(o) \/ DataDeleted(o) \/ \E l \in Lish : Delete(o, l)
  PROVE  DataInv'
<1> DEFINE l == op[o].lish
<1>1. l \in Lish /\ {} \in SUBSET Piece
  BY CallIs
<1>2. CASE Fetched(o) \/ Imported(o) \/ Dropped(o) \/ DataDeleted(o)
  <2>1. /\ UNCHANGED flagged \/ flagged' = [flagged EXCEPT ![l] = {}]
        /\ UNCHANGED <<onDisk, mine, moving, writer, reader>>
        /\ sharing' \in {sharing, sharing \cup {l}}
    BY <1>2 DEF Fetched, Imported, Dropped, DataDeleted, Adds, storeVars, diskVars, transferVars
  <2> HIDE DEF l
  <2>2. FlagsKept'
    BY <1>1, <2>1, FlagsGo DEF DataInv, FlagsKept
  <2>3. DiskKept' /\ PlainKept'
    BY <1>1, <2>1 DEF DataInv, DiskKept, PlainKept
  <2>4. QED
    BY <2>2, <2>3 DEF DataInv
<1>3. CASE \E x \in Lish : Delete(o, x)
  <2>1. UNCHANGED <<flagged, onDisk, mine, moving, writer, reader>> /\ sharing' \subseteq sharing
    BY <1>3 DEF Delete, diskVars, transferVars
  <2>2. QED
    BY <2>1 DEF DataInv, FlagsKept, DiskKept, PlainKept
<1>4. QED
  BY <1>2, <1>3

\* Calls that leave flags, files and sharing.
LEMMA CallData ==
  ASSUME CoreInv, DataInv, NEW o \in Op,
         \/ Undownloaded(o) \/ Copied(o) \/ Moved(o) \/ AcrossDisks(o)
         \/ FetchFails(o) \/ ImportFails(o) \/ RenameFails(o)
         \/ \E l \in Lish : Create(o, l) \/ Imports(o, l) \/ Finalize(o, l)
  PROVE  DataInv'
<1>0. op[o].lish \in Lish
  BY CallIs
<1>1. CASE Copied(o) \/ AcrossDisks(o) \/ FetchFails(o) \/ ImportFails(o) \/ \E l \in Lish : Create(o, l) \/ Imports(o, l)
  <2>1. UNCHANGED contentVars
    BY <1>1 DEF Copied, AcrossDisks, FetchFails, ImportFails, Create, Imports, contentVars, storeVars, diskVars, transferVars
  <2>2. QED
    BY <2>1, SameData
<1>2. CASE Moved(o) \/ RenameFails(o)
  <2>1. UNCHANGED <<flagged, onDisk, mine, sharing, writer, reader>> /\ moving' \subseteq moving
    BY <1>2 DEF Moved, RenameFails, Finally, storeVars, diskVars, transferVars
  <2>2. QED
    BY <2>1 DEF DataInv, FlagsKept, DiskKept, PlainKept
<1>3. CASE Undownloaded(o)
  <2>1. UNCHANGED <<flagged, onDisk, mine, sharing, moving, reader>> /\ writer' = [writer EXCEPT ![op[o].lish] = Nowhere]
    BY <1>3 DEF Undownloaded, storeVars, diskVars
  <2>2. QED
    BY <1>0, <2>1 DEF DataInv, FlagsKept, DiskKept, PlainKept
<1>4. CASE \E l \in Lish : Finalize(o, l)
  <2>1. PICK l \in Lish : Finalize(o, l)
    BY <1>4
  <2>2. /\ UNCHANGED <<flagged, onDisk, mine, sharing, reader>> /\ writer' = [writer EXCEPT ![l] = Nowhere]
        /\ moving' \in {moving, moving \cup {l}}
    BY <2>1 DEF Finalize, storeVars, diskVars
  <2>3. QED
    BY <2>2 DEF DataInv, FlagsKept, DiskKept, PlainKept
<1>5. QED
  BY <1>1, <1>2, <1>3, <1>4

LEMMA CreatedData == ASSUME CoreInv, DataInv, NEW o \in Op, Created(o) PROVE DataInv'
<1> DEFINE l == op[o].lish
<1>0. l \in Lish
  BY CallIs
<1>1. UNCHANGED <<mine, moving, writer, reader>>
  BY DEF Created, transferVars
<1>2. CASE op[o].then = "cancelled"
  <2>1. UNCHANGED <<flagged, sharing, onDisk>>
    BY <1>2 DEF Created, storeVars
  <2>2. QED
    BY <1>1, <2>1 DEF DataInv, FlagsKept, DiskKept, PlainKept
<1>3. CASE op[o].then # "cancelled"
  <2> DEFINE whole == [p \in Piece |-> "data"]
             D == [onDisk[l] EXCEPT !["home"] = whole]
  <2>1. flagged' = [flagged EXCEPT ![l] = {}] /\ sharing' = sharing \cup {l}
    BY <1>3 DEF Created, Adds
  <2>2. onDisk' = [onDisk EXCEPT ![l]["home"] = whole]
    BY <1>3 DEF Created
  <2> HIDE DEF l
  <2>3. whole \in [Piece -> Contents] /\ onDisk[l] \in [Place -> [Piece -> Contents]] /\ "home" \in Place
    BY <1>0, DiskIs DEF DataInv, Place
  <2> HIDE DEF whole
  <2>4. D \in [Place -> [Piece -> Contents]]
    BY <2>3
  <2>5. onDisk' = [onDisk EXCEPT ![l] = D]
    BY <1>0, <2>2 DEF DataInv, DiskKept
  <2> HIDE DEF D
  <2>6. DiskKept'
    BY <2>4, <2>5, DiskGoes DEF DataInv
  <2>7. FlagsKept'
    <3>1. {} \in SUBSET Piece
      OBVIOUS
    <3>2. QED
      BY <2>1, <3>1, FlagsGo DEF DataInv
  <2>8. PlainKept'
    BY <1>0, <1>1, <2>1 DEF DataInv, PlainKept
  <2>9. QED
    BY <2>6, <2>7, <2>8 DEF DataInv
<1>4. QED
  BY <1>2, <1>3

LEMMA UnlinksData == ASSUME CoreInv, DataInv, NEW o \in Op, Unlinks(o) PROVE DataInv'
<1> DEFINE l == op[o].lish
           dir == op[o].from
<1>1. UNCHANGED <<flagged, sharing, moving, writer, reader>> /\ op[o].at = "unlink" /\ mine' \subseteq mine
  BY DEF Unlinks, storeVars, transferVars
<1>2. l \in Lish /\ dir \in Place /\ op[o].left \in SUBSET Piece /\ op[o].left # {}
  <2>1. op[o].left # {}
    BY DEF Unlinks
  <2>2. QED
    BY <1>1, <2>1, CallIs DEF OpFits, OpType
<1>3. PICK F \in [Piece -> Contents] : onDisk' = [onDisk EXCEPT ![l][dir] = F]
  <2>1. CASE op[o].wipe
    <3>1. onDisk' = [onDisk EXCEPT ![l][dir] = NoFiles]
      BY <2>1 DEF Unlinks
    <3>2. QED
      BY <1>2, <3>1, DiskIs DEF DataInv
  <2>2. CASE ~op[o].wipe
    <3> DEFINE p == CHOOSE p \in op[o].left : TRUE
               F == [onDisk[l][dir] EXCEPT ![p] = "none"]
    <3>1. onDisk' = [onDisk EXCEPT ![l][dir][p] = "none"]
      BY <2>2 DEF Unlinks
    <3> HIDE DEF p, l, dir
    <3>2. onDisk[l] \in [Place -> [Piece -> Contents]] /\ onDisk[l][dir] \in [Piece -> Contents]
      BY <1>2, DiskIs DEF DataInv
    <3>3. F \in [Piece -> Contents]
      BY <3>2 DEF Contents
    <3>4. onDisk' = [onDisk EXCEPT ![l][dir] = F]
      BY <1>2, <3>1, <3>2 DEF DataInv, DiskKept
    <3> HIDE DEF F
    <3>5. QED
      BY <3>3, <3>4
  <2>3. QED
    BY <2>1, <2>2
<1> HIDE DEF l, dir
<1> DEFINE D == [onDisk[l] EXCEPT ![dir] = F]
<1>4. onDisk[l] \in [Place -> [Piece -> Contents]]
  BY <1>2, DiskIs DEF DataInv
<1>5. D \in [Place -> [Piece -> Contents]]
  BY <1>2, <1>4
<1>6. onDisk' = [onDisk EXCEPT ![l] = D]
  BY <1>2, <1>3 DEF DataInv, DiskKept
<1> HIDE DEF D
<1>7. DiskKept'
  BY <1>5, <1>6, DiskGoes DEF DataInv
<1>8. QED
  BY <1>1, <1>7 DEF DataInv, FlagsKept, PlainKept

\* One file of a LISH is another now.
WithFile(l, to, p, what) == [onDisk EXCEPT ![l][to][p] = what]
LEMMA OneFile ==
  ASSUME DataInv, NEW l \in Lish, NEW to \in Place, NEW p \in Piece, NEW what \in Contents,
         onDisk' = WithFile(l, to, p, what)
  PROVE  DiskKept'
<1>1. onDisk[l] \in [Place -> [Piece -> Contents]]
  BY DiskIs DEF DataInv
<1> DEFINE F == [onDisk[l][to] EXCEPT ![p] = what]
           D == [onDisk[l] EXCEPT ![to] = F]
<1>2. F \in [Piece -> Contents]
  BY <1>1
<1>3. onDisk' = [onDisk EXCEPT ![l] = D]
  BY <1>1 DEF DataInv, DiskKept, WithFile
<1> HIDE DEF F
<1>4. D \in [Place -> [Piece -> Contents]]
  BY <1>1, <1>2
<1> HIDE DEF D
<1>5. QED
  BY <1>3, <1>4, DiskGoes DEF DataInv

\* Where a call that copies is.
LEMMA CopyIs ==
  ASSUME CoreInv, NEW o \in Op, op[o].at = "copy", op[o].left # {}
  PROVE  op[o].lish \in Lish /\ op[o].to \in Place /\ op[o].from \in Place /\ NextFile(op[o].left) \in Piece
<1>1. op[o].lish \in Lish /\ op[o].to \in Place /\ op[o].from \in Place /\ op[o].left \in SUBSET Piece
  BY CallIs DEF OpFits, OpType
<1>2. NextFile(op[o].left) \in op[o].left
  BY DEF NextFile
<1>3. QED
  BY <1>1, <1>2

LEMMA CopiesData == ASSUME CoreInv, DataInv, NEW o \in Op, Copies(o) PROVE DataInv'
<1>1. /\ UNCHANGED <<flagged, sharing, moving, writer, reader, mine>> /\ op[o].at = "copy" /\ op[o].left # {}
      /\ \E what \in {onDisk[op[o].lish][op[o].from][NextFile(op[o].left)]} \cup (IF op[o].to = op[o].from THEN {"empty"} ELSE {}) :
           onDisk' = [onDisk EXCEPT ![op[o].lish][op[o].to][NextFile(op[o].left)] = what]
  BY DEF Copies, storeVars, transferVars
<1>2. op[o].lish \in Lish /\ op[o].to \in Place /\ op[o].from \in Place /\ NextFile(op[o].left) \in Piece
  BY <1>1, CopyIs
<1>3. onDisk[op[o].lish][op[o].from][NextFile(op[o].left)] \in Contents
  BY <1>2, DiskIs DEF DataInv
<1>4. DiskKept'
  <2>1. PICK what \in {onDisk[op[o].lish][op[o].from][NextFile(op[o].left)]} \cup (IF op[o].to = op[o].from THEN {"empty"} ELSE {}) :
           onDisk' = [onDisk EXCEPT ![op[o].lish][op[o].to][NextFile(op[o].left)] = what]
    BY <1>1, Zenon
  <2>2. what \in Contents
    BY <1>3 DEF Contents
  <2>3. onDisk' = WithFile(op[o].lish, op[o].to, NextFile(op[o].left), what)
    BY <2>1, Zenon DEF WithFile
  <2>4. QED
    BY <1>2, <2>2, <2>3, OneFile
<1>5. QED
  BY <1>1, <1>4 DEF DataInv, FlagsKept, PlainKept

LEMMA CopyFailsData == ASSUME CoreInv, DataInv, NEW o \in Op, CopyFails(o) PROVE DataInv'
<1>1. /\ UNCHANGED <<flagged, sharing, writer, reader, mine>> /\ op[o].at = "copy" /\ op[o].left # {} /\ moving' \subseteq moving
      /\ \E what \in {onDisk[op[o].lish][op[o].to][NextFile(op[o].left)], "empty"} :
           onDisk' = [onDisk EXCEPT ![op[o].lish][op[o].to][NextFile(op[o].left)] = what]
  BY DEF CopyFails, HalfCopied, Finally, storeVars, transferVars
<1>2. op[o].lish \in Lish /\ op[o].to \in Place /\ op[o].from \in Place /\ NextFile(op[o].left) \in Piece
  BY <1>1, CopyIs
<1>3. onDisk[op[o].lish][op[o].to][NextFile(op[o].left)] \in Contents
  BY <1>2, DiskIs DEF DataInv
<1>4. DiskKept'
  <2>1. PICK what \in {onDisk[op[o].lish][op[o].to][NextFile(op[o].left)], "empty"} :
           onDisk' = [onDisk EXCEPT ![op[o].lish][op[o].to][NextFile(op[o].left)] = what]
    BY <1>1, Zenon
  <2>2. what \in Contents
    BY <1>3 DEF Contents
  <2>3. onDisk' = WithFile(op[o].lish, op[o].to, NextFile(op[o].left), what)
    BY <2>1, Zenon DEF WithFile
  <2>4. QED
    BY <1>2, <2>2, <2>3, OneFile
<1>5. QED
  BY <1>1, <1>4 DEF DataInv, FlagsKept, PlainKept

LEMMA RenamedData == ASSUME CoreInv, DataInv, NEW o \in Op, Renamed(o) PROVE DataInv'
<1> DEFINE l == op[o].lish
           to == op[o].to
           from == op[o].from
           files == onDisk[l][from]
<1>1. UNCHANGED <<flagged, sharing, writer, reader, mine>> /\ op[o].at = "rename" /\ moving' \subseteq moving
  BY DEF Renamed, transferVars, Finally
<1>2. l \in Lish /\ to \in Place /\ from \in Place
  BY <1>1, CallIs DEF OpFits
<1>3. onDisk' = [onDisk EXCEPT ![l][to] = files, ![l][from] = NoFiles]
  BY DEF Renamed
<1> HIDE DEF l, to, from
<1>4. onDisk[l] \in [Place -> [Piece -> Contents]] /\ NoFiles \in [Piece -> Contents]
  BY <1>2, DiskIs DEF DataInv
<1>5. files \in [Piece -> Contents]
  BY <1>2, <1>4
<1> HIDE DEF files
<1> DEFINE D == [onDisk[l] EXCEPT ![to] = files, ![from] = NoFiles]
<1>6. onDisk' = [onDisk EXCEPT ![l] = D]
  BY <1>2, <1>3 DEF DataInv, DiskKept
<1>7. D \in [Place -> [Piece -> Contents]]
  BY <1>2, <1>4, <1>5
<1> HIDE DEF D
<1>8. DiskKept'
  BY <1>6, <1>7, DiskGoes DEF DataInv
<1>9. QED
  BY <1>1, <1>8 DEF DataInv, FlagsKept, PlainKept

LEMMA MoveData == ASSUME CoreInv, DataInv, NEW o \in Op, NEW l \in Lish, NEW to \in Place, Move(o, l, to) PROVE DataInv'
<1> DEFINE from == row[l].dir
           files == onDisk[l][from]
<1>1. UNCHANGED <<flagged, sharing, writer, reader, mine>> /\ row[l].on /\ moving' \in {moving \cup {l}, moving \ {l}}
  BY DEF Move, transferVars
<1>2. from \in Place /\ to \in Place
  BY <1>1, RowIs DEF Place
<1>3. onDisk[l] \in [Place -> [Piece -> Contents]] /\ NoFiles \in [Piece -> Contents]
  BY DiskIs DEF DataInv
<1>4. \/ UNCHANGED onDisk
      \/ onDisk' = [onDisk EXCEPT ![l][to] = files, ![l][from] = NoFiles]
  BY DEF Move
<1> HIDE DEF from
<1>5. files \in [Piece -> Contents]
  BY <1>2, <1>3
<1> HIDE DEF files
<1> DEFINE D == [onDisk[l] EXCEPT ![to] = files, ![from] = NoFiles]
<1>6. CASE UNCHANGED onDisk
  BY <1>1, <1>6 DEF DataInv, FlagsKept, DiskKept, PlainKept
<1>7. CASE onDisk' = [onDisk EXCEPT ![l][to] = files, ![l][from] = NoFiles]
  <2>1. onDisk' = [onDisk EXCEPT ![l] = D]
    BY <1>2, <1>7 DEF DataInv, DiskKept
  <2>2. D \in [Place -> [Piece -> Contents]]
    BY <1>2, <1>3, <1>5
  <2> HIDE DEF D
  <2>3. DiskKept'
    BY <2>1, <2>2, DiskGoes DEF DataInv
  <2>4. QED
    BY <1>1, <2>3 DEF DataInv, FlagsKept, PlainKept
<1>8. QED
  BY <1>4, <1>6, <1>7

LEMMA StartsData == ASSUME CoreInv, DataInv, NEW l \in Lish, DownloadStarts(l) PROVE DataInv'
<1> DEFINE dir == row[l].dir
           F == [p \in Piece |-> IF onDisk[l][dir][p] = "none" THEN "empty" ELSE onDisk[l][dir][p]]
           D == [onDisk[l] EXCEPT ![dir] = F]
<1>1. /\ UNCHANGED <<flagged, sharing, moving, reader, mine>> /\ row[l].on /\ writer' = [writer EXCEPT ![l] = dir]
      /\ onDisk' = [onDisk EXCEPT ![l][dir] = [p \in Piece |-> IF @[p] = "none" THEN "empty" ELSE @[p]]]
  BY DEF DownloadStarts, storeVars, callVars
<1>2. dir \in Place /\ onDisk[l] \in [Place -> [Piece -> Contents]]
  BY <1>1, RowIs, DiskIs DEF DataInv
<1> HIDE DEF dir
<1>3. F \in [Piece -> Contents]
  BY <1>2 DEF Contents
<1>4. onDisk' = [onDisk EXCEPT ![l][dir] = F]
  BY <1>1, Zenon
<1> HIDE DEF F
<1>5. onDisk' = [onDisk EXCEPT ![l] = D]
  BY <1>2, <1>4 DEF DataInv, DiskKept
<1>6. D \in [Place -> [Piece -> Contents]]
  BY <1>2, <1>3
<1> HIDE DEF D
<1>7. DiskKept'
  BY <1>5, <1>6, DiskGoes DEF DataInv
<1>8. PlainKept'
  BY <1>1, <1>2 DEF DataInv, PlainKept
<1>9. QED
  BY <1>1, <1>7, <1>8 DEF DataInv, FlagsKept

LEMMA WritesData == ASSUME CoreInv, DataInv, NEW l \in Lish, NEW p \in Piece, DownloadWrites(l, p) PROVE DataInv'
<1> DEFINE dir == writer[l]
           F == [onDisk[l][dir] EXCEPT ![p] = "data"]
           D == [onDisk[l] EXCEPT ![dir] = F]
<1>1. /\ UNCHANGED <<sharing, moving, reader, mine, writer>> /\ dir # Nowhere
      /\ onDisk' = [onDisk EXCEPT ![l][dir][p] = "data"]
      /\ UNCHANGED flagged \/ flagged' = [flagged EXCEPT ![l] = flagged[l] \cup {p}]
  BY DEF DownloadWrites, transferVars, callVars, DataInv, FlagsKept
<1>2. dir \in Place /\ onDisk[l] \in [Place -> [Piece -> Contents]]
  BY <1>1, DiskIs DEF DataInv, PlainKept
<1>3. FlagsKept'
  <2>1. flagged[l] \cup {p} \in SUBSET Piece
    BY DEF DataInv, FlagsKept
  <2>2. CASE UNCHANGED flagged
    BY <2>2 DEF DataInv, FlagsKept
  <2>3. CASE flagged' = [flagged EXCEPT ![l] = flagged[l] \cup {p}]
    BY <2>1, <2>3, FlagsGo DEF DataInv
  <2>4. QED
    BY <1>1, <2>2, <2>3
<1> HIDE DEF dir
<1>4. F \in [Piece -> Contents]
  BY <1>2 DEF Contents
<1>5. onDisk' = [onDisk EXCEPT ![l] = D]
  BY <1>1, <1>2 DEF DataInv, DiskKept
<1> HIDE DEF F
<1>6. D \in [Place -> [Piece -> Contents]]
  BY <1>2, <1>4
<1> HIDE DEF D
<1>7. DiskKept'
  BY <1>5, <1>6, DiskGoes DEF DataInv
<1>8. QED
  BY <1>1, <1>3, <1>7 DEF DataInv, PlainKept

LEMMA TransferData ==
  ASSUME CoreInv, DataInv,
         \/ \E l \in Lish : DownloadStops(l) \/ \E p \in Piece : ChunkAsked(l, p)
         \/ ChunkRead \/ UploadFails
  PROVE  DataInv'
<1>1. CASE \E l \in Lish : DownloadStops(l)
  <2>1. PICK l \in Lish : DownloadStops(l)
    BY <1>1
  <2>2. UNCHANGED <<flagged, onDisk, mine, sharing, moving, reader>> /\ writer' = [writer EXCEPT ![l] = Nowhere]
    BY <2>1 DEF DownloadStops, storeVars, diskVars, callVars
  <2>3. QED
    BY <2>2 DEF DataInv, FlagsKept, DiskKept, PlainKept
<1>2. CASE \E l \in Lish, p \in Piece : ChunkAsked(l, p)
  <2>1. PICK l \in Lish, p \in Piece : ChunkAsked(l, p)
    BY <1>2
  <2>2. /\ UNCHANGED <<flagged, onDisk, mine, sharing, moving, writer>> /\ reader'.lish = l /\ reader'.piece = p
    BY <2>1 DEF ChunkAsked, storeVars, diskVars, callVars
  <2>3. QED
    BY <2>2 DEF DataInv, FlagsKept, DiskKept, PlainKept
<1>3. CASE ChunkRead
  <2> DEFINE l == reader.lish
             p == reader.piece
  <2>1. /\ reader.on /\ UNCHANGED <<onDisk, mine, sharing, moving, writer>> /\ reader' = NoReader
        /\ UNCHANGED flagged \/ flagged' = [flagged EXCEPT ![l] = @ \ {p}]
    BY <1>3 DEF ChunkRead, diskVars, callVars
  <2>2. l \in Lish
    BY <2>1 DEF DataInv, PlainKept
  <2> HIDE DEF l, p
  <2>3. FlagsKept'
    BY <2>1, <2>2 DEF DataInv, FlagsKept
  <2>4. PlainKept'
    BY <2>1 DEF DataInv, PlainKept, NoReader
  <2>5. QED
    BY <2>1, <2>3, <2>4 DEF DataInv, DiskKept
<1>4. CASE UploadFails
  <2>1. UNCHANGED <<flagged, onDisk, mine, moving, writer>> /\ reader' = NoReader /\ sharing' \subseteq sharing
    BY <1>4 DEF UploadFails, diskVars, callVars
  <2>2. QED
    BY <2>1 DEF DataInv, FlagsKept, DiskKept, PlainKept, NoReader
<1>5. QED
  BY <1>1, <1>2, <1>3, <1>4

LEMMA QuietData ==
  ASSUME DataInv,
         \/ \E l \in Lish : Verify(l) \/ StopVerify(l)
         \/ VerifyAll \/ StopVerifyAll \/ StopCreate \/ Resets
  PROVE  DataInv'
<1>1. CASE (\E l \in Lish : Verify(l) \/ StopVerify(l)) \/ VerifyAll \/ StopVerifyAll \/ StopCreate
  <2>1. UNCHANGED contentVars
    BY <1>1 DEF Verify, StopVerify, VerifyAll, StopVerifyAll, StopCreate, contentVars, storeVars, diskVars, transferVars, callVars
  <2>2. QED
    BY <2>1, SameData
<1>2. CASE Resets
  <2>1. UNCHANGED contentVars
    BY <1>2 DEF Resets, PauseMutations, Drained, ResumeMutations, StopReturns, contentVars, storeVars, diskVars,
       transferVars, callVars
  <2>2. QED
    BY <2>1, SameData
<1>3. QED
  BY <1>1, <1>2

LEMMA CoreStep == ASSUME CoreInv, PlainKept, StoreNext PROVE CoreInv'
<1>1. CASE RunStep
  BY <1>1, RunLooksKeeps, RunReadsKeeps, RunMarksKeeps, RunFinishesKeeps DEF RunStep
<1>2. CASE OpStep
  <2>1. PICK o \in Op : \/ Created(o) \/ Fetched(o) \/ Imported(o) \/ Unlinks(o) \/ Undownloaded(o) \/ Dropped(o)
                        \/ DataDeleted(o) \/ Copies(o) \/ Copied(o) \/ Moved(o) \/ Renamed(o) \/ AcrossDisks(o)
    BY <1>2 DEF OpStep
  <2>2. CASE Created(o) \/ Fetched(o) \/ Imported(o) \/ Unlinks(o) \/ Undownloaded(o) \/ Dropped(o)
    BY <2>2, CreatedKeeps, FetchedKeeps, ImportedKeeps, UnlinksKeeps, UndownloadedKeeps, DroppedKeeps
  <2>3. CASE DataDeleted(o) \/ Copies(o) \/ Copied(o) \/ Moved(o) \/ Renamed(o) \/ AcrossDisks(o)
    BY <2>3, DataDeletedKeeps, CopiesKeeps, CopiedKeeps, MovedKeepsAll, RenamedKeeps, AcrossKeeps
  <2>4. QED
    BY <2>1, <2>2, <2>3
<1>3. CASE Faults
  BY <1>3, FetchFailsKeeps, ImportFailsKeeps, CopyFailsKeeps, RenameFailsKeeps DEF Faults
<1>4. CASE UserCalls
  <2>1. CASE \E l \in Lish : Verify(l) \/ StopVerify(l)
    BY <2>1, VerifyKeeps, StopVerifyKeeps
  <2>2. CASE VerifyAll \/ StopVerifyAll \/ StopCreate
    BY <2>2, VerifyAllKeeps, StopVerifyAllKeeps, StopCreateKeeps
  <2>3. CASE \E o \in Op, l \in Lish : Create(o, l) \/ Imports(o, l) \/ Delete(o, l) \/ \E to \in Place : Move(o, l, to)
    BY <2>3, CreateKeeps, ImportsKeeps, DeleteKeeps, MoveKeeps
  <2>4. QED
    BY <1>4, <2>1, <2>2, <2>3 DEF UserCalls
<1>5. CASE Transfers
  <2>1. ReaderKept
    BY DEF PlainKept, ReaderKept
  <2>2. CASE \E l \in Lish, o \in Op : Finalize(o, l)
    BY <2>2, FinalizeKeeps
  <2>3. CASE \E l \in Lish : DownloadStarts(l) \/ DownloadStops(l) \/ \E p \in Piece : DownloadWrites(l, p) \/ ChunkAsked(l, p)
    <3>1. Piece # {}
      BY StoreAssumption
    <3>2. PICK l \in Lish, p \in Piece : DownloadStarts(l) \/ DownloadStops(l) \/ DownloadWrites(l, p) \/ ChunkAsked(l, p)
      BY <2>3, <3>1
    <3>3. QED
      BY <3>2, TransfersKeep
  <2>4. CASE ChunkRead \/ UploadFails
    BY <2>1, <2>4, ChunkReadKeeps, UploadFailsKeeps
  <2>5. QED
    BY <1>5, <2>2, <2>3, <2>4 DEF Transfers
<1>6. CASE Resets
  BY <1>6, PauseKeeps, DrainedKeeps, ResumeKeeps, StopReturnsKeeps DEF Resets
<1>7. QED
  BY <1>1, <1>2, <1>3, <1>4, <1>5, <1>6 DEF StoreNext

LEMMA DataStep == ASSUME CoreInv, DataInv, StoreNext PROVE DataInv'
<1>1. CASE RunStep
  BY <1>1, RunData DEF RunStep
<1>2. CASE OpStep
  <2>1. PICK o \in Op : \/ Created(o) \/ Fetched(o) \/ Imported(o) \/ Unlinks(o) \/ Undownloaded(o) \/ Dropped(o)
                        \/ DataDeleted(o) \/ Copies(o) \/ Copied(o) \/ Moved(o) \/ Renamed(o) \/ AcrossDisks(o)
    BY <1>2 DEF OpStep
  <2>2. CASE Created(o) \/ Unlinks(o) \/ Copies(o) \/ Renamed(o)
    BY <2>2, CreatedData, UnlinksData, CopiesData, RenamedData
  <2>3. CASE Fetched(o) \/ Imported(o) \/ Dropped(o) \/ DataDeleted(o)
    BY <2>3, FlagData
  <2>4. CASE Undownloaded(o) \/ Copied(o) \/ Moved(o) \/ AcrossDisks(o)
    BY <2>4, CallData
  <2>5. QED
    BY <2>1, <2>2, <2>3, <2>4
<1>3. CASE Faults
  BY <1>3, CallData, CopyFailsData DEF Faults
<1>4. CASE UserCalls
  <2>1. CASE (\E l \in Lish : Verify(l) \/ StopVerify(l)) \/ VerifyAll \/ StopVerifyAll \/ StopCreate
    BY <2>1, QuietData
  <2>2. CASE \E o \in Op, l \in Lish : Create(o, l) \/ Imports(o, l)
    BY <2>2, CallData
  <2>3. CASE \E o \in Op, l \in Lish : Delete(o, l)
    BY <2>3, FlagData
  <2>4. CASE \E o \in Op, l \in Lish, to \in Place : Move(o, l, to)
    BY <2>4, MoveData
  <2>5. QED
    BY <1>4, <2>1, <2>2, <2>3, <2>4 DEF UserCalls
<1>5. CASE Transfers
  <2>1. CASE \E l \in Lish, o \in Op : Finalize(o, l)
    BY <2>1, CallData
  <2>2. CASE \E l \in Lish : DownloadStarts(l)
    BY <2>2, StartsData
  <2>3. CASE \E l \in Lish, p \in Piece : DownloadWrites(l, p)
    BY <2>3, WritesData
  <2>4. CASE (\E l \in Lish : DownloadStops(l) \/ \E p \in Piece : ChunkAsked(l, p)) \/ ChunkRead \/ UploadFails
    BY <2>4, TransferData
  <2>5. QED
    BY <1>5, <2>1, <2>2, <2>3, <2>4 DEF Transfers
<1>6. CASE Resets
  BY <1>6, QuietData
<1>7. QED
  BY <1>1, <1>2, <1>3, <1>4, <1>5, <1>6 DEF StoreNext

LEMMA CrossedStep == ASSUME CoreInv, CrossedKept, StoreNext PROVE CrossedKept'
<1>1. CASE RunStep \/ Faults \/ Resets
  <2>1. UNCHANGED crossed
    BY <1>1 DEF RunStep, RunLooks, RunReads, RunMarks, RunFinishes, RunDo, Faults, FetchFails, ImportFails, CopyFails,
       RenameFails, Resets, PauseMutations, Drained, ResumeMutations, StopReturns, diskVars
  <2>2. QED
    BY <2>1 DEF CrossedKept
<1>2. CASE OpStep
  <2>1. UNCHANGED crossed
    BY <1>2 DEF OpStep, Created, Fetched, Imported, Unlinks, Undownloaded, Dropped, DataDeleted, Copies, Copied, Moved,
       Renamed, AcrossDisks, diskVars
  <2>2. QED
    BY <2>1 DEF CrossedKept
<1>3. CASE UserCalls
  <2>1. CASE \E l \in Lish : Verify(l) \/ StopVerify(l)
    BY <2>1 DEF Verify, StopVerify, diskVars, CrossedKept
  <2>2. CASE VerifyAll \/ StopVerifyAll \/ StopCreate
    BY <2>2 DEF VerifyAll, StopVerifyAll, StopCreate, diskVars, CrossedKept
  <2>3. ASSUME NEW o \in Op, NEW l \in Lish, Create(o, l) PROVE CrossedKept'
    BY <2>3 DEF Create, diskVars, CrossedKept
  <2>4. ASSUME NEW o \in Op, NEW l \in Lish, Imports(o, l) PROVE CrossedKept'
    BY <2>4 DEF Imports, Meets, CrossedKept
  <2>5. ASSUME NEW o \in Op, NEW l \in Lish, Delete(o, l) PROVE CrossedKept'
    BY <2>5 DEF Delete, Meets, CrossedKept
  <2>6. ASSUME NEW o \in Op, NEW l \in Lish, NEW to \in Place, Move(o, l, to) PROVE CrossedKept'
    <3>1. Meets(l, onDisk[l][to] # NoFiles)
      BY <2>6 DEF Move
    <3>2. QED
      BY <3>1 DEF Meets, CrossedKept
  <2>7. QED
    BY <1>3, <2>1, <2>2, <2>3, <2>4, <2>5, <2>6 DEF UserCalls
<1>4. CASE Transfers
  <2>1. UNCHANGED crossed \/ \E l \in Lish : crossed' \in {crossed \cup {l}, crossed \ {l}}
    BY <1>4 DEF Transfers, DownloadStarts, DownloadStops, DownloadWrites, ChunkAsked, Finalize, ChunkRead, UploadFails,
       Meets, diskVars
  <2>2. QED
    BY <2>1 DEF CrossedKept
<1>5. QED
  BY <1>1, <1>2, <1>3, <1>4 DEF StoreNext

\* A step of the store keeps all of it.
LEMMA StoreStep == StoreInv /\ StoreNext => StoreInv'
  BY CoreStep, DataStep, CrossedStep DEF StoreInv, DataInv

LEMMA StoreStutters == StoreInv /\ UNCHANGED lishVars => StoreInv'
<1> SUFFICES ASSUME StoreInv, UNCHANGED lishVars PROVE StoreInv'
  OBVIOUS
<1>1. UNCHANGED contentVars /\ UNCHANGED <<row, ver, op, creation, gate, events, crossed>>
  BY DEF lishVars, storeVars, diskVars, transferVars, callVars, contentVars
<1>2. DataInv'
  BY <1>1, SameData DEF StoreInv, DataInv
<1>3. CoreInv'
  BY <1>1 DEF StoreInv, CoreInv, OpsKept, CreationKept, GenKept, QueueIsWatched, BusyKept, GateKept,
     ActiveRuns, Making, Works, Admitted, Working
<1>4. CrossedKept'
  BY <1>1 DEF StoreInv, CrossedKept
<1>5. QED
  BY <1>2, <1>3, <1>4 DEF StoreInv, DataInv

LEMMA StoreBegins == StoreInit => StoreInv
<1> SUFFICES ASSUME StoreInit PROVE StoreInv
  OBVIOUS
<1>0. MaxEvents \in Nat /\ Lish # {} /\ Piece # {} /\ MaxRuns \in Nat
  BY StoreAssumption
<1>1. RowsAre(row) /\ \A l \in Lish : row[l].gen \in {0, 1}
  <2> DEFINE there == [NoRow EXCEPT !.on = TRUE, !.dir = "home", !.gen = 1]
  <2>1. NoRow \in RowType /\ ~NoRow.on /\ NoRow.gen = 0
    BY <1>0 DEF NoRow, RowType
  <2>2. there \in RowType /\ there.dir \in Place /\ there.gen = 1
    <3>1. 1 \in 0 .. MaxEvents + 1 /\ "home" \in Place
      BY <1>0 DEF Place
    <3>2. there \in RowType
      BY <2>1, <3>1 DEF RowType
    <3>3. there.dir = "home" /\ there.gen = 1
      BY <2>1 DEF RowType
    <3>4. QED
      BY <3>1, <3>2, <3>3
  <2>3. row \in [Lish -> {NoRow, there}]
    BY DEF StoreInit
  <2> HIDE DEF there
  <2>4. QED
    BY <2>1, <2>2, <2>3 DEF RowsAre
<1>2. NoOp \in OpType /\ NoOp.at = "idle"
  <2>1. (CHOOSE l \in Lish : TRUE) \in Lish
    BY <1>0
  <2>2. QED
    BY <2>1 DEF NoOp, OpType
<1>3. op = [o \in Op |-> NoOp]
  BY DEF StoreInit
<1>4. OpsKept
  BY <1>2, <1>3 DEF OpsKept, OpFits
<1>5. creation = None /\ events = 0
  BY DEF StoreInit
<1>6. GenKept
  <2> SUFFICES ASSUME NEW l \in Lish PROVE row[l].gen + Cardinality(Making(l)) <= events + 1
    BY DEF GenKept
  <2>1. Making(l) = {}
    BY <1>2, <1>3 DEF Making
  <2>2. Cardinality(Making(l)) = 0
    BY <2>1, FS_EmptySet
  <2>3. QED
    BY <1>1, <1>5, <2>2
<1>7. NoRun \in RunType /\ NoRun.at = "idle"
  <2>1. (CHOOSE l \in Lish : TRUE) \in Lish
    BY <1>0
  <2>2. QED
    BY <1>0, <2>1 DEF NoRun, RunType
<1>8. ver = [current |-> None, queue |-> <<>>, runs |-> [r \in Run |-> NoRun], stopping |-> FALSE, stops |-> {},
             busy |-> [l \in Lish |-> "no"]]
  BY DEF StoreInit
<1>9. /\ ver.current = None /\ ver.queue = <<>> /\ ver.runs = [r \in Run |-> NoRun] /\ ~ver.stopping /\ ver.stops = {}
      /\ ver.busy = [l \in Lish |-> "no"]
  BY <1>8
<1>10. ActiveOf(ver) = {}
  BY <1>7, <1>9 DEF ActiveOf
<1>11. VerKept(ver, events)
  <2>1. ver \in VerType
    <3>1. [r \in Run |-> NoRun] \in [Run -> RunType] /\ [l \in Lish |-> "no"] \in [Lish -> Reasons]
      BY <1>7 DEF Reasons
    <3>2. <<>> \in Seq(Lish)
      OBVIOUS
    <3>3. QED
      BY <1>8, <3>1, <3>2 DEF VerType
  <2>2. IsInjective(ver.queue)
    BY <1>9 DEF IsInjective
  <2>3. RunsKept(ver) /\ StopsKept(ver)
    BY <1>7, <1>9, <1>10 DEF RunsKept, StopsKept
  <2>4. Cardinality(Spare(ver)) <= events
    <3>1. Spare(ver) = {}
      BY <1>10 DEF Spare
    <3>2. QED
      BY <1>5, <3>1, FS_EmptySet
  <2>5. VerifyingBut(ver, {})
    BY <1>9 DEF VerifyingBut
  <2>6. QED
    BY <2>1, <2>2, <2>3, <2>4, <2>5 DEF VerKept, VerShape
<1>12. QueueIsWatched
  BY <1>9 DEF QueueIsWatched
<1>13. BusyKept
  BY <1>9 DEF BusyKept
<1>14. GateKept
  <2>1. gate = [closed |-> FALSE, phase |-> "open", used |-> FALSE]
    BY DEF StoreInit
  <2>2. QED
    BY <1>9, <2>1 DEF GateKept
<1>15. CoreInv
  BY <1>0, <1>1, <1>4, <1>5, <1>6, <1>11, <1>12, <1>13, <1>14 DEF CoreInv, CreationKept
<1>16. FlagsKept
  BY DEF StoreInit, FlagsKept
<1>17. DiskKept
  BY DEF StoreInit, DiskKept
<1>18. PlainKept
  BY DEF StoreInit, PlainKept, NoReader
<1>19. CrossedKept
  BY DEF StoreInit, CrossedKept
<1>20. QED
  BY <1>15, <1>16, <1>17, <1>18, <1>19 DEF StoreInv

LEMMA StoreHolds == StoreInv => VerificationHolds
<1> SUFFICES ASSUME StoreInv PROVE VerificationHolds
  OBVIOUS
<1>1. CoreInv /\ VerKept(ver, events) /\ VerShape(ver, events)
  BY DEF StoreInv, CoreInv, VerKept
<1>2. ActiveRuns = ActiveOf(ver)
  BY DEF ActiveRuns, ActiveOf
<1>3. ver \in VerType /\ RunsKept(ver) /\ IsInjective(ver.queue)
  BY <1>1 DEF VerShape
<1>4. Range(ver.queue) \subseteq Lish
  BY <1>3 DEF VerType, Range
<1>5. StoreTypeOK
  <2>1. row \in [Lish -> [on : BOOLEAN, dir : Place \cup {Nowhere}, final : Place \cup {Nowhere}, gen : 0..MaxEvents + 1]]
    BY <1>1 DEF CoreInv, RowsAre, RowType
  <2>2. /\ ver.current \in Run \cup {None} /\ ver.busy \in [Lish -> {"no", "verifying", "moving", "deleting"}]
        /\ ver.current # None => ver.current \in ActiveRuns
    BY <1>2, <1>3 DEF VerType, Reasons, RunsKept
  <2>3. creation \in Op \cup {None} /\ events \in 0 .. MaxEvents /\ gate.phase \in {"open", "draining", "stopping", "quiet"}
    BY <1>1 DEF CoreInv, CreationKept, GateKept
  <2>4. QED
    BY <1>3, <1>4, <2>1, <2>2, <2>3 DEF StoreInv, FlagsKept, DiskKept, PlainKept, CrossedKept, StoreTypeOK
<1>6. OneVerifier
  BY <1>2, <1>3 DEF OneVerifier, RunsKept
<1>7. QueueIsWatched
  BY <1>1 DEF CoreInv
<1>8. QuietIsFree
  <2> SUFFICES ASSUME NEW l \in Lish, Idle(l), ver.busy[l] # "no" PROVE FALSE
    BY DEF QuietIsFree, Busy
  <2>1. ver.busy[l] \in Reasons
    BY <1>3 DEF VerType
  <2>2. CASE ver.busy[l] = "verifying"
    <3>1. l \in Range(ver.queue) \/ IsCurrent(ver, l)
      BY <1>1, <2>2 DEF VerKept, VerifyingBut
    <3>2. QED
      BY <1>2, <1>3, <3>1 DEF Idle, IsCurrent, RunsKept
  <2>3. CASE ver.busy[l] \in {"moving", "deleting"}
    <3>1. \E o \in Op : op[o].at # "idle" /\ op[o].lish = l
      BY <1>1, <2>3 DEF CoreInv, BusyKept, Works
    <3>2. QED
      BY <3>1 DEF Idle, Working
  <2>4. QED
    BY <2>1, <2>2, <2>3 DEF Reasons
<1>9. QED
  BY <1>5, <1>6, <1>7, <1>8 DEF VerificationHolds

\* Of the verifications of the node one at most has not been told to stop, what waits in
\* their queue has somebody who will start it, and no LISH stays busy once nothing works on
\* it, whatever calls, stops, failures and resets come in between (lishs.ts).
THEOREM VerificationStays == mcSpec => []VerificationHolds
<1>1. mcInit => StoreInv
  BY StoreBegins DEF mcInit
<1>2. StoreInv /\ [mcNext]_<<lishVars, filesVars, tableVars, mode>> => StoreInv'
  <2>1. StoreInv /\ mcNext => StoreInv'
    BY StoreStep, StoreStutters DEF mcNext, Sameness, storeModes
  <2>2. QED
    BY <2>1, StoreStutters
<1>3. QED
  BY <1>1, <1>2, StoreHolds, PTL DEF mcSpec
=============================================================================
