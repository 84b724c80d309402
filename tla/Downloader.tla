----------------------------- MODULE Downloader -----------------------------
(***************************************************************************)
(* The phases of one download (downloader.ts): its manifest, the files it  *)
(* allocates, the runs of the transfer engine, and everything that may     *)
(* start work on it: download() itself, HAVE announcements, discovery      *)
(* cycles, the retry timer and enable().                                   *)
(*                                                                         *)
(* A file stands for its chunks.  What a run does is left to               *)
(* ChunkDownloader: here it fetches some of what is missing, may lose      *)
(* peers, and may report an error.  The sets of dropped and banned peers   *)
(* are those of PeerManager: here a probe may pass over any peer.          *)
(***************************************************************************)
EXTENDS Naturals, FiniteSets

CONSTANTS File, Peer,
          Cap,          \* peers a download may hold
          Seeker,       \* discovery cycles that may be under way at once
          Hearer,       \* HAVE announcements that may be dialling at once
          MaxDeletes,   \* bound: files somebody deletes
          MaxPauses     \* bound: disables and triggers by the user

ASSUME SetAssumption == IsFiniteSet(Peer) /\ IsFiniteSet(File) /\ File # {}
ASSUME BoundAssumption == Cap \in Nat /\ MaxDeletes \in Nat /\ MaxPauses \in Nat

State == {"initialized", "awaiting-manifest", "preparing", "downloading", "downloaded", "error"}
At == {"idle", "entered", "asking", "access", "finding", "allocating", "checking",
       "refilling", "calling", "waiting", "running", "confirming", "restoring"}
Call == {"new", "calling", "working", "waiting", "resolved", "failed", "cancelled"}

VARIABLES
  state, needsManifest, disabled, destroyed,
  have,         \* files whose chunks the database flags
  disk,         \* what is on disk for each file
  missing,      \* missingChunks, as last read
  peers, asked, \* connected peers, and those a manifest was asked from
  handlers,     \* handlers registered with the network
  throttled,    \* lastExhaustedTime is less than ten seconds ago
  retry, discovery, \* the two timers
  locked, work, todo, \* workMutex, where the work inside it is, files it allocates
  call,         \* where download() is
  enabling, shout, \* enable() at its access check, and the call for peers it started
  seek,         \* discovery cycles: where, the peers still to probe, whether one was found
  hear,         \* announcements: whether they dial
  destroying,   \* where destroy() is
  failed,       \* history: work rejected with nobody waiting for it
  stale,        \* history: flagged files that phase 2 filled with zeroes
  unread,       \* history: flags reset before the engine, and missingChunks not read since
  deletes, pauses

dataVars == <<have, disk, missing, stale, unread>>
peerVars == <<peers, asked, handlers>>
timerVars == <<throttled, retry, discovery>>
workVars == <<locked, work, todo>>
flagVars == <<state, needsManifest, disabled, destroyed>>
actorVars == <<enabling, shout, seek, hear, destroying>>
boundVars == <<deletes, pauses>>
vars == <<dataVars, peerVars, timerVars, workVars, flagVars, actorVars, call, failed, boundVars>>

\* Files the manifest lists that are not on disk: without a manifest it lists none.
Absent == {f \in File : ~needsManifest /\ disk[f] = "absent"}
Cycles == [at : {"idle", "calling", "probing", "asking", "importing", "dialing"},
           left : SUBSET Peer, found : BOOLEAN, before : 0..Cardinality(Peer)]
Resting == [at |-> "idle", left |-> {}, found |-> FALSE, before |-> 0]

TypeOK ==
  /\ state \in State /\ needsManifest \in BOOLEAN /\ disabled \in BOOLEAN /\ destroyed \in BOOLEAN
  /\ have \subseteq File /\ missing \subseteq File /\ todo \subseteq File
  /\ stale \subseteq File /\ unread \in BOOLEAN
  /\ disk \in [File -> {"absent", "zero", "data"}]
  /\ peers \subseteq Peer /\ asked \subseteq Peer /\ handlers \subseteq {"have", "disconnect"}
  /\ throttled \in BOOLEAN /\ retry \in BOOLEAN /\ discovery \in BOOLEAN
  /\ locked = (work # "idle") /\ work \in At /\ call \in Call
  /\ enabling \in BOOLEAN /\ shout \in BOOLEAN /\ failed \in BOOLEAN
  /\ seek \in [Seeker -> Cycles]
  /\ hear \in [Hearer -> {"idle", "dialing"}]
  /\ destroying \in {"no", "draining", "done"}
  /\ deletes \in 0..MaxDeletes /\ pauses \in 0..MaxPauses

\* initFromManifest: with a manifest, files flagged as far as an earlier run came, or
\* without one.  The transfer layer may disable the download before it starts.
Init ==
  /\ state = "initialized" /\ needsManifest \in BOOLEAN /\ disabled \in BOOLEAN
  /\ destroyed = FALSE
  /\ have \in IF needsManifest THEN {{}} ELSE SUBSET File
  /\ disk = [f \in File |-> IF f \in have THEN "data" ELSE "absent"]
  /\ missing = IF needsManifest THEN {} ELSE File \ have
  /\ peers = {} /\ asked = {} /\ handlers = {"disconnect"}
  /\ throttled = FALSE /\ retry = FALSE /\ discovery = FALSE
  /\ locked = FALSE /\ work = "idle" /\ todo = {}
  /\ call = "new" /\ enabling = FALSE /\ shout = FALSE /\ failed = FALSE
  /\ stale = {} /\ unread = FALSE
  /\ seek = [s \in Seeker |-> Resting] /\ hear = [h \in Hearer |-> "idle"]
  /\ destroying = "no" /\ deletes = 0 /\ pauses = 0

-----------------------------------------------------------------------------
(* The parts of several handlers *)

\* ALLOWED_TRANSITIONS and transitionTo: what is not allowed is a no-op.
Allowed ==
  [s \in State |->
     CASE s = "initialized" -> {"awaiting-manifest", "preparing"}
       [] s = "awaiting-manifest" -> {"preparing"}
       [] s = "preparing" -> {"downloading", "downloaded", "awaiting-manifest"}
       [] s = "downloading" -> {"downloaded", "preparing"}
       [] s = "downloaded" -> {"preparing"}
       [] s = "error" -> {"downloading", "preparing", "awaiting-manifest", "initialized"}]
TransitionTo(s) == state' = IF s \in Allowed[state] THEN s ELSE state

\* setError: everything that could go on is taken down, the promise is rejected if it is
\* waited for.
SetErrorApart(then) ==
  /\ state' = "error" /\ disabled' = TRUE
  /\ retry' = FALSE /\ discovery' = FALSE
  /\ handlers' = {} /\ peers' = {}
  /\ call' = IF call = "waiting" THEN "failed" ELSE then

\* scheduleNextPeerDiscovery, in a state that this step may change.
DeafScheduleNextIn(s, off) == discovery' = (discovery \/ (~off /\ s \notin {"downloaded", "error"})) \* mutant
ScheduleNextIn(s, off) ==
  discovery' = (discovery \/ (~destroyed /\ ~off /\ s \notin {"downloaded", "error"}))
ScheduleNext == ScheduleNextIn(state, disabled)

\* doWork: skipped if nothing may be done, throttled, or if somebody has the mutex or is
\* in the queue for it.
MayWork(off, tired) ==
  /\ ~destroyed /\ ~off /\ ~tired /\ ~locked
  /\ \A s \in Seeker : seek[s].at # "importing"
DoWork(off, tired) ==
  IF MayWork(off, tired)
  THEN locked' = TRUE /\ work' = "entered" /\ UNCHANGED todo
  ELSE UNCHANGED workVars

\* The end of work.  download() goes on if it was waiting for it: it is over, or waits
\* for the promise that a later step settles.
HeldLeave == work' = "idle" /\ todo' = {} /\ asked' = {} /\ UNCHANGED locked \* mutant
Leave == work' = "idle" /\ locked' = FALSE /\ todo' = {} /\ asked' = {}
HastyAfterWork(s) == \* mutant
  IF call \notin {"working", "calling"} THEN call ELSE IF destroyed THEN "cancelled" ELSE "resolved"
AfterWork(s) ==
  IF call \notin {"working", "calling"} THEN call
  ELSE IF destroyed THEN "cancelled"
  ELSE IF s = "downloaded" THEN "resolved" ELSE "waiting"
Return ==
  /\ Leave
  /\ call' = IF call = "working" THEN AfterWork(state) ELSE call
  /\ handlers' = IF call'= "resolved" THEN {} ELSE handlers
GiveUp == Return /\ UNCHANGED <<dataVars, peers, timerVars, flagVars, actorVars, failed, boundVars>>
Reject ==
  /\ Leave
  /\ call' = IF call = "working" THEN "failed" ELSE call
  /\ failed' = (failed \/ call # "working")
WorkFails == SetErrorApart(IF call = "working" THEN AfterWork("error") ELSE call) /\ Leave

\* The last lines of doWork: finished, or peers are needed, or the engine runs.
Finish ==
  /\ TransitionTo("downloaded") /\ Leave
  /\ call' = IF call \in {"working", "waiting"} /\ state' = "downloaded" THEN "resolved"
             ELSE IF call = "working" THEN "waiting" ELSE call
  /\ handlers' = IF call' = "resolved" THEN {} ELSE handlers
SeekPeers == work' = (IF peers = {} THEN "calling" ELSE "running")
IdleExhaust == throttled' = TRUE /\ UNCHANGED retry /\ Return \* mutant
Exhaust ==
  /\ throttled' = TRUE /\ retry' = TRUE
  /\ Return

-----------------------------------------------------------------------------
(* doWork, inside the mutex *)

\* Destroyed while something was awaited: nothing more is done.
Abandon ==
  /\ destroyed
  /\ work \in {"entered", "asking", "access", "finding", "checking", "calling", "waiting", "confirming"}
  /\ GiveUp

Enter ==
  /\ work = "entered" /\ ~destroyed
  /\ \/ /\ state = "awaiting-manifest" /\ peers # {}
        /\ work' = "asking" /\ asked' = {}
        /\ UNCHANGED <<locked, todo, call, handlers>>
     \/ /\ state = "preparing" /\ work' = "access"
        /\ UNCHANGED <<locked, todo, asked, call, handlers>>
     \/ /\ state = "downloading" /\ missing = {} /\ work' = "checking"
        /\ UNCHANGED <<locked, todo, asked, call, handlers>>
     \/ /\ state = "downloading" /\ missing # {} /\ SeekPeers
        /\ UNCHANGED <<locked, todo, asked, call, handlers>>
     \/ /\ \/ state \notin {"awaiting-manifest", "preparing", "downloading"}
           \/ state = "awaiting-manifest" /\ peers = {}
        /\ Return
  /\ UNCHANGED <<dataVars, peers, timerVars, flagVars, actorVars, failed, boundVars>>

\* A manifest is stored with no chunk flagged, and the files are next.
Import ==
  /\ needsManifest' = FALSE /\ have' = {} /\ missing' = File
  /\ TransitionTo("preparing")

\* Phase 1: the connected peers are asked one after the other.
Answered ==
  /\ work = "asking" /\ ~destroyed
  /\ \/ /\ peers \ asked = {} /\ Return
        /\ UNCHANGED <<dataVars, peers, timerVars, flagVars>>
     \/ /\ peers \ asked # {}
        /\ Import /\ work' = "access" /\ asked' = {}
        /\ UNCHANGED <<disk, stale, unread, locked, todo, call, peers, handlers, timerVars, disabled, destroyed>>
     \/ \E p \in peers \ asked :
          /\ \/ peers' = peers
             \/ peers' = peers \ {p}                \* an invalid answer
          /\ IF peers' \ (asked \cup {p}) = {} THEN Return
             ELSE asked' = asked \cup {p} /\ UNCHANGED <<workVars, call, handlers>>
          /\ UNCHANGED <<dataVars, timerVars, flagVars>>
     \/ /\ peers \ asked # {} /\ WorkFails          \* chunks too large for us
        /\ UNCHANGED <<dataVars, throttled, needsManifest, destroyed, asked>>
  /\ UNCHANGED <<actorVars, failed, boundVars>>

\* Phase 2: the directory, and the files that are missing from it.  Without a manifest
\* there is no file to look for, and the download waits for one again.
Accessed ==
  /\ work = "access" /\ ~destroyed
  /\ \/ /\ ~needsManifest /\ work' = "finding"
        /\ UNCHANGED <<locked, todo, asked, call, handlers, peers, retry, discovery, state, disabled>>
     \/ /\ needsManifest /\ TransitionTo("awaiting-manifest") /\ Return
        /\ UNCHANGED <<peers, retry, discovery, disabled>>
     \/ WorkFails
  /\ UNCHANGED <<dataVars, throttled, needsManifest, destroyed, actorVars, failed, boundVars>>

StartDownloading ==
  /\ TransitionTo("downloading")
  /\ IF missing = {} THEN work' = "checking" ELSE SeekPeers
  /\ todo' = {} /\ UNCHANGED <<locked, asked, call, handlers>>

Found ==
  /\ work = "finding" /\ ~destroyed
  /\ IF Absent = {} THEN StartDownloading
     ELSE /\ work' = "allocating" /\ todo' = Absent
          /\ UNCHANGED <<locked, state, asked, call, handlers>>
  /\ UNCHANGED <<dataVars, peers, timerVars, needsManifest, disabled, destroyed, actorVars,
                 failed, boundVars>>

Filled(S) == disk' = [f \in File |-> IF f \in S \cap Absent THEN "zero" ELSE disk[f]]
ZeroFilled(S) == Filled(S) /\ stale' = stale \cup (S \cap Absent \cap have)

\* allocateStructure fills with zeroes whatever is not there; it stops half way if it is
\* aborted or the disk is full.
Allocated ==
  /\ work = "allocating"
  /\ \/ /\ ~destroyed /\ ZeroFilled(File) /\ StartDownloading
        /\ UNCHANGED <<peers, failed>>
     \/ /\ destroyed /\ (\E S \in SUBSET todo : ZeroFilled(S)) /\ Return
        /\ UNCHANGED <<peers, state, failed>>
     \/ /\ ~destroyed /\ (\E S \in SUBSET todo : ZeroFilled(S)) /\ Reject
        /\ UNCHANGED <<peers, handlers, state>>
  /\ UNCHANGED <<have, missing, unread, timerVars, needsManifest, disabled, destroyed, actorVars,
                 boundVars>>

\* Phase 3 with nothing missing: finished, unless files are gone.
Checked ==
  /\ work \in {"checking", "confirming"} /\ ~destroyed
  /\ IF Absent = {} THEN Finish
     ELSE /\ work' = IF work = "checking" THEN "refilling" ELSE "restoring"
          /\ todo' = Absent
          /\ UNCHANGED <<locked, asked, handlers, state, call>>
  /\ UNCHANGED <<dataVars, peers, timerVars, needsManifest, disabled, destroyed, actorVars,
                 failed, boundVars>>

KeptReset(f) == have \* mutant
Reset(f) == have \ {f}

\* allocateFile and resetFileChunks, file by file.  Before the engine the list of missing
\* chunks is read again; after it the next work does so.
Refilled ==
  /\ work \in {"refilling", "restoring"}
  /\ \E f \in todo :
       \/ /\ destroyed /\ (Filled({f}) \/ UNCHANGED disk) /\ Return
          /\ UNCHANGED <<have, missing, unread, peers, throttled, retry, failed>>
       \/ /\ ~destroyed /\ Reject                   \* a file cut short still counts as missing
          /\ UNCHANGED <<have, disk, missing, unread, peers, handlers, throttled, retry>>
       \/ /\ ~destroyed /\ Filled({f}) /\ have' = Reset(f) /\ UNCHANGED failed
          /\ \/ /\ todo # {f} /\ todo' = todo \ {f}
                /\ unread' = (unread \/ work = "refilling")
                /\ UNCHANGED <<missing, peerVars, throttled, retry, locked, work, call>>
             \/ /\ todo = {f} /\ work = "refilling" /\ todo' = {}
                /\ missing' = File \ have' /\ unread' = FALSE /\ SeekPeers
                /\ UNCHANGED <<peerVars, throttled, retry, locked, call>>
             \/ /\ todo = {f} /\ work = "restoring"
                /\ peers' = {} /\ Exhaust
                /\ UNCHANGED <<missing, unread>>
  /\ UNCHANGED <<stale, discovery, flagVars, actorVars, boundVars>>

\* callForPeers, with its next discovery; two more seconds for the answers; then the
\* engine, or exhaustion and the retry timer.
Called ==
  /\ work = "calling" /\ ~destroyed
  /\ ScheduleNext
  /\ work' = IF peers = {} THEN "waiting" ELSE "running"
  /\ UNCHANGED <<dataVars, peerVars, throttled, retry, flagVars, locked, todo, actorVars,
                 call, failed, boundVars>>
Waited ==
  /\ work = "waiting" /\ ~destroyed
  /\ IF peers = {} THEN Exhaust
     ELSE work' = "running"
          /\ UNCHANGED <<throttled, retry, locked, todo, asked, handlers, call>>
  /\ UNCHANGED <<dataVars, peers, discovery, flagVars, actorVars, failed, boundVars>>

\* The engine reports an error: the rest of the run finds the download disabled.
RunReports ==
  /\ work = "running" /\ ~disabled
  /\ SetErrorApart(call)
  /\ UNCHANGED <<dataVars, asked, throttled, workVars, needsManifest, destroyed, actorVars,
                 failed, boundVars>>

\* The end of a run: some of what was missing was fetched, files that were gone may have
\* been allocated again, peers may have been lost.
Transferred(S, L) ==
  /\ have' = (have \ L) \cup S
  /\ disk' = [f \in File |-> IF f \in S THEN "data" ELSE IF f \in L THEN "zero" ELSE disk[f]]
RunEnds ==
  /\ work = "running"
  /\ \E L \in SUBSET Absent : \E S \in SUBSET ((File \ (have \cup Absent)) \cup L) :
       Transferred(S, L)
  /\ \/ /\ destroyed /\ Return /\ UNCHANGED <<peers, throttled, retry>>
     \/ /\ ~destroyed /\ have' = File /\ peers' \in SUBSET peers
        /\ work' = "confirming"
        /\ UNCHANGED <<throttled, retry, locked, todo, asked, handlers, call>>
     \/ /\ ~destroyed /\ have' # File /\ peers' = {} /\ Exhaust
  /\ UNCHANGED <<missing, stale, unread, discovery, flagVars, actorVars, failed, boundVars>>

-----------------------------------------------------------------------------
(* What starts work *)

\* download(): it takes the announcements of the LISH, then asks for peers or works.
Download ==
  /\ call = "new"
  /\ \/ /\ destroyed /\ call' = "cancelled"
        /\ UNCHANGED <<state, handlers, workVars>>
     \/ /\ ~destroyed /\ state = "initialized"
        /\ handlers' = handlers \cup {"have"}
        /\ IF needsManifest
           THEN TransitionTo("awaiting-manifest") /\ call' = "calling" /\ UNCHANGED workVars
           ELSE /\ TransitionTo("preparing")
                /\ call' = IF MayWork(disabled, throttled) THEN "working" ELSE "waiting"
                /\ DoWork(disabled, throttled)
  /\ UNCHANGED <<dataVars, peers, asked, timerVars, needsManifest, disabled, destroyed,
                 actorVars, failed, boundVars>>
CallReturns ==
  /\ call = "calling"
  /\ ScheduleNext
  /\ call' = AfterWork(state)
  /\ handlers' = IF call' = "resolved" THEN {} ELSE handlers
  /\ UNCHANGED <<dataVars, peers, asked, throttled, retry, flagVars, workVars, actorVars,
                 failed, boundVars>>

\* The ten seconds of the throttle, and the retry timer, which is never shorter.
Tick ==
  /\ throttled /\ throttled' = FALSE
  /\ UNCHANGED <<dataVars, peerVars, retry, discovery, workVars, flagVars, actorVars, call,
                 failed, boundVars>>
RetryFires ==
  /\ retry /\ ~throttled
  /\ retry' = FALSE
  /\ DoWork(disabled \/ state # "downloading", throttled)
  /\ UNCHANGED <<dataVars, peerVars, throttled, discovery, flagVars, actorVars, call, failed,
                 boundVars>>

\* runPeerDiscoveryCycle up to the end of its call for peers, by its timer or the user.
StartCycle(s) ==
  IF state \in {"downloading", "awaiting-manifest"}
  THEN /\ throttled' = FALSE /\ discovery' = FALSE
       /\ seek' = [seek EXCEPT ![s] = [Resting EXCEPT !.at = "calling", !.before = Cardinality(peers)]]
  ELSE /\ discovery' = (state # "downloaded" /\ ~disabled /\ state # "error")
       /\ UNCHANGED <<throttled, seek>>
DiscoveryFires(s) ==
  /\ discovery /\ seek[s].at = "idle" /\ StartCycle(s)
  /\ UNCHANGED boundVars
  /\ UNCHANGED <<dataVars, peerVars, retry, workVars, flagVars, enabling, shout, hear,
                 destroying, call, failed>>
TriggerDiscovery(s) ==
  /\ pauses < MaxPauses /\ pauses' = pauses + 1 /\ UNCHANGED deletes
  /\ ~destroyed /\ ~disabled /\ state \notin {"downloaded", "error"}
  /\ seek[s].at = "idle" /\ StartCycle(s)
  /\ UNCHANGED <<dataVars, peerVars, retry, workVars, flagVars, enabling, shout, hear,
                 destroying, call, failed>>

\* The end of a cycle: work, if somebody new is here and the engine does not run, and the
\* next cycle.
Rest(s) == [seek EXCEPT ![s] = Resting]
EndCycle(s, found, now) ==
  /\ seek' = Rest(s)
  /\ ScheduleNext
  /\ IF (found \/ Cardinality(now) > seek[s].before) /\ work # "running"
     THEN DoWork(disabled, throttled') ELSE UNCHANGED workVars
NextPeer(s, r) == seek' = [seek EXCEPT ![s] = r]

\* Destroyed at any await: the cycle returns, and what it dialled is aborted.
CycleAborts(s) ==
  /\ seek[s].at # "idle" /\ destroyed
  /\ seek[s].at = "importing" => ~locked
  /\ seek' = Rest(s)
  /\ UNCHANGED <<dataVars, peerVars, timerVars, workVars, flagVars, enabling, shout, hear,
                 destroying, call, failed, boundVars>>

\* callForPeers returns, then the peers of the topic are probed one by one while there is
\* room; one that is connected, banned or dropped is passed over.
CycleCalled(s) ==
  /\ seek[s].at = "calling" /\ ~destroyed
  /\ ScheduleNext
  /\ \E T \in SUBSET Peer : NextPeer(s, [seek[s] EXCEPT !.at = "probing", !.left = T])
  /\ UNCHANGED <<dataVars, peerVars, throttled, retry, workVars, flagVars, enabling, shout,
                 hear, destroying, call, failed, boundVars>>
Probe(s) ==
  /\ seek[s].at = "probing" /\ ~destroyed
  /\ UNCHANGED throttled
  /\ IF seek[s].left = {} \/ Cardinality(peers) >= Cap
     THEN EndCycle(s, seek[s].found, peers)
     ELSE /\ \E p \in seek[s].left :
               \/ NextPeer(s, [seek[s] EXCEPT !.left = @ \ {p}])
               \/ /\ p \notin peers
                  /\ NextPeer(s, [seek[s] EXCEPT !.at = "asking", !.left = {p} \cup @])
          /\ UNCHANGED <<discovery, workVars>>
  /\ UNCHANGED <<dataVars, peerVars, retry, flagVars, enabling, shout, hear, destroying, call,
                 failed, boundVars>>

\* The probe's manifest: none, or one to import first, or chunks too large for us.
ProbeAnswered(s) ==
  /\ seek[s].at = "asking" /\ ~destroyed
  /\ \E p \in seek[s].left :
       \/ /\ NextPeer(s, [seek[s] EXCEPT !.at = "probing", !.left = @ \ {p}])
          /\ UNCHANGED <<peerVars, timerVars, state, disabled, call, workVars>>
       \/ /\ NextPeer(s, [seek[s] EXCEPT !.at = IF needsManifest THEN "importing" ELSE "dialing"])
          /\ UNCHANGED <<peerVars, timerVars, state, disabled, call, workVars>>
       \/ /\ needsManifest /\ SetErrorApart(call) /\ seek' = Rest(s)
          /\ UNCHANGED <<asked, throttled, workVars>>
  /\ UNCHANGED <<dataVars, needsManifest, destroyed, enabling, shout, hear, destroying, failed,
                 boundVars>>
ProbeImports(s) ==
  /\ seek[s].at = "importing" /\ ~locked /\ ~destroyed
  /\ IF needsManifest THEN Import ELSE UNCHANGED <<needsManifest, have, missing, state>>
  /\ NextPeer(s, [seek[s] EXCEPT !.at = "dialing"])
  /\ UNCHANGED <<disk, stale, unread, peerVars, timerVars, workVars, disabled, destroyed, enabling, shout,
                 hear, destroying, call, failed, boundVars>>
ProbeDialed(s) ==
  /\ seek[s].at = "dialing" /\ ~destroyed
  /\ \E p \in seek[s].left :
       \/ /\ NextPeer(s, [seek[s] EXCEPT !.at = "probing", !.left = @ \ {p}])
          /\ UNCHANGED <<peers, throttled>>
       \/ /\ p \notin peers /\ Cardinality(peers) < Cap
          /\ peers' = peers \cup {p} /\ throttled' = FALSE
          /\ NextPeer(s, [seek[s] EXCEPT !.at = "probing", !.left = @ \ {p}, !.found = TRUE])
  /\ UNCHANGED <<dataVars, asked, handlers, retry, discovery, workVars, flagVars, enabling,
                 shout, hear, destroying, call, failed, boundVars>>

\* A HAVE announcement dials its peer; one of a connected peer only updates the engine.
HaveArrives(h) ==
  /\ "have" \in handlers /\ ~destroyed /\ ~disabled
  /\ hear[h] = "idle" /\ Cardinality(peers) < Cap /\ peers # Peer
  /\ hear' = [hear EXCEPT ![h] = "dialing"]
  /\ UNCHANGED <<dataVars, peerVars, timerVars, workVars, flagVars, enabling, shout, seek,
                 destroying, call, failed, boundVars>>
HaveDialed(h) ==
  /\ hear[h] = "dialing"
  /\ hear' = [hear EXCEPT ![h] = "idle"]
  /\ \/ UNCHANGED <<peers, throttled, workVars>>    \* not reached, or destroyed meanwhile
     \/ /\ ~destroyed /\ throttled' = FALSE
        /\ \/ UNCHANGED peers                       \* connected meanwhile, or no room left
           \/ Cardinality(peers) < Cap /\ \E p \in Peer \ peers : peers' = peers \cup {p}
        /\ IF work # "running" THEN DoWork(disabled, FALSE) ELSE UNCHANGED workVars
  /\ UNCHANGED <<dataVars, asked, handlers, retry, discovery, flagVars, enabling, shout, seek,
                 destroying, call, failed, boundVars>>

-----------------------------------------------------------------------------
(* The owner, the network and the disk *)

Disable ==
  /\ pauses < MaxPauses /\ pauses' = pauses + 1 /\ UNCHANGED deletes
  /\ ~destroyed
  /\ disabled' = TRUE /\ retry' = FALSE /\ discovery' = FALSE /\ peers' = {}
  /\ UNCHANGED <<dataVars, asked, handlers, throttled, workVars, state, needsManifest,
                 destroyed, actorVars, call, failed>>

\* enable(): the access check, then everything it restarts without waiting for it.
Enable ==
  /\ ~enabling /\ call # "new"
  /\ enabling' = TRUE
  /\ UNCHANGED <<dataVars, peerVars, timerVars, workVars, flagVars, shout, seek, hear,
                 destroying, call, failed, boundVars>>
Enabled ==
  /\ enabling /\ enabling' = FALSE
  /\ \/ /\ disabled' = FALSE /\ throttled' = FALSE
        /\ IF state = "error"
           THEN TransitionTo(IF missing # {} THEN "downloading" ELSE "preparing")
           ELSE UNCHANGED state
        /\ ScheduleNextIn(state', FALSE)
        /\ IF state' \in {"downloading", "awaiting-manifest", "preparing"}
           THEN shout' = (shout \/ ~destroyed) /\ DoWork(FALSE, FALSE)
           ELSE UNCHANGED <<shout, workVars>>
        /\ UNCHANGED <<retry, handlers, peers, call>>
     \/ /\ SetErrorApart(call)
        /\ UNCHANGED <<throttled, shout, workVars>>
  /\ failed' = FALSE
  /\ UNCHANGED <<dataVars, asked, needsManifest, destroyed, seek, hear, destroying, boundVars>>
ShoutReturns ==
  /\ shout /\ shout' = FALSE
  /\ ScheduleNext
  /\ UNCHANGED <<dataVars, peerVars, throttled, retry, workVars, flagVars, enabling, seek,
                 hear, destroying, call, failed, boundVars>>

\* destroy(): it aborts and takes down what it can, then waits for everything tracked.
Destroy ==
  /\ destroying = "no" /\ destroying' = "draining"
  /\ disabled' = TRUE /\ destroyed' = TRUE
  /\ retry' = FALSE /\ discovery' = FALSE /\ handlers' = {} /\ peers' = {}
  /\ call' = IF call = "waiting" THEN "cancelled" ELSE call
  /\ UNCHANGED <<dataVars, asked, throttled, workVars, state, needsManifest, enabling, shout,
                 seek, hear, failed, boundVars>>
Tracked == \/ work # "idle" \/ shout \/ call = "calling"
           \/ \E s \in Seeker : seek[s].at # "idle"
           \/ \E h \in Hearer : hear[h] # "idle"
DestroyReturns ==
  /\ destroying = "draining" /\ ~Tracked /\ destroying' = "done"
  /\ UNCHANGED <<dataVars, peerVars, timerVars, workVars, flagVars, enabling, shout, seek, hear,
                 call, failed, boundVars>>

DropPeer(p) ==
  /\ "disconnect" \in handlers /\ p \in peers /\ ~destroyed
  /\ peers' = peers \ {p}
  /\ UNCHANGED <<dataVars, asked, handlers, timerVars, workVars, flagVars, actorVars, call,
                 failed, boundVars>>

\* Somebody deletes a file of a transfer that has begun.
FileDeleted(f) ==
  /\ deletes < MaxDeletes /\ deletes' = deletes + 1 /\ UNCHANGED pauses
  /\ state = "downloading" /\ disk[f] # "absent"
  /\ disk' = [disk EXCEPT ![f] = "absent"]
  /\ UNCHANGED <<have, missing, stale, unread, peerVars, timerVars, workVars, flagVars, actorVars, call,
                 failed>>

-----------------------------------------------------------------------------
Work == \/ Abandon \/ Enter \/ Answered \/ Accessed \/ Found \/ Allocated \/ Checked
        \/ Refilled \/ Called \/ Waited \/ RunReports \/ RunEnds
Cycle(s) == \/ CycleAborts(s) \/ CycleCalled(s) \/ Probe(s) \/ ProbeAnswered(s)
            \/ ProbeImports(s) \/ ProbeDialed(s)
Next ==
  \/ Work \/ Download \/ CallReturns \/ Tick \/ RetryFires
  \/ \E s \in Seeker : DiscoveryFires(s) \/ TriggerDiscovery(s) \/ Cycle(s)
  \/ \E h \in Hearer : HaveArrives(h) \/ HaveDialed(h)
  \/ Disable \/ Enable \/ Enabled \/ ShoutReturns \/ Destroy \/ DestroyReturns
  \/ \E p \in Peer : DropPeer(p)
  \/ \E f \in File : FileDeleted(f)

Spec == Init /\ [][Next]_vars

-----------------------------------------------------------------------------
(* Properties *)

\* A download that is finished has every file flagged, unless the refill of several lost
\* files was cut short, and no file that was lost under it and filled with zeroes again
\* counts as fetched, but for those phase 2 took for new (downloader.ts, phase 3).
FinishedIsWhole ==
  state = "downloaded" =>
    (have = File \/ unread) /\ \A f \in have : disk[f] = "zero" => f \in stale

\* Once destroy() has returned nothing of the download is left: no timer, no handler, no
\* connection, no work, no dial.
DestroyedIsQuiet ==
  destroying = "done" =>
    /\ ~retry /\ ~discovery /\ handlers = {} /\ peers = {}
    /\ ~Tracked

\* A finished download is complete on the disk and a destroyed one does no more work
\* (downloader.ts, doWork and destroy).
EndsAreWhole == TypeOK /\ FinishedIsWhole /\ DestroyedIsQuiet

\* A download that waits for chunks or a manifest and may work has something that wakes
\* it: a timer, or an operation under way.  The exception is work that ended in an
\* exception nobody waited for.
StaysAwake ==
  (call = "waiting" /\ state \in {"downloading", "awaiting-manifest"}
     /\ ~disabled /\ ~destroyed /\ ~failed) => (retry \/ discovery \/ Tracked)

\* Every step is one the transfer layer may rely on.
contract ==
  [phase |-> IF state = "error" THEN "error"
             ELSE IF state = "downloaded" THEN "complete" ELSE "active",
   disabled |-> disabled, destroyed |-> destroyed,
   promise |-> IF call = "new" THEN "none"
               ELSE IF call \in {"calling", "working", "waiting"} THEN "pending" ELSE call,
   quiet |-> destroying = "done"]
Contract == INSTANCE DownloadContract WITH d <- contract
KeepsContract == Contract!Spec

-----------------------------------------------------------------------------
(* What the code does not guarantee (README, Divergences) *)

\* The main loop "returns only when fully downloaded (or throws on error)".
ErrorIsThrown == state = "error" => call # "waiting"

\* Phase 2 allocates no file whose chunks are already there.
PreparedIsNew == stale = {}

\* Flags that were reset are always in missingChunks before anything asks whether it is empty.
ResetIsRead == unread => work = "refilling"

\* A download with its manifest that has still to be prepared is being worked on.
PreparingIsWorkedOn ==
  (call = "waiting" /\ state = "preparing" /\ ~disabled /\ ~destroyed /\ ~failed) => Tracked

\* A download that is over, one way or the other, listens to nobody.
OverHoldsNoHandler == call \in {"resolved", "failed"} => handlers = {}
=============================================================================
