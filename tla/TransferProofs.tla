--------------------------- MODULE TransferProofs ---------------------------
(***************************************************************************)
(* Proofs about the transfers of one LISH, for any sets of lishnets, users *)
(* and recovery attempts and any number of downloads, calls and faults.    *)
(***************************************************************************)
EXTENDS Transfer, TLAPS

\* A download that takes steps of its own or of its owner.
Touched(e) == Own(e) \cup D!Resumed(e) \cup D!Destroyed(e) \cup {[e EXCEPT !.disabled = TRUE]}

\* A download keeps its type; what was destroyed stays so, a promise that was settled
\* stays settled, and one that was never asked for is not made.
LEMMA DownloadSteps ==
  ASSUME NEW e \in D!Downloads, NEW f \in Touched(e)
  PROVE  /\ f \in D!Downloads
         /\ e.destroyed => f.destroyed
         /\ D!Settled(e) => D!Settled(f)
         /\ e.promise = "none" => f.promise = "none"
<1>. USE DEF D!Downloads, D!Phase, D!Promise, D!Settled
<1>1. CASE f \in D!Failed(e)
  BY <1>1 DEF D!Failed
<1>2. CASE f \in D!Broken(e) \/ f \in D!Overtaken(e)
  BY <1>2 DEF D!Broken, D!Overtaken
<1>3. CASE f \in D!Completed(e) \/ f \in D!Resolved(e)
  <2>1. CASE f \in D!Completed(e)
    BY <2>1 DEF D!Completed
  <2>2. CASE f \in D!Resolved(e)
    BY <2>2 DEF D!Resolved
  <2>. QED BY <1>3, <2>1, <2>2
<1>4. CASE f \in D!Cancelled(e) \/ f \in D!Quieted(e)
  BY <1>4 DEF D!Cancelled, D!Quieted
<1>5. CASE f \in D!Resumed(e)
  BY <1>5 DEF D!Resumed
<1>6. CASE f \in D!Destroyed(e)
  BY <1>6 DEF D!Destroyed
<1>7. CASE f = [e EXCEPT !.disabled = TRUE]
  BY <1>7
<1>. QED BY <1>1, <1>2, <1>3, <1>4, <1>5, <1>6, <1>7 DEF Touched, Own

-----------------------------------------------------------------------------
(* The recovery *)

\* An attempt that may still give its entry back to the timer: there is one at most, and
\* while there is one the entry is there and its timer does not run.
Trying(a) == attempt[a].at \in {"mkdir", "check"} /\ attempt[a].current
OneTry == /\ entry.timer => entry.on
          /\ \A a \in Attempt : Trying(a) => entry.on /\ ~entry.timer
          /\ \A a, b \in Attempt : Trying(a) /\ Trying(b) => a = b

\* What a step does to the recovery, unless it gives an attempt away or takes it back.
RecoveryMoves ==
  \/ UNCHANGED recoveryVars
  \/ StopRecovery
  \/ \E download, upload \in BOOLEAN : StartRecovery(download, upload)
  \/ \E a \in Attempt : AttemptFires(a, stored) \/ DirectoryMade(a) \/ AccessDenied(a)

Attempts == [at : {"idle", "mkdir", "check", "recover"}, current : BOOLEAN, download : BOOLEAN, upload : BOOLEAN]
Entries == [on : BOOLEAN, download : BOOLEAN, upload : BOOLEAN, count : 0..MaxAttempts, timer : BOOLEAN]

LEMMA AttemptUpdates ==
  ASSUME NEW t \in Attempts
  PROVE  /\ [t EXCEPT !.current = FALSE] \in Attempts /\ [t EXCEPT !.current = FALSE].at = t.at
         /\ ~[t EXCEPT !.current = FALSE].current
         /\ NoAttempt \in Attempts /\ NoAttempt.at = "idle" /\ ~NoAttempt.current
         /\ \A x \in {"idle", "mkdir", "check", "recover"} :
              /\ [t EXCEPT !.at = x] \in Attempts /\ [t EXCEPT !.at = x].at = x
              /\ [t EXCEPT !.at = x].current = t.current
BY DEF Attempts, NoAttempt

LEMMA OutdatedAttempts ==
  ASSUME RecoveryTypeOK
  PROVE  /\ Outdated \in [Attempt -> Attempts]
         /\ \A a \in Attempt : Outdated[a].at = attempt[a].at /\ ~Outdated[a].current
<1>1. ASSUME NEW a \in Attempt
      PROVE  /\ attempt[a] \in Attempts
             /\ Outdated[a] = [attempt[a] EXCEPT !.current = FALSE]
  BY DEF RecoveryTypeOK, Outdated, Attempts
<1>2. ASSUME NEW a \in Attempt
      PROVE  Outdated[a] \in Attempts /\ Outdated[a].at = attempt[a].at /\ ~Outdated[a].current
  <2>1. /\ [attempt[a] EXCEPT !.current = FALSE] \in Attempts
        /\ [attempt[a] EXCEPT !.current = FALSE].at = attempt[a].at
        /\ ~[attempt[a] EXCEPT !.current = FALSE].current
    BY <1>1, AttemptUpdates
  <2>. QED BY <1>1, <2>1
<1>. QED BY <1>2 DEF Outdated

LEMMA EntryUpdates ==
  ASSUME RecoveryTypeOK
  PROVE  /\ NoEntry \in Entries /\ ~NoEntry.on /\ ~NoEntry.timer
         /\ \A b \in BOOLEAN : /\ [entry EXCEPT !.timer = b] \in Entries /\ [entry EXCEPT !.timer = b].on = entry.on
                               /\ [entry EXCEPT !.timer = b].timer = b /\ [entry EXCEPT !.timer = b].count = entry.count
BY AttemptsAssumption DEF RecoveryTypeOK, Entries, NoEntry

LEMMA RecoveryKeeps ==
  ASSUME RecoveryTypeOK, OneTry, RecoveryMoves
  PROVE  /\ RecoveryTypeOK' /\ OneTry'
         /\ \A a \in Attempt : attempt[a].at = "recover" => attempt'[a].at = "recover"
<1>. USE DEF OneTry, Trying
<1>0. /\ entry \in Entries /\ cumulative \in 0..MaxAttempts /\ attempt \in [Attempt -> Attempts]
      /\ entry.on => cumulative \leq entry.count /\ entry.count < MaxAttempts
      /\ entry.on \in BOOLEAN /\ entry.timer \in BOOLEAN
  BY DEF RecoveryTypeOK, Entries, Attempts
<1>t. ASSUME entry' \in Entries, cumulative' \in 0..MaxAttempts, attempt' \in [Attempt -> Attempts],
             entry'.on => cumulative' \leq entry'.count /\ entry'.count < MaxAttempts
      PROVE  RecoveryTypeOK'
  BY <1>t DEF RecoveryTypeOK, Entries, Attempts
<1>1. CASE UNCHANGED recoveryVars
  BY <1>1 DEF recoveryVars, RecoveryTypeOK
<1>2. CASE StopRecovery
  BY <1>0, <1>2, <1>t, OutdatedAttempts, EntryUpdates DEF StopRecovery
<1>3. ASSUME NEW download \in BOOLEAN, NEW upload \in BOOLEAN, StartRecovery(download, upload)
      PROVE  /\ RecoveryTypeOK' /\ OneTry' /\ attempt' = attempt
  <2>1. CASE entry' = entry
    BY <1>3, <2>1 DEF StartRecovery, RecoveryTypeOK
  <2>2. CASE ~entry.on /\ cumulative < MaxAttempts
             /\ entry' = [on |-> TRUE, download |-> download, upload |-> upload, count |-> cumulative, timer |-> TRUE]
    <3>1. entry' \in Entries /\ entry'.on /\ entry'.timer /\ entry'.count = cumulative
      BY <1>0, <2>2 DEF Entries
    <3>. QED BY <1>0, <1>3, <1>t, <2>2, <3>1, AttemptsAssumption DEF StartRecovery
  <2>. QED BY <1>0, <1>3, <2>1, <2>2, AttemptsAssumption DEF StartRecovery
<1>4. ASSUME NEW a \in Attempt, AttemptFires(a, stored)
      PROVE  /\ RecoveryTypeOK' /\ OneTry'
             /\ \A b \in Attempt : attempt[b].at = "recover" => attempt'[b].at = "recover"
  <2>1. entry.timer /\ attempt[a].at = "idle" /\ cumulative' = entry.count + 1 /\ \A b \in Attempt : ~Trying(b)
    BY <1>4 DEF AttemptFires
  <2>2. cumulative' \in 0..MaxAttempts
    BY <1>0, <2>1, AttemptsAssumption DEF Entries
  <2>3. CASE entry' = NoEntry /\ attempt' = Outdated
    BY <1>0, <1>t, <2>2, <2>3, OutdatedAttempts, EntryUpdates
  <2>4. ASSUME entry.count + 1 < MaxAttempts, entry' = [entry EXCEPT !.count = @ + 1, !.timer = FALSE],
               NEW first \in {"mkdir", "check"},
               attempt' = [attempt EXCEPT ![a] =
                             [at |-> first, current |-> TRUE, download |-> entry.download, upload |-> entry.upload]]
        PROVE  RecoveryTypeOK' /\ OneTry'
    <3>1. entry' \in Entries /\ entry'.on = entry.on /\ ~entry'.timer /\ entry'.count = entry.count + 1
      <4>1. entry.count \in 0..MaxAttempts /\ entry.count + 1 \in 0..MaxAttempts
        BY <1>0, <2>4, AttemptsAssumption DEF Entries
      <4>2. \A x \in 0..MaxAttempts : [entry EXCEPT !.count = x, !.timer = FALSE] \in Entries
        BY <1>0 DEF Entries
      <4>3. entry' = [entry EXCEPT !.count = entry.count + 1, !.timer = FALSE]
        BY <2>4
      <4>4. entry' \in Entries
        BY <4>1, <4>2, <4>3
      <4>. QED BY <1>0, <4>3, <4>4 DEF Entries
    <3>2. [at |-> first, current |-> TRUE, download |-> entry.download, upload |-> entry.upload] \in Attempts
      BY <1>0 DEF Attempts, Entries
    <3>3. attempt' \in [Attempt -> Attempts] /\ \A b \in Attempt \ {a} : attempt'[b] = attempt[b]
      BY <1>0, <2>4, <3>2
    <3>. QED BY <1>0, <1>t, <2>1, <2>2, <2>4, <3>1, <3>3
  <2>5. CASE entry.count + 1 >= MaxAttempts \/ ~stored
    BY <1>4, <2>1, <2>3, <2>5, OutdatedAttempts DEF AttemptFires
  <2>6. CASE ~(entry.count + 1 >= MaxAttempts \/ ~stored)
    <3>1. entry.count + 1 < MaxAttempts
      BY <1>0, <2>6, AttemptsAssumption DEF Entries
    <3>. QED BY <1>0, <1>4, <2>1, <2>4, <2>6, <3>1 DEF AttemptFires
  <2>. QED BY <2>5, <2>6
<1>5. ASSUME NEW a \in Attempt, DirectoryMade(a)
      PROVE  /\ RecoveryTypeOK' /\ OneTry'
             /\ \A b \in Attempt : attempt[b].at = "recover" => attempt'[b].at = "recover"
  <2>1. /\ attempt[a].at = "mkdir" /\ UNCHANGED <<entry, cumulative>>
        /\ \/ attempt' = [attempt EXCEPT ![a].at = "check"]
           \/ attempt' = [attempt EXCEPT ![a] = NoAttempt]
    BY <1>5 DEF DirectoryMade, AttemptReturns
  <2>2. /\ attempt' \in [Attempt -> Attempts] /\ \A b \in Attempt \ {a} : attempt'[b] = attempt[b]
        /\ Trying(a)' => Trying(a)
    <3>1. attempt[a] \in Attempts
      BY <1>0
    <3>2. /\ [attempt[a] EXCEPT !.at = "check"] \in Attempts /\ NoAttempt \in Attempts /\ ~NoAttempt.current
          /\ [attempt[a] EXCEPT !.at = "check"].current = attempt[a].current
      BY <3>1, AttemptUpdates
    <3>3. /\ \A b \in Attempt \ {a} : attempt'[b] = attempt[b]
          /\ attempt'[a] = NoAttempt \/ attempt'[a] = [attempt[a] EXCEPT !.at = "check"]
          /\ DOMAIN attempt' = Attempt
      BY <1>0, <2>1
    <3>4. Trying(a)' => Trying(a)
      BY <2>1, <3>2, <3>3
    <3>5. attempt' \in [Attempt -> Attempts]
      <4>1. CASE attempt' = [attempt EXCEPT ![a].at = "check"]
        BY <1>0, <3>2, <4>1
      <4>2. CASE attempt' = [attempt EXCEPT ![a] = NoAttempt]
        BY <1>0, <3>2, <4>2
      <4>. QED BY <2>1, <4>1, <4>2
    <3>. QED BY <3>3, <3>4, <3>5
  <2>. QED BY <1>0, <1>t, <2>1, <2>2
<1>6. ASSUME NEW a \in Attempt, AccessDenied(a)
      PROVE  /\ RecoveryTypeOK' /\ OneTry'
             /\ \A b \in Attempt : attempt[b].at = "recover" => attempt'[b].at = "recover"
  <2>0. attempt[a].current \in BOOLEAN
    BY <1>0 DEF Attempts
  <2>1. /\ attempt[a].at = "check" /\ UNCHANGED cumulative
        /\ entry' = [entry EXCEPT !.timer = entry.timer \/ attempt[a].current]
        /\ attempt' = [attempt EXCEPT ![a] = NoAttempt]
    BY <1>6 DEF AccessDenied, AttemptReturns
  <2>2. /\ entry' \in Entries /\ entry'.on = entry.on /\ entry'.count = entry.count
        /\ entry'.timer = (entry.timer \/ attempt[a].current)
    BY <1>0, <2>0, <2>1, EntryUpdates
  <2>3. /\ attempt' \in [Attempt -> Attempts] /\ \A b \in Attempt \ {a} : attempt'[b] = attempt[b]
        /\ attempt'[a].at = "idle"
    BY <1>0, <2>1, AttemptUpdates
  <2>. QED BY <1>0, <1>t, <2>0, <2>1, <2>2, <2>3
<1>. QED BY <1>1, <1>2, <1>3, <1>4, <1>5, <1>6 DEF RecoveryMoves

\* The flags are Boolean, and the rest of the state but the calls, the downloads and the
\* recovery has its type.
FlagTypes ==
  /\ closed \in BOOLEAN /\ enabled \in BOOLEAN /\ persisted \in BOOLEAN /\ uploads \in BOOLEAN
  /\ stored \in BOOLEAN /\ whole \in BOOLEAN /\ busy \in BOOLEAN
  /\ suspended \in [on : BOOLEAN, to : SUBSET Net] /\ joined \subseteq Net
  /\ reset \in {"no", "pausing", "clearing", "waiting", "draining", "cleared", "restoring",
                "restarting", "unsafe", "done"}
  /\ snapshot \in [on : BOOLEAN, use : SUBSET Net, belong : SUBSET Net]
  /\ events \in 0..MaxEvents
Removals(n) == [at : {"no", "destroying", "erasing"}, down : 0..n, keeps : BOOLEAN, guarded : BOOLEAN]
DownTypes ==
  /\ made \in 0..MaxDownloads /\ registry \in 0..made
  /\ downs \in [Download -> D!Downloads] /\ lifecycles \subseteq 1..made
  /\ nets \in [Download -> SUBSET Net] /\ bound \in [Download -> SUBSET Net]
  /\ \A i \in Download : nets[i] \subseteq bound[i]
  /\ cleaning \subseteq 1..made /\ removing \in Removals(made)
CallPlaces == {"idle", "called", "destroying", "enabling", "disk", "access", "starting", "reviving", "yes", "no"}
Calls == [at : CallPlaces, down : Download \cup {None}, use : SUBSET Net, belong : SUBSET Net]
Asking(r) == r.at \in {"access", "starting"}
CallTypes == /\ call \in [Call -> Calls]
             /\ pending = (\E c \in Call : Asking(call[c]))

LEMMA TypeParts == TypeOK <=> RecoveryTypeOK /\ FlagTypes /\ DownTypes /\ CallTypes
BY DEF TypeOK, FlagTypes, DownTypes, Removals, CallTypes, Calls, CallPlaces, Asking

\* What each step does to the recovery.
LEMMA RecoverySteps ==
  ASSUME FlagTypes, [Next]_vars
  PROVE  RecoveryMoves \/ \E a \in Attempt : AttemptEnables(a) \/ AttemptAnswered(a)
<1>. USE DEF lishVars, flagVars, downVars, netVars, resetVars, callVars, taskVars, recoveryVars
<1>1. ASSUME NEW c \in Call, Enter(c) PROVE RecoveryMoves
  BY <1>1 DEF Enter, None, FromStore, Idle, RecoveryMoves, FlagTypes
<1>2. ASSUME NEW u \in User, UserAnswered(u) PROVE RecoveryMoves
  BY <1>2 DEF UserAnswered, Idle, None, RecoveryMoves, FlagTypes
<1>3. CASE RejoinAnswered
  BY <1>3 DEF RejoinAnswered, NotSuspended, Idle, None, RecoveryMoves, FlagTypes
<1>4. CASE RestoreAnswered
  BY <1>4 DEF RestoreAnswered, Idle, None, RecoveryMoves, FlagTypes
<1>5. ASSUME NEW c \in Call, Replaced(c) PROVE RecoveryMoves
  BY <1>5 DEF Replaced, FromStore, Idle, None, RecoveryMoves, FlagTypes
<1>6. ASSUME NEW c \in Call, Resumes(c) PROVE RecoveryMoves
  BY <1>6 DEF Resumes, EnableSucceeds, EnableFails, NotSuspended, RecoveryMoves, FlagTypes
<1>7. ASSUME NEW c \in Call, DiskChecked(c) PROVE RecoveryMoves
  BY <1>7 DEF DiskChecked, RecoveryMoves, FlagTypes
<1>8. ASSUME NEW c \in Call, Accessed(c) PROVE RecoveryMoves
  BY <1>8 DEF Accessed, EnableFails, RecoveryMoves, FlagTypes
<1>9. ASSUME NEW c \in Call, Starts(c) PROVE RecoveryMoves
  BY <1>9 DEF Starts, EnableSucceeds, EnableFails, NotSuspended, RecoveryMoves, FlagTypes
<1>10. ASSUME NEW i \in Download, Works(i) PROVE RecoveryMoves
  BY <1>10 DEF Works, RecoveryMoves, FlagTypes
<1>11. ASSUME NEW i \in Download, Ends(i) PROVE RecoveryMoves
  BY <1>11 DEF Ends, RecoveryMoves, FlagTypes
<1>12. ASSUME NEW i \in Download, Cleaned(i) PROVE RecoveryMoves
  BY <1>12 DEF Cleaned, RecoveryMoves, FlagTypes
<1>13. CASE RecoveryStep
  BY <1>13 DEF RecoveryStep, RecoveryMoves, FlagTypes
<1>14. CASE Removed \/ Erased
  BY <1>14 DEF Removed, Erased, None, NoRemoval, RecoveryMoves, FlagTypes
<1>15. CASE Paused
  BY <1>15 DEF Paused, Inside, None, Call, RecoveryMoves, FlagTypes
<1>16. CASE Torn
  BY <1>16 DEF Torn, None, RecoveryMoves, FlagTypes
<1>17. CASE LifecyclesEnd
  BY <1>17 DEF LifecyclesEnd, NotSuspended, RecoveryMoves, FlagTypes
<1>18. CASE Drained
  BY <1>18 DEF Drained, InFlight, RecoveryMoves, FlagTypes
<1>19. ASSUME NEW wipe \in BOOLEAN, NEW left \in SUBSET joined, Restarted(wipe, left) PROVE RecoveryMoves
  BY <1>19 DEF Restarted, RecoveryMoves, FlagTypes
<1>20. CASE RestoreAll
  BY <1>20 DEF RestoreAll, Idle, Plan, NotSuspended, None, RecoveryMoves, FlagTypes
<1>21. CASE Revived
  BY <1>21 DEF Revived, RecoveryMoves, FlagTypes
<1>22. CASE ResumeAll
  BY <1>22 DEF ResumeAll, NoSnapshot, RecoveryMoves, FlagTypes
<1>23. ASSUME NEW u \in User, UserEnables(u) PROVE RecoveryMoves
  BY <1>23 DEF UserEnables, Event, Idle, None, RecoveryMoves, FlagTypes
<1>24. CASE DisableDownload
  BY <1>24 DEF DisableDownload, Event, NotSuspended, None, RecoveryMoves, FlagTypes
<1>25. CASE Remove \/ DeleteData
  BY <1>25 DEF Remove, DeleteData, Destroying, Event, NotSuspended, None, RecoveryMoves, FlagTypes
<1>26. CASE ToggleBusy
  BY <1>26 DEF ToggleBusy, Event, Call, Idle, None, RecoveryMoves, FlagTypes
<1>27. CASE EnableUpload
  BY <1>27 DEF EnableUpload, UploadMay, Event, RecoveryMoves, FlagTypes
<1>28. CASE DisableUpload
  BY <1>28 DEF DisableUpload, Event, RecoveryMoves, FlagTypes
<1>29. CASE UploadFails
  BY <1>29 DEF UploadFails, Event, RecoveryMoves, FlagTypes
<1>30. ASSUME NEW n \in Net, Leave(n) PROVE RecoveryMoves
  BY <1>30 DEF Leave, Event, None, RecoveryMoves, FlagTypes
<1>31. ASSUME NEW n \in Net, Join(n) PROVE RecoveryMoves
  BY <1>31 DEF Join, Event, None, Idle, RecoveryMoves, FlagTypes
<1>32. CASE PauseAll
  BY <1>32 DEF PauseAll, RecoveryMoves, FlagTypes
<1>33. CASE UNCHANGED vars
  BY <1>33 DEF vars, RecoveryMoves, FlagTypes
<1>. QED BY <1>1, <1>2, <1>3, <1>4, <1>5, <1>6, <1>7, <1>8, <1>9, <1>10, <1>11, <1>12, <1>13, <1>14,
          <1>15, <1>16, <1>17, <1>18, <1>19, <1>20, <1>21, <1>22, <1>23, <1>24, <1>25, <1>26, <1>27,
          <1>28, <1>29, <1>30, <1>31, <1>32, <1>33
       DEF Next, Continue, Returning, Called

-----------------------------------------------------------------------------
(* The calls and the downloads *)

\* Who is at work: an attempt of the recovery calls only while it is recovering, the reset
\* only while it restores, and a call holds a download that was made.
CallsHold ==
  /\ \A c \in Call : call[c].use \subseteq call[c].belong
  /\ \A c \in Call : call[c].at \in {"destroying", "enabling"} => call[c].down \in 1..made
  /\ \A c \in Call : call[c].at = "destroying" => downs[call[c].down].destroyed
  /\ \A a \in Attempt : call[a].at # "idle" => attempt[a].at = "recover"
  /\ call[Restore].at # "idle" => reset = "restoring"

NewDownload == D!Made(FALSE)

\* What becomes of the downloads: one that was not made is as new, one whose end was
\* dealt with has settled, and one a leave cleans up is destroyed.
DownsHold ==
  /\ \A i \in Download : i > made => downs[i] = NewDownload
  /\ \A i \in Download : i \leq made /\ i \notin lifecycles => D!Settled(downs[i])
  /\ \A i \in cleaning : downs[i].destroyed

\* A destroyed download is marked as such, a failed one is paused, and a new one is asked
\* for at once.
LEMMA DownloadMarks ==
  /\ \A e \in D!Downloads : /\ \A f \in D!Destroyed(e) : f.destroyed
                            /\ \A f \in D!Failed(e) : f.disabled
  /\ NewDownload \in D!Downloads /\ ~NewDownload.destroyed /\ NewDownload.promise = "none"
  /\ \A f \in D!Started(NewDownload) : f \in D!Downloads
BY DEF D!Downloads, D!Phase, D!Promise, D!Destroyed, D!Failed, D!Made, D!Started, NewDownload

\* What a step does to the downloads.
Claimed == /\ made < MaxDownloads /\ made' = made + 1 /\ lifecycles' = lifecycles \cup {made + 1}
           /\ \E f \in D!Started(NewDownload) : downs' = [downs EXCEPT ![made + 1] = f]
DownMoves ==
  \/ UNCHANGED <<downs, made, lifecycles>>
  \/ \E i \in 1..made : \E f \in Touched(downs[i]) :
       downs' = [downs EXCEPT ![i] = f] /\ UNCHANGED <<made, lifecycles>>
  \/ Claimed
  \/ \E i \in lifecycles : D!Settled(downs[i]) /\ lifecycles' = lifecycles \ {i} /\ UNCHANGED <<downs, made>>

\* An attempt that is given away recovers from then on, and one that is taken back rests.
LEMMA AttemptsKeep ==
  ASSUME RecoveryTypeOK, OneTry, CallsHold, NEW a \in Attempt, AttemptEnables(a) \/ AttemptAnswered(a)
  PROVE  /\ RecoveryTypeOK' /\ OneTry'
         /\ \A b \in Attempt \ {a} : attempt[b].at = "recover" => attempt'[b].at = "recover"
         /\ AttemptEnables(a) => attempt'[a].at = "recover"
<1>. USE DEF OneTry, Trying
<1>0. /\ entry \in Entries /\ cumulative \in 0..MaxAttempts /\ attempt \in [Attempt -> Attempts]
      /\ entry.on => cumulative \leq entry.count /\ entry.count < MaxAttempts
      /\ attempt[a] \in Attempts /\ entry.on \in BOOLEAN /\ entry.timer \in BOOLEAN
  BY DEF RecoveryTypeOK, Entries, Attempts
<1>t. ASSUME entry' \in Entries, cumulative' \in 0..MaxAttempts, attempt' \in [Attempt -> Attempts],
             entry'.on => cumulative' \leq entry'.count /\ entry'.count < MaxAttempts
      PROVE  RecoveryTypeOK'
  BY <1>t DEF RecoveryTypeOK, Entries, Attempts
<1>1. CASE AttemptEnables(a)
  <2>1. /\ Trying(a) /\ entry' = NoEntry /\ cumulative' = cumulative
        /\ attempt' = [attempt EXCEPT ![a].at = "recover"]
    BY <1>1 DEF AttemptEnables, AccessGranted
  <2>2. [attempt[a] EXCEPT !.at = "recover"] \in Attempts /\ [attempt[a] EXCEPT !.at = "recover"].at = "recover"
    BY <1>0, AttemptUpdates
  <2>3. /\ attempt' \in [Attempt -> Attempts] /\ attempt'[a].at = "recover"
        /\ \A b \in Attempt \ {a} : attempt'[b] = attempt[b]
    BY <1>0, <2>1, <2>2
  <2>4. \A b \in Attempt : ~Trying(b)'
    BY <2>1, <2>3
  <2>. QED BY <1>0, <1>t, <2>1, <2>3, <2>4, EntryUpdates
<1>2. CASE AttemptAnswered(a)
  <2>0. NoAttempt \in Attempts /\ NoAttempt.at = "idle" /\ ~NoAttempt.current
    BY <1>0, AttemptUpdates
  <2>a. ~AttemptEnables(a)
    BY <1>2 DEF AttemptEnables, AttemptAnswered, AccessGranted, CallsHold
  <2>1. CASE entry' = NoEntry /\ attempt' = [Outdated EXCEPT ![a] = NoAttempt] /\ UNCHANGED cumulative
    <3>1. /\ attempt' \in [Attempt -> Attempts] /\ \A b \in Attempt : ~attempt'[b].current
          /\ \A b \in Attempt \ {a} : attempt'[b].at = attempt[b].at
      BY <2>0, <2>1, OutdatedAttempts
    <3>. QED BY <1>0, <1>t, <2>a, <2>1, <3>1, EntryUpdates
  <2>2. ASSUME NEW success, Attempted(a, success)
        PROVE  /\ RecoveryTypeOK' /\ OneTry'
               /\ \A b \in Attempt \ {a} : attempt[b].at = "recover" => attempt'[b].at = "recover"
    <3>1. /\ attempt' = [attempt EXCEPT ![a] = NoAttempt] /\ UNCHANGED entry
          /\ cumulative' = 0 \/ cumulative' = cumulative
      BY <2>2 DEF Attempted, AttemptReturns
    <3>2. /\ attempt' \in [Attempt -> Attempts] /\ attempt'[a] = NoAttempt
          /\ \A b \in Attempt \ {a} : attempt'[b] = attempt[b]
      BY <1>0, <2>0, <3>1
    <3>3. cumulative' \in 0..MaxAttempts /\ (entry.on => cumulative' \leq entry.count)
      BY <1>0, <3>1, AttemptsAssumption DEF Entries
    <3>4. OneTry'
      BY <2>0, <3>1, <3>2
    <3>. QED BY <1>0, <1>t, <3>1, <3>2, <3>3, <3>4
  <2>. QED BY <1>2, <2>a, <2>1, <2>2 DEF AttemptAnswered
<1>. QED BY <1>1, <1>2

LEMMA RecoverySound ==
  ASSUME RecoveryTypeOK, OneTry, CallsHold, FlagTypes, [Next]_vars
  PROVE  RecoveryTypeOK' /\ OneTry'
BY RecoverySteps, RecoveryKeeps, AttemptsKeep

\* The downloads keep their types, and what holds of them.
LEMMA DownKeeps ==
  ASSUME DownTypes, DownsHold, DownMoves
  PROVE  /\ made' \in 0..MaxDownloads /\ made \leq made'
         /\ downs' \in [Download -> D!Downloads] /\ lifecycles' \subseteq 1..made'
         /\ \A i \in Download : i > made' => downs'[i] = NewDownload
         /\ \A i \in Download : i \leq made' /\ i \notin lifecycles' => D!Settled(downs'[i])
         /\ \A i \in Download : downs[i].destroyed => downs'[i].destroyed
         /\ \A i \in 1..made : D!Settled(downs[i]) => D!Settled(downs'[i])
<1>0. /\ made \in 0..MaxDownloads /\ downs \in [Download -> D!Downloads] /\ lifecycles \subseteq 1..made
      /\ MaxDownloads \in Nat /\ 1..made \subseteq Download /\ Download \subseteq Nat
  BY BoundAssumption DEF DownTypes, Download
<1>1. CASE UNCHANGED <<downs, made, lifecycles>>
  BY <1>0, <1>1 DEF DownsHold
<1>2. ASSUME NEW i \in 1..made, NEW f \in Touched(downs[i]),
             downs' = [downs EXCEPT ![i] = f], UNCHANGED <<made, lifecycles>>
      PROVE  /\ downs' \in [Download -> D!Downloads]
             /\ \A j \in Download : j > made => downs'[j] = NewDownload
             /\ \A j \in Download : j \leq made /\ j \notin lifecycles => D!Settled(downs'[j])
             /\ \A j \in Download : downs[j].destroyed => downs'[j].destroyed
             /\ \A j \in 1..made : D!Settled(downs[j]) => D!Settled(downs'[j])
  <2>1. downs[i] \in D!Downloads
    BY <1>0
  <2>2. /\ f \in D!Downloads
        /\ downs[i].destroyed => f.destroyed
        /\ D!Settled(downs[i]) => D!Settled(f)
    BY <2>1, DownloadSteps
  <2>3. downs'[i] = f /\ \A j \in Download \ {i} : downs'[j] = downs[j]
    BY <1>0, <1>2
  <2>4. downs' \in [Download -> D!Downloads]
    BY <1>0, <1>2, <2>2
  <2>. QED BY <1>0, <2>2, <2>3, <2>4 DEF DownsHold
<1>3. CASE Claimed
  <2>1. PICK f \in D!Started(NewDownload) : downs' = [downs EXCEPT ![made + 1] = f]
    BY <1>3 DEF Claimed
  <2>2. f \in D!Downloads
    BY DownloadMarks
  <2>3. /\ made + 1 \in Download /\ downs'[made + 1] = f
        /\ \A j \in Download \ {made + 1} : downs'[j] = downs[j]
    BY <1>0, <1>3, <2>1 DEF Claimed, Download
  <2>4. ~downs[made + 1].destroyed
    BY <1>0, <1>3, DownloadMarks DEF Claimed, DownsHold, Download
  <2>5. made' = made + 1 /\ lifecycles' = lifecycles \cup {made + 1} /\ made < MaxDownloads
    BY <1>3 DEF Claimed
  <2>. QED BY <1>0, <2>1, <2>2, <2>3, <2>4, <2>5 DEF DownsHold
<1>4. CASE \E i \in lifecycles : D!Settled(downs[i]) /\ lifecycles' = lifecycles \ {i} /\ UNCHANGED <<downs, made>>
  BY <1>0, <1>4 DEF DownsHold
<1>5. CASE \E i \in 1..made : \E f \in Touched(downs[i]) :
             downs' = [downs EXCEPT ![i] = f] /\ UNCHANGED <<made, lifecycles>>
  <2>1. PICK i \in 1..made : \E f \in Touched(downs[i]) :
             downs' = [downs EXCEPT ![i] = f] /\ UNCHANGED <<made, lifecycles>>
    BY <1>5
  <2>2. PICK f \in Touched(downs[i]) : downs' = [downs EXCEPT ![i] = f] /\ UNCHANGED <<made, lifecycles>>
    BY <2>1
  <2>3. /\ downs' \in [Download -> D!Downloads]
        /\ \A j \in Download : j > made => downs'[j] = NewDownload
        /\ \A j \in Download : j \leq made /\ j \notin lifecycles => D!Settled(downs'[j])
        /\ \A j \in Download : downs[j].destroyed => downs'[j].destroyed
        /\ \A j \in 1..made : D!Settled(downs[j]) => D!Settled(downs'[j])
    BY <1>2, <2>2
  <2>4. made' = made /\ lifecycles' = lifecycles
    BY <2>2
  <2>. QED BY <1>0, <2>3, <2>4
<1>. QED BY <1>1, <1>3, <1>4, <1>5 DEF DownMoves

\* A call that claims the registry makes a download, unless there is one.
LEMMA ClaimMoves ==
  ASSUME NEW use, NEW belong, Claim(use, belong)
  PROVE  \/ registry # None /\ UNCHANGED <<registry, downs, made, lifecycles, nets, bound>>
         \/ /\ registry = None /\ Claimed /\ registry' = made + 1
            /\ nets' = [nets EXCEPT ![made + 1] = use] /\ bound' = [bound EXCEPT ![made + 1] = belong]
BY DEF Claim, Claimed, Becomes, NewDownload, D!Made, downVars

\* A step of one download that was made.
LEMMA TouchMoves ==
  ASSUME NEW i \in 1..made, UNCHANGED <<made, lifecycles>>,
         \/ Becomes(i, Own(downs[i])) \/ Becomes(i, D!Resumed(downs[i])) \/ Becomes(i, D!Destroyed(downs[i]))
         \/ Becomes(i, D!Failed(downs[i])) \/ downs' = [downs EXCEPT ![i].disabled = TRUE]
  PROVE  DownMoves
<1>1. \A f \in Own(downs[i]) \cup D!Resumed(downs[i]) \cup D!Destroyed(downs[i]) \cup D!Failed(downs[i]) : f \in Touched(downs[i])
  BY DEF Touched, Own
<1>2. CASE downs' = [downs EXCEPT ![i].disabled = TRUE]
  <2>1. downs' = [downs EXCEPT ![i] = [downs[i] EXCEPT !.disabled = TRUE]]
    BY <1>2
  <2>2. [downs[i] EXCEPT !.disabled = TRUE] \in Touched(downs[i])
    BY DEF Touched
  <2>. QED BY <2>1, <2>2 DEF DownMoves
<1>3. CASE \E f \in Touched(downs[i]) : downs' = [downs EXCEPT ![i] = f]
  BY <1>3 DEF DownMoves
<1>. QED BY <1>1, <1>2, <1>3 DEF Becomes

\* What each step does to the downloads.
LEMMA DownSteps ==
  ASSUME DownTypes, CallTypes, CallsHold, [Next]_vars
  PROVE  DownMoves
<1>. USE DEF lishVars, flagVars, downVars, netVars, resetVars, callVars, taskVars, recoveryVars
<1>0. lifecycles \subseteq 1..made /\ made \in Nat /\ registry \in 0..made /\ (registry # None => registry \in 1..made)
  BY DEF DownTypes, None
<1>1. ASSUME NEW c \in Call, Enter(c) PROVE DownMoves
  <2>1. \/ UNCHANGED <<downs, made, lifecycles>>
        \/ registry \in 1..made /\ UNCHANGED <<made, lifecycles>>
           /\ (Becomes(registry, D!Destroyed(downs[registry])))
    BY <1>1, <1>0 DEF Enter
  <2>. QED BY <2>1, TouchMoves DEF DownMoves
<1>2. ASSUME NEW u \in User, UserAnswered(u) PROVE DownMoves
  BY <1>2 DEF UserAnswered, Idle, None, DownMoves
<1>3. ASSUME NEW a \in Attempt, AttemptAnswered(a) PROVE DownMoves
  BY <1>3 DEF AttemptAnswered, Idle, UploadMay, NoEntry, Outdated, NoAttempt, None, DownMoves
<1>4. CASE RejoinAnswered
  BY <1>4 DEF RejoinAnswered, NotSuspended, Idle, None, DownMoves
<1>5. CASE RestoreAnswered
  BY <1>5 DEF RestoreAnswered, Idle, None, DownMoves
<1>6. ASSUME NEW c \in Call, Replaced(c) PROVE DownMoves
  BY <1>6 DEF Replaced, DownMoves
<1>7. ASSUME NEW c \in Call, Resumes(c) PROVE DownMoves
  <2>1. \/ UNCHANGED <<downs, made, lifecycles>>
        \/ call[c].down \in 1..made /\ UNCHANGED <<made, lifecycles>>
           /\ (Becomes(call[c].down, D!Resumed(downs[call[c].down])) \/ Becomes(call[c].down, D!Failed(downs[call[c].down])))
    BY <1>7, <1>0 DEF Resumes, CallsHold
  <2>. QED BY <2>1, TouchMoves DEF DownMoves
<1>8. ASSUME NEW c \in Call, DiskChecked(c) PROVE DownMoves
  BY <1>8 DEF DiskChecked, DownMoves
<1>9. ASSUME NEW c \in Call, Accessed(c) PROVE DownMoves
  BY <1>9 DEF Accessed, EnableFails, DownMoves
<1>10. ASSUME NEW c \in Call, Starts(c) PROVE DownMoves
  <2>1. UNCHANGED <<downs, made, lifecycles>> \/ \E use, belong : Claim(use, belong)
    BY <1>10 DEF Starts
  <2>. QED BY <2>1, ClaimMoves DEF DownMoves
<1>11. ASSUME NEW i \in Download, Works(i) PROVE DownMoves
  <2>1. \/ UNCHANGED <<downs, made, lifecycles>>
        \/ i \in 1..made /\ UNCHANGED <<made, lifecycles>>
           /\ (Becomes(i, Own(downs[i])))
    BY <1>11, <1>0 DEF Works
  <2>. QED BY <2>1, TouchMoves DEF DownMoves
<1>12. ASSUME NEW i \in Download, Ends(i) PROVE DownMoves
  BY <1>12 DEF Ends, DownMoves
<1>13. ASSUME NEW i \in Download, Cleaned(i) PROVE DownMoves
  BY <1>13 DEF Cleaned, DownMoves
<1>14. CASE RecoveryStep
  BY <1>14 DEF RecoveryStep, DownMoves
<1>15. CASE Removed \/ Erased
  BY <1>15 DEF Removed, Erased, None, NoRemoval, DownMoves
<1>16. CASE Paused
  <2>1. \/ UNCHANGED <<downs, made, lifecycles>>
        \/ registry \in 1..made /\ UNCHANGED <<made, lifecycles>>
           /\ (Becomes(registry, D!Destroyed(downs[registry])))
    BY <1>16, <1>0 DEF Paused
  <2>. QED BY <2>1, TouchMoves DEF DownMoves
<1>17. CASE Torn
  BY <1>17 DEF Torn, None, DownMoves
<1>18. CASE LifecyclesEnd
  BY <1>18 DEF LifecyclesEnd, NotSuspended, DownMoves
<1>19. CASE Drained
  BY <1>19 DEF Drained, InFlight, DownMoves
<1>20. ASSUME NEW a \in Attempt, AttemptEnables(a) PROVE DownMoves
  BY <1>20 DEF AttemptEnables, Idle, None, DownMoves
<1>21. ASSUME NEW wipe \in BOOLEAN, NEW left \in SUBSET joined, Restarted(wipe, left) PROVE DownMoves
  BY <1>21 DEF Restarted, DownMoves
<1>22. CASE RestoreAll
  BY <1>22 DEF RestoreAll, Idle, Plan, NotSuspended, None, DownMoves
<1>23. CASE Revived
  <2>1. UNCHANGED <<downs, made, lifecycles>> \/ \E use, belong : Claim(use, belong)
    BY <1>23 DEF Revived
  <2>. QED BY <2>1, ClaimMoves DEF DownMoves
<1>24. CASE ResumeAll
  BY <1>24 DEF ResumeAll, NoSnapshot, DownMoves
<1>25. ASSUME NEW u \in User, UserEnables(u) PROVE DownMoves
  BY <1>25 DEF UserEnables, Event, Idle, None, DownMoves
<1>26. CASE DisableDownload
  <2>1. \/ UNCHANGED <<downs, made, lifecycles>>
        \/ registry \in 1..made /\ UNCHANGED <<made, lifecycles>>
           /\ (downs' = [downs EXCEPT ![registry].disabled = TRUE])
    BY <1>26, <1>0 DEF DisableDownload
  <2>. QED BY <2>1, TouchMoves DEF DownMoves
<1>27. CASE Remove \/ DeleteData
  <2>1. \/ UNCHANGED <<downs, made, lifecycles>>
        \/ registry \in 1..made /\ UNCHANGED <<made, lifecycles>>
           /\ (Becomes(registry, D!Destroyed(downs[registry])))
    BY <1>27, <1>0 DEF Remove, DeleteData, Destroying
  <2>. QED BY <2>1, TouchMoves DEF DownMoves
<1>28. CASE ToggleBusy
  BY <1>28 DEF ToggleBusy, Event, Call, Idle, None, DownMoves
<1>29. CASE EnableUpload
  BY <1>29 DEF EnableUpload, UploadMay, Event, DownMoves
<1>30. CASE DisableUpload
  BY <1>30 DEF DisableUpload, Event, DownMoves
<1>31. CASE UploadFails
  BY <1>31 DEF UploadFails, Event, DownMoves
<1>32. ASSUME NEW n \in Net, Leave(n) PROVE DownMoves
  <2>1. \/ UNCHANGED <<downs, made, lifecycles>>
        \/ registry \in 1..made /\ UNCHANGED <<made, lifecycles>>
           /\ (Becomes(registry, D!Destroyed(downs[registry])) \/ downs' = [downs EXCEPT ![registry].disabled = TRUE])
    BY <1>32, <1>0 DEF Leave
  <2>. QED BY <2>1, TouchMoves DEF DownMoves
<1>33. ASSUME NEW n \in Net, Join(n) PROVE DownMoves
  BY <1>33 DEF Join, Event, None, Idle, DownMoves
<1>34. CASE PauseAll
  BY <1>34 DEF PauseAll, DownMoves
<1>35. CASE UNCHANGED vars
  BY <1>35 DEF vars, DownMoves
<1>. QED BY <1>1, <1>2, <1>3, <1>4, <1>5, <1>6, <1>7, <1>8, <1>9, <1>10, <1>11, <1>12, <1>13, <1>14,
          <1>15, <1>16, <1>17, <1>18, <1>19, <1>20, <1>21, <1>22, <1>23, <1>24, <1>25, <1>26, <1>27,
          <1>28, <1>29, <1>30, <1>31, <1>32, <1>33, <1>34, <1>35
       DEF Next, Continue, Returning, Called

\* The registry, the lishnets of the downloads, and what is cleaned up or removed.
OtherDownTypes ==
  /\ registry' \in 0..made'
  /\ nets' \in [Download -> SUBSET Net] /\ bound' \in [Download -> SUBSET Net]
  /\ \A i \in Download : nets'[i] \subseteq bound'[i]
  /\ cleaning' \subseteq 1..made' /\ removing' \in Removals(made')

\* What a call is to use belongs to it, and both are lishnets.
LEMMA ClaimTypes ==
  ASSUME DownTypes, NEW use, NEW belong, belong \subseteq Net, use \subseteq belong, Claim(use, belong)
  PROVE  /\ registry' \in 0..made' /\ made \leq made'
         /\ nets' \in [Download -> SUBSET Net] /\ bound' \in [Download -> SUBSET Net]
         /\ \A i \in Download : nets'[i] \subseteq bound'[i]
<1>0. /\ registry \in 0..made /\ made \in Nat
      /\ nets \in [Download -> SUBSET Net] /\ bound \in [Download -> SUBSET Net]
      /\ \A i \in Download : nets[i] \subseteq bound[i]
  BY BoundAssumption DEF DownTypes
<1>1. CASE UNCHANGED <<registry, made, nets, bound>>
  BY <1>0, <1>1
<1>2. CASE /\ made' = made + 1 /\ registry' = made + 1
           /\ nets' = [nets EXCEPT ![made + 1] = use] /\ bound' = [bound EXCEPT ![made + 1] = belong]
  <2>1. ASSUME NEW i \in Download
        PROVE  /\ nets'[i] = IF i = made + 1 THEN use ELSE nets[i]
               /\ bound'[i] = IF i = made + 1 THEN belong ELSE bound[i]
    BY <1>0, <1>2
  <2>2. use \subseteq Net
    OBVIOUS
  <2>3. nets' \in [Download -> SUBSET Net]
    BY <1>0, <1>2, <2>2
  <2>4. bound' \in [Download -> SUBSET Net]
    BY <1>0, <1>2
  <2>. QED BY <1>0, <1>2, <2>1, <2>3, <2>4
<1>. QED BY <1>1, <1>2 DEF Claim, downVars

\* What a deletion remembers.
LEMMA RemovalTypes ==
  ASSUME NEW n \in Nat
  PROVE  /\ NoRemoval \in Removals(n)
         /\ \A m \in Nat : n \leq m => Removals(n) \subseteq Removals(m)
         /\ \A r \in Removals(n) : /\ [r EXCEPT !.guarded = FALSE] \in Removals(n)
                                 /\ [r EXCEPT !.guarded = FALSE].at = r.at
                                 /\ ~[r EXCEPT !.guarded = FALSE].guarded
         /\ \A b \in BOOLEAN : [at |-> "erasing", down |-> None, keeps |-> b, guarded |-> FALSE] \in Removals(n)
<1>1. NoRemoval \in Removals(n)
  BY DEF Removals, NoRemoval, None
<1>2. ASSUME NEW m \in Nat, n \leq m PROVE Removals(n) \subseteq Removals(m)
  BY <1>2 DEF Removals
<1>3. ASSUME NEW r \in Removals(n)
      PROVE  /\ [r EXCEPT !.guarded = FALSE] \in Removals(n)
             /\ [r EXCEPT !.guarded = FALSE].at = r.at
             /\ ~[r EXCEPT !.guarded = FALSE].guarded
  BY DEF Removals
<1>4. ASSUME NEW b \in BOOLEAN PROVE [at |-> "erasing", down |-> None, keeps |-> b, guarded |-> FALSE] \in Removals(n)
  BY DEF Removals, None
<1>. QED BY <1>1, <1>2, <1>3, <1>4

\* What each step does to them.
LEMMA DownRest ==
  ASSUME DownTypes, CallTypes, CallsHold, [Next]_vars
  PROVE  OtherDownTypes
<1>. USE DEF lishVars, flagVars, downVars, netVars, resetVars, callVars, taskVars, recoveryVars
<1>0. /\ made \in Nat /\ registry \in 0..made /\ cleaning \subseteq 1..made
      /\ removing \in Removals(made) /\ \A m \in Nat : made \leq m => removing \in Removals(m)
      /\ nets \in [Download -> SUBSET Net] /\ bound \in [Download -> SUBSET Net]
      /\ \A i \in Download : nets[i] \subseteq bound[i]
      /\ \A c \in Call : call[c].at = "destroying" => call[c].down \in 1..made
  <2>1. made \in Nat /\ removing \in Removals(made)
    BY BoundAssumption DEF DownTypes
  <2>2. \A m \in Nat : made \leq m => removing \in Removals(m)
    BY <2>1, RemovalTypes
  <2>. QED BY <2>1, <2>2 DEF DownTypes, CallsHold
<1>1. ASSUME NEW c \in Call, Enter(c) PROVE OtherDownTypes
  BY <1>1, <1>0 DEF Enter, None, Idle, OtherDownTypes
<1>2. ASSUME NEW u \in User, UserAnswered(u) PROVE OtherDownTypes
  BY <1>2, <1>0 DEF UserAnswered, Idle, None, OtherDownTypes
<1>3. ASSUME NEW a \in Attempt, AttemptAnswered(a) PROVE OtherDownTypes
  BY <1>3, <1>0 DEF AttemptAnswered, Idle, UploadMay, NoEntry, Outdated, NoAttempt, None,
     OtherDownTypes
<1>4. CASE RejoinAnswered
  BY <1>4, <1>0 DEF RejoinAnswered, NotSuspended, Idle, None, OtherDownTypes
<1>5. CASE RestoreAnswered
  BY <1>5, <1>0 DEF RestoreAnswered, Idle, None, OtherDownTypes
<1>6. ASSUME NEW c \in Call, Replaced(c) PROVE OtherDownTypes
  BY <1>6, <1>0 DEF Replaced, Unregister, None, OtherDownTypes
<1>7. ASSUME NEW c \in Call, Resumes(c) PROVE OtherDownTypes
  <2>1. /\ UNCHANGED <<made, nets, bound, cleaning, removing>>
        /\ registry' = registry \/ registry' = None
    BY <1>7 DEF Resumes, Unregister
  <2>. QED BY <1>0, <2>1 DEF OtherDownTypes, None
<1>8. ASSUME NEW c \in Call, DiskChecked(c) PROVE OtherDownTypes
  BY <1>8, <1>0 DEF DiskChecked, OtherDownTypes
<1>9. ASSUME NEW c \in Call, Accessed(c) PROVE OtherDownTypes
  BY <1>9, <1>0 DEF Accessed, EnableFails, OtherDownTypes
<1>10. ASSUME NEW c \in Call, Starts(c) PROVE OtherDownTypes
  <2>1. \/ Claim(call[c].use, call[c].belong)
        \/ UNCHANGED <<registry, downs, made, nets, bound, lifecycles>>
    BY <1>10 DEF Starts
  <2>2. UNCHANGED <<cleaning, removing>>
    BY <1>10 DEF Starts
  <2>3. call[c].belong \subseteq Net /\ call[c].use \subseteq call[c].belong
    BY DEF CallTypes, Calls, CallsHold
  <2>4. /\ registry' \in 0..made' /\ made \leq made' /\ made' \in Nat
        /\ nets' \in [Download -> SUBSET Net] /\ bound' \in [Download -> SUBSET Net]
        /\ \A i \in Download : nets'[i] \subseteq bound'[i]
    <3>1. CASE Claim(call[c].use, call[c].belong)
      <4>1. made' \in Nat
        BY <1>0, <3>1, ClaimMoves DEF Claimed
      <4>2. /\ registry' \in 0..made' /\ made \leq made'
            /\ nets' \in [Download -> SUBSET Net] /\ bound' \in [Download -> SUBSET Net]
            /\ \A i \in Download : nets'[i] \subseteq bound'[i]
        BY <2>3, <3>1, ClaimTypes
      <4>. QED BY <4>1, <4>2
    <3>. QED BY <1>0, <2>1, <3>1
  <2>. QED BY <1>0, <2>2, <2>4 DEF OtherDownTypes
<1>11. ASSUME NEW i \in Download, Works(i) PROVE OtherDownTypes
  BY <1>11, <1>0 DEF Works, OtherDownTypes
<1>12. ASSUME NEW i \in Download, Ends(i) PROVE OtherDownTypes
  BY <1>12, <1>0 DEF Ends, Unregister, None, OtherDownTypes
<1>13. ASSUME NEW i \in Download, Cleaned(i) PROVE OtherDownTypes
  <2>1. /\ UNCHANGED <<made, nets, bound, removing>> /\ cleaning' \subseteq cleaning
        /\ registry' = registry \/ registry' = 0
    BY <1>13 DEF Cleaned, Unregister, None
  <2>. QED BY <1>0, <2>1 DEF OtherDownTypes
<1>14. CASE RecoveryStep
  BY <1>14, <1>0 DEF RecoveryStep, OtherDownTypes
<1>15. CASE Removed \/ Erased
  <2>1. removing' \in Removals(made)
    <3>1. removing.keeps \in BOOLEAN
      BY <1>0 DEF Removals
    <3>2. /\ NoRemoval \in Removals(made)
          /\ [at |-> "erasing", down |-> None, keeps |-> removing.keeps, guarded |-> FALSE] \in Removals(made)
      BY <1>0, <3>1, RemovalTypes
    <3>. QED BY <1>15, <3>2 DEF Removed, Erased
  <2>. QED BY <1>15, <1>0, <2>1 DEF Removed, Erased, None, OtherDownTypes
<1>16. CASE Paused
  BY <1>16, <1>0 DEF Paused, None, OtherDownTypes
<1>17. CASE Torn
  BY <1>17, <1>0 DEF Torn, None, OtherDownTypes
<1>18. CASE LifecyclesEnd
  BY <1>18, <1>0 DEF LifecyclesEnd, NotSuspended, OtherDownTypes
<1>19. CASE Drained
  BY <1>19, <1>0 DEF Drained, OtherDownTypes
<1>20. ASSUME NEW a \in Attempt, AttemptEnables(a) PROVE OtherDownTypes
  BY <1>20, <1>0 DEF AttemptEnables, Idle, None, OtherDownTypes
<1>21. ASSUME NEW wipe \in BOOLEAN, NEW left \in SUBSET joined, Restarted(wipe, left) PROVE OtherDownTypes
  BY <1>21, <1>0 DEF Restarted, OtherDownTypes
<1>22. CASE RestoreAll
  BY <1>22, <1>0 DEF RestoreAll, Idle, NotSuspended, None, OtherDownTypes
<1>23. CASE Revived
  <2>1. \/ Claim(call[Restore].use, call[Restore].belong)
        \/ UNCHANGED <<registry, downs, made, nets, bound, lifecycles>>
    BY <1>23 DEF Revived
  <2>2. UNCHANGED <<cleaning, removing>>
    BY <1>23 DEF Revived
  <2>3. call[Restore].belong \subseteq Net /\ call[Restore].use \subseteq call[Restore].belong
    BY DEF Call, CallTypes, Calls, CallsHold
  <2>4. /\ registry' \in 0..made' /\ made \leq made' /\ made' \in Nat
        /\ nets' \in [Download -> SUBSET Net] /\ bound' \in [Download -> SUBSET Net]
        /\ \A i \in Download : nets'[i] \subseteq bound'[i]
    <3>1. CASE Claim(call[Restore].use, call[Restore].belong)
      <4>1. made' \in Nat
        BY <1>0, <3>1, ClaimMoves DEF Claimed
      <4>2. /\ registry' \in 0..made' /\ made \leq made'
            /\ nets' \in [Download -> SUBSET Net] /\ bound' \in [Download -> SUBSET Net]
            /\ \A i \in Download : nets'[i] \subseteq bound'[i]
        BY <2>3, <3>1, ClaimTypes
      <4>. QED BY <4>1, <4>2
    <3>. QED BY <1>0, <2>1, <3>1
  <2>. QED BY <1>0, <2>2, <2>4 DEF OtherDownTypes
<1>24. CASE ResumeAll
  BY <1>24, <1>0 DEF ResumeAll, NoSnapshot, OtherDownTypes
<1>25. ASSUME NEW u \in User, UserEnables(u) PROVE OtherDownTypes
  BY <1>25, <1>0 DEF UserEnables, Event, Idle, None, OtherDownTypes
<1>26. CASE DisableDownload
  BY <1>26, <1>0 DEF DisableDownload, Event, NotSuspended, None, OtherDownTypes
<1>27. CASE Remove \/ DeleteData
  <2>1. removing' \in Removals(made)
    <3>1. PICK keeps \in BOOLEAN : Destroying(keeps)
      BY <1>27 DEF Remove, DeleteData
    <3>2. (keeps /\ \A c \in Call : ~PastCheck(c)) \in BOOLEAN
      BY <3>1
    <3>. QED BY <1>0, <3>1, <3>2 DEF Destroying, Removals
  <2>. QED BY <1>27, <1>0, <2>1 DEF Remove, DeleteData, Destroying, None, OtherDownTypes
<1>28. CASE ToggleBusy
  <2>1. removing' \in Removals(made)
    BY <1>28, <1>0, RemovalTypes DEF ToggleBusy
  <2>. QED BY <1>28, <1>0, <2>1 DEF ToggleBusy, None, OtherDownTypes
<1>29. CASE EnableUpload
  BY <1>29, <1>0 DEF EnableUpload, UploadMay, Event, OtherDownTypes
<1>30. CASE DisableUpload
  BY <1>30, <1>0 DEF DisableUpload, Event, OtherDownTypes
<1>31. CASE UploadFails
  BY <1>31, <1>0 DEF UploadFails, Event, OtherDownTypes
<1>32. ASSUME NEW n \in Net, Leave(n) PROVE OtherDownTypes
  BY <1>32, <1>0 DEF Leave, Event, None, OtherDownTypes
<1>33. ASSUME NEW n \in Net, Join(n) PROVE OtherDownTypes
  BY <1>33, <1>0 DEF Join, Event, None, Idle, OtherDownTypes
<1>34. CASE PauseAll
  BY <1>34, <1>0 DEF PauseAll, OtherDownTypes
<1>35. CASE UNCHANGED vars
  BY <1>35, <1>0 DEF vars, OtherDownTypes
<1>. QED BY <1>1, <1>2, <1>3, <1>4, <1>5, <1>6, <1>7, <1>8, <1>9, <1>10, <1>11, <1>12, <1>13, <1>14,
          <1>15, <1>16, <1>17, <1>18, <1>19, <1>20, <1>21, <1>22, <1>23, <1>24, <1>25, <1>26, <1>27,
          <1>28, <1>29, <1>30, <1>31, <1>32, <1>33, <1>34, <1>35
       DEF Next, Continue, Returning, Called

\* Who is to be cleaned up is destroyed.
CleaningMoves ==
  \/ cleaning' \subseteq cleaning
  \/ \E i \in 1..made : cleaning' = cleaning \cup {i} /\ Becomes(i, D!Destroyed(downs[i]))
\* What each step does to the cleanups.
LEMMA CleaningSteps ==
  ASSUME DownTypes, [Next]_vars
  PROVE  CleaningMoves
<1>. USE DEF lishVars, flagVars, downVars, netVars, resetVars, callVars, taskVars, recoveryVars
<1>0. registry \in 0..made /\ made \in Nat /\ (registry # None => registry \in 1..made)
  BY BoundAssumption DEF DownTypes, None
<1>1. ASSUME NEW c \in Call, Enter(c) PROVE CleaningMoves
  BY <1>1 DEF Enter, None, Idle, CleaningMoves
<1>2. ASSUME NEW u \in User, UserAnswered(u) PROVE CleaningMoves
  BY <1>2 DEF UserAnswered, Idle, None, CleaningMoves
<1>3. ASSUME NEW a \in Attempt, AttemptAnswered(a) PROVE CleaningMoves
  BY <1>3 DEF AttemptAnswered, Idle, NoEntry, Outdated, NoAttempt, None, CleaningMoves
<1>4. CASE RejoinAnswered
  BY <1>4 DEF RejoinAnswered, Idle, None, CleaningMoves
<1>5. CASE RestoreAnswered
  BY <1>5 DEF RestoreAnswered, Idle, None, CleaningMoves
<1>6. ASSUME NEW c \in Call, Replaced(c) PROVE CleaningMoves
  BY <1>6 DEF Replaced, CleaningMoves
<1>7. ASSUME NEW c \in Call, Resumes(c) PROVE CleaningMoves
  BY <1>7 DEF Resumes, EnableSucceeds, EnableFails, CleaningMoves
<1>8. ASSUME NEW c \in Call, DiskChecked(c) PROVE CleaningMoves
  BY <1>8 DEF DiskChecked, CleaningMoves
<1>9. ASSUME NEW c \in Call, Accessed(c) PROVE CleaningMoves
  BY <1>9 DEF Accessed, EnableFails, CleaningMoves
<1>10. ASSUME NEW c \in Call, Starts(c) PROVE CleaningMoves
  BY <1>10 DEF Starts, EnableSucceeds, EnableFails, CleaningMoves
<1>11. ASSUME NEW i \in Download, Works(i) PROVE CleaningMoves
  BY <1>11 DEF Works, CleaningMoves
<1>12. ASSUME NEW i \in Download, Ends(i) PROVE CleaningMoves
  BY <1>12 DEF Ends, CleaningMoves
<1>13. ASSUME NEW i \in Download, Cleaned(i) PROVE CleaningMoves
  BY <1>13 DEF Cleaned, CleaningMoves
<1>14. CASE RecoveryStep
  BY <1>14 DEF RecoveryStep, CleaningMoves
<1>15. CASE Removed \/ Erased
  BY <1>15 DEF Removed, Erased, None, NoRemoval, CleaningMoves
<1>16. CASE Paused
  BY <1>16 DEF Paused, None, CleaningMoves
<1>17. CASE Torn
  BY <1>17 DEF Torn, None, CleaningMoves
<1>18. CASE LifecyclesEnd
  BY <1>18 DEF LifecyclesEnd, CleaningMoves
<1>19. CASE Drained
  BY <1>19 DEF Drained, CleaningMoves
<1>20. ASSUME NEW a \in Attempt, AttemptEnables(a) PROVE CleaningMoves
  BY <1>20 DEF AttemptEnables, Idle, None, CleaningMoves
<1>21. ASSUME NEW wipe \in BOOLEAN, NEW left \in SUBSET joined, Restarted(wipe, left) PROVE CleaningMoves
  BY <1>21 DEF Restarted, CleaningMoves
<1>22. CASE RestoreAll
  BY <1>22 DEF RestoreAll, Idle, None, CleaningMoves
<1>23. CASE Revived
  BY <1>23 DEF Revived, CleaningMoves
<1>24. CASE ResumeAll
  BY <1>24 DEF ResumeAll, NoSnapshot, CleaningMoves
<1>25. ASSUME NEW u \in User, UserEnables(u) PROVE CleaningMoves
  BY <1>25 DEF UserEnables, Event, Idle, None, CleaningMoves
<1>26. CASE DisableDownload
  BY <1>26 DEF DisableDownload, Event, None, CleaningMoves
<1>27. CASE Remove \/ DeleteData
  BY <1>27 DEF Remove, DeleteData, Destroying, Event, None, CleaningMoves
<1>28. CASE ToggleBusy
  BY <1>28 DEF ToggleBusy, Event, Call, Idle, None, CleaningMoves
<1>29. CASE EnableUpload
  BY <1>29 DEF EnableUpload, Event, CleaningMoves
<1>30. CASE DisableUpload
  BY <1>30 DEF DisableUpload, Event, CleaningMoves
<1>31. CASE UploadFails
  BY <1>31 DEF UploadFails, Event, CleaningMoves
<1>32. ASSUME NEW n \in Net, Leave(n) PROVE CleaningMoves
  BY <1>0, <1>32 DEF Leave, CleaningMoves
<1>33. ASSUME NEW n \in Net, Join(n) PROVE CleaningMoves
  BY <1>33 DEF Join, Event, None, Idle, CleaningMoves
<1>34. CASE PauseAll
  BY <1>34 DEF PauseAll, CleaningMoves
<1>35. CASE UNCHANGED vars
  BY <1>35 DEF vars, CleaningMoves
<1>. QED BY <1>1, <1>2, <1>3, <1>4, <1>5, <1>6, <1>7, <1>8, <1>9, <1>10, <1>11, <1>12, <1>13, <1>14,
          <1>15, <1>16, <1>17, <1>18, <1>19, <1>20, <1>21, <1>22, <1>23, <1>24, <1>25, <1>26, <1>27,
          <1>28, <1>29, <1>30, <1>31, <1>32, <1>33, <1>34, <1>35
       DEF Next, Continue, Returning, Called

LEMMA DownsStep ==
  ASSUME DownTypes, CallTypes, CallsHold, DownsHold, [Next]_vars
  PROVE  /\ DownTypes' /\ DownsHold' /\ made \leq made'
         /\ \A i \in Download : downs[i].destroyed => downs'[i].destroyed
<1>1. DownMoves
  BY DownSteps
<1>2. OtherDownTypes
  BY DownRest
<1>3. /\ made' \in 0..MaxDownloads /\ made \leq made'
      /\ downs' \in [Download -> D!Downloads] /\ lifecycles' \subseteq 1..made'
      /\ \A i \in Download : i > made' => downs'[i] = NewDownload
      /\ \A i \in Download : i \leq made' /\ i \notin lifecycles' => D!Settled(downs'[i])
      /\ \A i \in Download : downs[i].destroyed => downs'[i].destroyed
  BY <1>1, DownKeeps
<1>4. DownTypes'
  BY <1>2, <1>3 DEF DownTypes, OtherDownTypes
<1>5. /\ \A i \in cleaning : downs[i].destroyed
      /\ made \in 0..MaxDownloads /\ MaxDownloads \in Nat /\ 1..made \subseteq Download /\ cleaning \subseteq Download
      /\ downs \in [Download -> D!Downloads]
  BY BoundAssumption DEF DownsHold, DownTypes, Download
<1>6. \A i \in cleaning' : downs'[i].destroyed
  <2>1. CASE cleaning' \subseteq cleaning
    BY <1>3, <1>5, <2>1
  <2>2. ASSUME NEW i \in 1..made, cleaning' = cleaning \cup {i}, Becomes(i, D!Destroyed(downs[i]))
        PROVE  \A j \in cleaning' : downs'[j].destroyed
    <3>1. PICK f \in D!Destroyed(downs[i]) : downs' = [downs EXCEPT ![i] = f]
      BY <2>2 DEF Becomes
    <3>2. downs[i] \in D!Downloads
      BY <1>5
    <3>3. f.destroyed
      BY <3>2, DownloadMarks
    <3>4. downs'[i] = f
      BY <1>5, <3>1
    <3>. QED BY <1>3, <1>5, <2>2, <3>3, <3>4
  <2>. QED BY <2>1, <2>2, CleaningSteps DEF CleaningMoves
<1>. QED BY <1>3, <1>4, <1>6 DEF DownsHold

Resets == {"no", "pausing", "clearing", "waiting", "draining", "cleared", "restoring",
           "restarting", "unsafe", "done"}

Suspensions == [on : BOOLEAN, to : SUBSET Net]
Snapshots == [on : BOOLEAN, use : SUBSET Net, belong : SUBSET Net]

LEMMA Records ==
  /\ NotSuspended \in Suspensions /\ NoSnapshot \in Snapshots
  /\ \A S \in SUBSET Net : [on |-> TRUE, to |-> S] \in Suspensions
  /\ \A s \in Suspensions : s.to \in SUBSET Net /\ s.on \in BOOLEAN
  /\ \A b \in BOOLEAN, S, T \in SUBSET Net : [on |-> b, use |-> S, belong |-> T] \in Snapshots
  /\ \A S, T \in SUBSET Net : [on |-> TRUE, use |-> S, belong |-> T] \in Snapshots
  /\ \A s \in Snapshots : s.use \in SUBSET Net /\ s.belong \in SUBSET Net
BY DEF NotSuspended, NoSnapshot, Suspensions, Snapshots

Flags == /\ closed \in BOOLEAN /\ enabled \in BOOLEAN /\ persisted \in BOOLEAN /\ uploads \in BOOLEAN
         /\ stored \in BOOLEAN /\ whole \in BOOLEAN /\ busy \in BOOLEAN
NetTypes == suspended \in Suspensions /\ joined \in SUBSET Net
LEMMA FlagParts ==
  FlagTypes <=> Flags /\ NetTypes /\ reset \in Resets /\ snapshot \in Snapshots /\ events \in 0..MaxEvents
BY DEF FlagTypes, Flags, NetTypes, Resets, Suspensions, Snapshots

LEMMA ResetNames ==
  /\ "no" \in Resets /\ "pausing" \in Resets /\ "clearing" \in Resets /\ "waiting" \in Resets
  /\ "draining" \in Resets /\ "cleared" \in Resets /\ "restoring" \in Resets
  /\ "restarting" \in Resets /\ "unsafe" \in Resets /\ "done" \in Resets
BY DEF Resets

\* What a call that finds none of its lishnets joined leaves behind.
Stranded == IF suspended.to # {} THEN suspended ELSE [on |-> TRUE, to |-> {}]
LEMMA StrandedType == NetTypes => Stranded \in Suspensions
BY Records DEF Stranded, NetTypes

\* The Boolean flags.
LEMMA BooleanStep ==
  ASSUME Flags, [Next]_vars
  PROVE  Flags'
<1>. USE DEF lishVars, flagVars, downVars, netVars, resetVars, callVars, taskVars, recoveryVars
<1>1. ASSUME NEW c \in Call, Enter(c) PROVE Flags'
  BY <1>1 DEF Enter, None, FromStore, Idle, ToAccess, Flags
<1>2. ASSUME NEW u \in User, UserAnswered(u) PROVE Flags'
  BY <1>2 DEF UserAnswered, Idle, None, Flags
<1>3. ASSUME NEW a \in Attempt, AttemptAnswered(a) PROVE Flags'
  BY <1>3 DEF AttemptAnswered, Idle, UploadMay, NoAttempt, None, Flags
<1>4. CASE RejoinAnswered
  BY <1>4 DEF RejoinAnswered, Idle, None, Flags
<1>5. CASE RestoreAnswered
  BY <1>5 DEF RestoreAnswered, Idle, None, Flags
<1>6. ASSUME NEW c \in Call, Replaced(c) PROVE Flags'
  BY <1>6 DEF Replaced, FromStore, Idle, ToAccess, None, Flags
<1>7. ASSUME NEW c \in Call, Resumes(c) PROVE Flags'
  BY <1>7 DEF Resumes, EnableSucceeds, EnableFails, Flags
<1>8. ASSUME NEW c \in Call, DiskChecked(c) PROVE Flags'
  BY <1>8 DEF DiskChecked, ToAccess, None, Flags
<1>9. ASSUME NEW c \in Call, Accessed(c) PROVE Flags'
  BY <1>9 DEF Accessed, EnableFails, Flags
<1>10. ASSUME NEW c \in Call, Starts(c) PROVE Flags'
  BY <1>10 DEF Starts, EnableSucceeds, EnableFails, Flags
<1>11. ASSUME NEW i \in Download, Works(i) PROVE Flags'
  BY <1>11 DEF Works, Flags
<1>12. ASSUME NEW i \in Download, Ends(i) PROVE Flags'
  BY <1>12 DEF Ends, Flags
<1>13. ASSUME NEW i \in Download, Cleaned(i) PROVE Flags'
  BY <1>13 DEF Cleaned, Flags
<1>14. CASE RecoveryStep
  BY <1>14 DEF RecoveryStep, Flags
<1>15. CASE Removed \/ Erased
  BY <1>15 DEF Removed, Erased, None, NoRemoval, Flags
<1>16. CASE Paused
  BY <1>16 DEF Paused, None, Flags
<1>17. CASE Torn
  BY <1>17 DEF Torn, None, Flags
<1>18. CASE LifecyclesEnd
  BY <1>18 DEF LifecyclesEnd, Flags
<1>19. CASE Drained
  BY <1>19 DEF Drained, Flags
<1>20. ASSUME NEW a \in Attempt, AttemptEnables(a) PROVE Flags'
  BY <1>20 DEF AttemptEnables, Idle, None, Flags
<1>21. ASSUME NEW wipe \in BOOLEAN, NEW left \in SUBSET joined, Restarted(wipe, left) PROVE Flags'
  BY <1>21 DEF Restarted, Flags
<1>22. CASE RestoreAll
  BY <1>22 DEF RestoreAll, Idle, None, Flags
<1>23. CASE Revived
  BY <1>23 DEF Revived, Flags
<1>24. CASE ResumeAll
  BY <1>24 DEF ResumeAll, Flags
<1>25. ASSUME NEW u \in User, UserEnables(u) PROVE Flags'
  BY <1>25 DEF UserEnables, Idle, None, Flags
<1>26. CASE DisableDownload
  BY <1>26 DEF DisableDownload, None, Flags
<1>27. CASE Remove \/ DeleteData
  BY <1>27 DEF Remove, DeleteData, Destroying, None, Flags
<1>28. CASE ToggleBusy
  BY <1>28 DEF ToggleBusy, Call, Idle, None, Flags
<1>29. CASE EnableUpload
  BY <1>29 DEF EnableUpload, UploadMay, Flags
<1>30. CASE DisableUpload
  BY <1>30 DEF DisableUpload, Flags
<1>31. CASE UploadFails
  BY <1>31 DEF UploadFails, Flags
<1>32. ASSUME NEW n \in Net, Leave(n) PROVE Flags'
  BY <1>32 DEF Leave, None, Flags
<1>33. ASSUME NEW n \in Net, Join(n) PROVE Flags'
  BY <1>33 DEF Join, None, Idle, Flags
<1>34. CASE PauseAll
  BY <1>34 DEF PauseAll, Flags
<1>35. CASE UNCHANGED vars
  BY <1>35 DEF vars, Flags
<1>. QED BY <1>1, <1>2, <1>3, <1>4, <1>5, <1>6, <1>7, <1>8, <1>9, <1>10, <1>11, <1>12, <1>13, <1>14,
          <1>15, <1>16, <1>17, <1>18, <1>19, <1>20, <1>21, <1>22, <1>23, <1>24, <1>25, <1>26, <1>27,
          <1>28, <1>29, <1>30, <1>31, <1>32, <1>33, <1>34, <1>35
       DEF Next, Continue, Returning, Called
LEMMA NetStep ==
  ASSUME FlagTypes, DownTypes, CallTypes, [Next]_vars
  PROVE  NetTypes'
<1>. USE DEF lishVars, flagVars, downVars, netVars, resetVars, callVars, taskVars, recoveryVars
<1>0. /\ \A i \in Download : nets[i] \in SUBSET Net /\ bound[i] \in SUBSET Net
      /\ registry # None => registry \in Download
      /\ NetTypes /\ snapshot \in Snapshots
  BY BoundAssumption, FlagParts, Records DEF DownTypes, None, Download
<1>1. ASSUME NEW c \in Call, Enter(c) PROVE NetTypes'
  <2>1. UNCHANGED joined /\ (suspended' = suspended \/ suspended' = Stranded)
    BY <1>1 DEF Enter, FromStore, ToAccess, Stranded
  <2>. QED BY <1>0, <2>1, StrandedType DEF NetTypes
<1>2. ASSUME NEW u \in User, UserAnswered(u) PROVE NetTypes'
  BY <1>2, <1>0, Records DEF UserAnswered, Idle, None, NetTypes
<1>3. ASSUME NEW a \in Attempt, AttemptAnswered(a) PROVE NetTypes'
  BY <1>3, <1>0, Records DEF AttemptAnswered, Idle, UploadMay, NoAttempt, None, NetTypes
<1>4. CASE RejoinAnswered
  BY <1>4, <1>0, Records DEF RejoinAnswered, Idle, None, NetTypes
<1>5. CASE RestoreAnswered
  BY <1>5, <1>0, Records DEF RestoreAnswered, Idle, None, NetTypes
<1>6. ASSUME NEW c \in Call, Replaced(c) PROVE NetTypes'
  <2>1. UNCHANGED joined /\ (suspended' = suspended \/ suspended' = Stranded)
    BY <1>6 DEF Replaced, FromStore, ToAccess, Stranded
  <2>. QED BY <1>0, <2>1, StrandedType DEF NetTypes
<1>7. ASSUME NEW c \in Call, Resumes(c) PROVE NetTypes'
  BY <1>7, <1>0, Records DEF Resumes, EnableSucceeds, EnableFails, NetTypes
<1>8. ASSUME NEW c \in Call, DiskChecked(c) PROVE NetTypes'
  <2>1. UNCHANGED joined /\ (suspended' = suspended \/ suspended' = Stranded)
    BY <1>8 DEF DiskChecked, ToAccess, Stranded
  <2>. QED BY <1>0, <2>1, StrandedType DEF NetTypes
<1>9. ASSUME NEW c \in Call, Accessed(c) PROVE NetTypes'
  BY <1>9, <1>0, Records DEF Accessed, EnableFails, NetTypes
<1>10. ASSUME NEW c \in Call, Starts(c) PROVE NetTypes'
  BY <1>10, <1>0, Records DEF Starts, EnableSucceeds, EnableFails, NetTypes
<1>11. ASSUME NEW i \in Download, Works(i) PROVE NetTypes'
  BY <1>11, <1>0, Records DEF Works, NetTypes
<1>12. ASSUME NEW i \in Download, Ends(i) PROVE NetTypes'
  BY <1>12, <1>0, Records DEF Ends, NetTypes
<1>13. ASSUME NEW i \in Download, Cleaned(i) PROVE NetTypes'
  BY <1>13, <1>0, Records DEF Cleaned, NetTypes
<1>14. CASE RecoveryStep
  BY <1>14, <1>0, Records DEF RecoveryStep, NetTypes
<1>15. CASE Removed \/ Erased
  BY <1>15, <1>0, Records DEF Removed, Erased, None, NoRemoval, NetTypes
<1>16. CASE Paused
  BY <1>16, <1>0, Records DEF Paused, None, NetTypes
<1>17. CASE Torn
  BY <1>17, <1>0, Records DEF Torn, None, NetTypes
<1>18. CASE LifecyclesEnd
  BY <1>18, <1>0, Records DEF LifecyclesEnd, NetTypes
<1>19. CASE Drained
  BY <1>19, <1>0, Records DEF Drained, NetTypes
<1>20. ASSUME NEW a \in Attempt, AttemptEnables(a) PROVE NetTypes'
  BY <1>20, <1>0, Records DEF AttemptEnables, Idle, None, NetTypes
<1>21. ASSUME NEW wipe \in BOOLEAN, NEW left \in SUBSET joined, Restarted(wipe, left) PROVE NetTypes'
  BY <1>21, <1>0, Records DEF Restarted, NetTypes
<1>22. CASE RestoreAll
  BY <1>22, <1>0, Records DEF RestoreAll, Idle, Plan, None, NetTypes
<1>23. CASE Revived
  BY <1>23, <1>0, Records DEF Revived, NetTypes
<1>24. CASE ResumeAll
  BY <1>24, <1>0, Records DEF ResumeAll, NetTypes
<1>25. ASSUME NEW u \in User, UserEnables(u) PROVE NetTypes'
  BY <1>25, <1>0, Records DEF UserEnables, Idle, None, NetTypes
<1>26. CASE DisableDownload
  BY <1>26, <1>0, Records DEF DisableDownload, None, NetTypes
<1>27. CASE Remove \/ DeleteData
  BY <1>27, <1>0, Records DEF Remove, DeleteData, Destroying, None, NetTypes
<1>28. CASE ToggleBusy
  BY <1>28, <1>0, Records DEF ToggleBusy, Call, Idle, None, NetTypes
<1>29. CASE EnableUpload
  BY <1>29, <1>0, Records DEF EnableUpload, UploadMay, NetTypes
<1>30. CASE DisableUpload
  BY <1>30, <1>0, Records DEF DisableUpload, NetTypes
<1>31. CASE UploadFails
  BY <1>31, <1>0, Records DEF UploadFails, NetTypes
<1>32. ASSUME NEW n \in Net, Leave(n) PROVE NetTypes'
  BY <1>32, <1>0, Records DEF Leave, None, NetTypes
<1>33. ASSUME NEW n \in Net, Join(n) PROVE NetTypes'
  BY <1>33, <1>0, Records DEF Join, None, Idle, NetTypes
<1>34. CASE PauseAll
  BY <1>34, <1>0, Records DEF PauseAll, NetTypes
<1>35. CASE UNCHANGED vars
  BY <1>35, <1>0, Records DEF vars, NetTypes
<1>. QED BY <1>1, <1>2, <1>3, <1>4, <1>5, <1>6, <1>7, <1>8, <1>9, <1>10, <1>11, <1>12, <1>13, <1>14,
          <1>15, <1>16, <1>17, <1>18, <1>19, <1>20, <1>21, <1>22, <1>23, <1>24, <1>25, <1>26, <1>27,
          <1>28, <1>29, <1>30, <1>31, <1>32, <1>33, <1>34, <1>35
       DEF Next, Continue, Returning, Called

\* The same of the reset, of what it remembers and of the bound of the events.
LEMMA ResetStep ==
  ASSUME reset \in Resets, [Next]_vars
  PROVE  reset' \in Resets
<1>. USE DEF lishVars, flagVars, downVars, netVars, resetVars, callVars, taskVars, recoveryVars
<1>1. ASSUME NEW c \in Call, Enter(c) PROVE reset' \in Resets
  BY <1>1, ResetNames DEF Enter, None, FromStore, Idle
<1>2. ASSUME NEW u \in User, UserAnswered(u) PROVE reset' \in Resets
  BY <1>2, ResetNames DEF UserAnswered, Idle, None
<1>3. ASSUME NEW a \in Attempt, AttemptAnswered(a) PROVE reset' \in Resets
  BY <1>3, ResetNames DEF AttemptAnswered, Idle, UploadMay, NoAttempt, None
<1>4. CASE RejoinAnswered
  BY <1>4, ResetNames DEF RejoinAnswered, Idle, None
<1>5. CASE RestoreAnswered
  BY <1>5, ResetNames DEF RestoreAnswered, Idle, None
<1>6. ASSUME NEW c \in Call, Replaced(c) PROVE reset' \in Resets
  BY <1>6, ResetNames DEF Replaced, FromStore, Idle, None
<1>7. ASSUME NEW c \in Call, Resumes(c) PROVE reset' \in Resets
  BY <1>7, ResetNames DEF Resumes, EnableSucceeds, EnableFails
<1>8. ASSUME NEW c \in Call, DiskChecked(c) PROVE reset' \in Resets
  BY <1>8, ResetNames DEF DiskChecked
<1>9. ASSUME NEW c \in Call, Accessed(c) PROVE reset' \in Resets
  BY <1>9, ResetNames DEF Accessed, EnableFails
<1>10. ASSUME NEW c \in Call, Starts(c) PROVE reset' \in Resets
  BY <1>10, ResetNames DEF Starts, EnableSucceeds, EnableFails
<1>11. ASSUME NEW i \in Download, Works(i) PROVE reset' \in Resets
  BY <1>11, ResetNames DEF Works
<1>12. ASSUME NEW i \in Download, Ends(i) PROVE reset' \in Resets
  BY <1>12, ResetNames DEF Ends
<1>13. ASSUME NEW i \in Download, Cleaned(i) PROVE reset' \in Resets
  BY <1>13, ResetNames DEF Cleaned
<1>14. CASE RecoveryStep
  BY <1>14, ResetNames DEF RecoveryStep
<1>15. CASE Removed \/ Erased
  BY <1>15, ResetNames DEF Removed, Erased, None, NoRemoval
<1>16. CASE Paused
  BY <1>16, ResetNames DEF Paused, None
<1>17. CASE Torn
  BY <1>17, ResetNames DEF Torn, None
<1>18. CASE LifecyclesEnd
  BY <1>18, ResetNames DEF LifecyclesEnd
<1>19. CASE Drained
  BY <1>19, ResetNames DEF Drained
<1>20. ASSUME NEW a \in Attempt, AttemptEnables(a) PROVE reset' \in Resets
  BY <1>20, ResetNames DEF AttemptEnables, Idle, None
<1>21. ASSUME NEW wipe \in BOOLEAN, NEW left \in SUBSET joined, Restarted(wipe, left) PROVE reset' \in Resets
  BY <1>21, ResetNames DEF Restarted
<1>22. CASE RestoreAll
  BY <1>22, ResetNames DEF RestoreAll, Idle, None
<1>23. CASE Revived
  BY <1>23, ResetNames DEF Revived
<1>24. CASE ResumeAll
  BY <1>24, ResetNames DEF ResumeAll
<1>25. ASSUME NEW u \in User, UserEnables(u) PROVE reset' \in Resets
  BY <1>25, ResetNames DEF UserEnables, Idle, None
<1>26. CASE DisableDownload
  BY <1>26, ResetNames DEF DisableDownload, None
<1>27. CASE Remove \/ DeleteData
  BY <1>27, ResetNames DEF Remove, DeleteData, Destroying, None
<1>28. CASE ToggleBusy
  BY <1>28, ResetNames DEF ToggleBusy, Call, Idle, None
<1>29. CASE EnableUpload
  BY <1>29, ResetNames DEF EnableUpload, UploadMay
<1>30. CASE DisableUpload
  BY <1>30, ResetNames DEF DisableUpload
<1>31. CASE UploadFails
  BY <1>31, ResetNames DEF UploadFails
<1>32. ASSUME NEW n \in Net, Leave(n) PROVE reset' \in Resets
  BY <1>32, ResetNames DEF Leave, None
<1>33. ASSUME NEW n \in Net, Join(n) PROVE reset' \in Resets
  BY <1>33, ResetNames DEF Join, None, Idle
<1>34. CASE PauseAll
  BY <1>34, ResetNames DEF PauseAll
<1>35. CASE UNCHANGED vars
  BY <1>35, ResetNames DEF vars
<1>. QED BY <1>1, <1>2, <1>3, <1>4, <1>5, <1>6, <1>7, <1>8, <1>9, <1>10, <1>11, <1>12, <1>13, <1>14,
          <1>15, <1>16, <1>17, <1>18, <1>19, <1>20, <1>21, <1>22, <1>23, <1>24, <1>25, <1>26, <1>27,
          <1>28, <1>29, <1>30, <1>31, <1>32, <1>33, <1>34, <1>35
       DEF Next, Continue, Returning, Called
LEMMA SnapshotStep ==
  ASSUME snapshot \in Snapshots, DownTypes, NetTypes, [Next]_vars
  PROVE  snapshot' \in Snapshots
<1>. USE DEF lishVars, flagVars, downVars, netVars, resetVars, callVars, taskVars, recoveryVars
<1>0. /\ \A i \in Download : nets[i] \in SUBSET Net /\ bound[i] \in SUBSET Net
      /\ registry # None => registry \in Download
      /\ {} \in SUBSET Net /\ suspended.on \in BOOLEAN /\ suspended.to \in SUBSET Net
  BY BoundAssumption, Records DEF DownTypes, None, Download, NetTypes
<1>1. ASSUME NEW c \in Call, Enter(c) PROVE snapshot' \in Snapshots
  BY <1>1, <1>0, Records DEF Enter, None, FromStore, Idle
<1>2. ASSUME NEW u \in User, UserAnswered(u) PROVE snapshot' \in Snapshots
  BY <1>2, <1>0, Records DEF UserAnswered, Idle, None
<1>3. ASSUME NEW a \in Attempt, AttemptAnswered(a) PROVE snapshot' \in Snapshots
  BY <1>3, <1>0, Records DEF AttemptAnswered, Idle, UploadMay, NoAttempt, None
<1>4. CASE RejoinAnswered
  BY <1>4, <1>0, Records DEF RejoinAnswered, Idle, None
<1>5. CASE RestoreAnswered
  BY <1>5, <1>0, Records DEF RestoreAnswered, Idle, None
<1>6. ASSUME NEW c \in Call, Replaced(c) PROVE snapshot' \in Snapshots
  BY <1>6, <1>0, Records DEF Replaced, FromStore, Idle, None
<1>7. ASSUME NEW c \in Call, Resumes(c) PROVE snapshot' \in Snapshots
  BY <1>7, <1>0, Records DEF Resumes, EnableSucceeds, EnableFails
<1>8. ASSUME NEW c \in Call, DiskChecked(c) PROVE snapshot' \in Snapshots
  BY <1>8, <1>0, Records DEF DiskChecked
<1>9. ASSUME NEW c \in Call, Accessed(c) PROVE snapshot' \in Snapshots
  BY <1>9, <1>0, Records DEF Accessed, EnableFails
<1>10. ASSUME NEW c \in Call, Starts(c) PROVE snapshot' \in Snapshots
  BY <1>10, <1>0, Records DEF Starts, EnableSucceeds, EnableFails
<1>11. ASSUME NEW i \in Download, Works(i) PROVE snapshot' \in Snapshots
  BY <1>11, <1>0, Records DEF Works
<1>12. ASSUME NEW i \in Download, Ends(i) PROVE snapshot' \in Snapshots
  BY <1>12, <1>0, Records DEF Ends
<1>13. ASSUME NEW i \in Download, Cleaned(i) PROVE snapshot' \in Snapshots
  BY <1>13, <1>0, Records DEF Cleaned
<1>14. CASE RecoveryStep
  BY <1>14, <1>0, Records DEF RecoveryStep
<1>15. CASE Removed \/ Erased
  BY <1>15, <1>0, Records DEF Removed, Erased, None, NoRemoval
<1>16. CASE Paused
  BY <1>16, <1>0, Records DEF Paused, None
<1>17. CASE Torn
  BY <1>17, <1>0, Records DEF Torn, None
<1>18. CASE LifecyclesEnd
  BY <1>18, <1>0, Records DEF LifecyclesEnd
<1>19. CASE Drained
  BY <1>19, <1>0, Records DEF Drained
<1>20. ASSUME NEW a \in Attempt, AttemptEnables(a) PROVE snapshot' \in Snapshots
  BY <1>20, <1>0, Records DEF AttemptEnables, Idle, None
<1>21. ASSUME NEW wipe \in BOOLEAN, NEW left \in SUBSET joined, Restarted(wipe, left) PROVE snapshot' \in Snapshots
  BY <1>21, <1>0, Records DEF Restarted
<1>22. CASE RestoreAll
  BY <1>22, <1>0, Records DEF RestoreAll, Idle, None
<1>23. CASE Revived
  BY <1>23, <1>0, Records DEF Revived
<1>24. CASE ResumeAll
  BY <1>24, <1>0, Records DEF ResumeAll
<1>25. ASSUME NEW u \in User, UserEnables(u) PROVE snapshot' \in Snapshots
  BY <1>25, <1>0, Records DEF UserEnables, Idle, None
<1>26. CASE DisableDownload
  BY <1>26, <1>0, Records DEF DisableDownload, None
<1>27. CASE Remove \/ DeleteData
  BY <1>27, <1>0, Records DEF Remove, DeleteData, Destroying, None
<1>28. CASE ToggleBusy
  BY <1>28, <1>0, Records DEF ToggleBusy, Call, Idle, None
<1>29. CASE EnableUpload
  BY <1>29, <1>0, Records DEF EnableUpload, UploadMay
<1>30. CASE DisableUpload
  BY <1>30, <1>0, Records DEF DisableUpload
<1>31. CASE UploadFails
  BY <1>31, <1>0, Records DEF UploadFails
<1>32. ASSUME NEW n \in Net, Leave(n) PROVE snapshot' \in Snapshots
  BY <1>32, <1>0, Records DEF Leave, None
<1>33. ASSUME NEW n \in Net, Join(n) PROVE snapshot' \in Snapshots
  BY <1>33, <1>0, Records DEF Join, None, Idle
<1>34. CASE PauseAll
  BY <1>34, <1>0, Records DEF PauseAll
<1>35. CASE UNCHANGED vars
  BY <1>35, <1>0, Records DEF vars
<1>. QED BY <1>1, <1>2, <1>3, <1>4, <1>5, <1>6, <1>7, <1>8, <1>9, <1>10, <1>11, <1>12, <1>13, <1>14,
          <1>15, <1>16, <1>17, <1>18, <1>19, <1>20, <1>21, <1>22, <1>23, <1>24, <1>25, <1>26, <1>27,
          <1>28, <1>29, <1>30, <1>31, <1>32, <1>33, <1>34, <1>35
       DEF Next, Continue, Returning, Called
LEMMA EventStep ==
  ASSUME events \in 0..MaxEvents, [Next]_vars
  PROVE  events' \in 0..MaxEvents
<1>. USE DEF lishVars, flagVars, downVars, netVars, resetVars, callVars, taskVars, recoveryVars
<1>1. ASSUME NEW c \in Call, Enter(c) PROVE events' \in 0..MaxEvents
  BY <1>1, BoundAssumption DEF Enter, None, Idle
<1>2. ASSUME NEW u \in User, UserAnswered(u) PROVE events' \in 0..MaxEvents
  BY <1>2, BoundAssumption DEF UserAnswered, Idle, None
<1>3. ASSUME NEW a \in Attempt, AttemptAnswered(a) PROVE events' \in 0..MaxEvents
  BY <1>3, BoundAssumption DEF AttemptAnswered, Idle, UploadMay, NoAttempt, None
<1>4. CASE RejoinAnswered
  BY <1>4, BoundAssumption DEF RejoinAnswered, Idle, None
<1>5. CASE RestoreAnswered
  BY <1>5, BoundAssumption DEF RestoreAnswered, Idle, None
<1>6. ASSUME NEW c \in Call, Replaced(c) PROVE events' \in 0..MaxEvents
  BY <1>6, BoundAssumption DEF Replaced
<1>7. ASSUME NEW c \in Call, Resumes(c) PROVE events' \in 0..MaxEvents
  BY <1>7, BoundAssumption DEF Resumes
<1>8. ASSUME NEW c \in Call, DiskChecked(c) PROVE events' \in 0..MaxEvents
  BY <1>8, BoundAssumption DEF DiskChecked, ToAccess, Belong, None
<1>9. ASSUME NEW c \in Call, Accessed(c) PROVE events' \in 0..MaxEvents
  BY <1>9, BoundAssumption DEF Accessed
<1>10. ASSUME NEW c \in Call, Starts(c) PROVE events' \in 0..MaxEvents
  BY <1>10, BoundAssumption DEF Starts
<1>11. ASSUME NEW i \in Download, Works(i) PROVE events' \in 0..MaxEvents
  BY <1>11, BoundAssumption DEF Works
<1>12. ASSUME NEW i \in Download, Ends(i) PROVE events' \in 0..MaxEvents
  BY <1>12, BoundAssumption DEF Ends
<1>13. ASSUME NEW i \in Download, Cleaned(i) PROVE events' \in 0..MaxEvents
  BY <1>13, BoundAssumption DEF Cleaned
<1>14. CASE RecoveryStep
  BY <1>14, BoundAssumption DEF RecoveryStep
<1>15. CASE Removed \/ Erased
  BY <1>15, BoundAssumption DEF Removed, Erased, None, NoRemoval
<1>16. CASE Paused
  BY <1>16, BoundAssumption DEF Paused, None
<1>17. CASE Torn
  BY <1>17, BoundAssumption DEF Torn, None
<1>18. CASE LifecyclesEnd
  BY <1>18, BoundAssumption DEF LifecyclesEnd
<1>19. CASE Drained
  BY <1>19, BoundAssumption DEF Drained
<1>20. ASSUME NEW a \in Attempt, AttemptEnables(a) PROVE events' \in 0..MaxEvents
  BY <1>20, BoundAssumption DEF AttemptEnables, Idle, None
<1>21. ASSUME NEW wipe \in BOOLEAN, NEW left \in SUBSET joined, Restarted(wipe, left) PROVE events' \in 0..MaxEvents
  BY <1>21, BoundAssumption DEF Restarted
<1>22. CASE RestoreAll
  BY <1>22, BoundAssumption DEF RestoreAll, Idle, Plan, None
<1>23. CASE Revived
  BY <1>23, BoundAssumption DEF Revived
<1>24. CASE ResumeAll
  BY <1>24, BoundAssumption DEF ResumeAll
<1>25. ASSUME NEW u \in User, UserEnables(u) PROVE events' \in 0..MaxEvents
  BY <1>25, BoundAssumption DEF UserEnables, Event, Idle, None
<1>26. CASE DisableDownload
  BY <1>26, BoundAssumption DEF DisableDownload, Event, None
<1>27. CASE Remove \/ DeleteData
  BY <1>27, BoundAssumption DEF Remove, DeleteData, Destroying, Event, None
<1>28. CASE ToggleBusy
  BY <1>28, BoundAssumption DEF ToggleBusy, Event, Call, Idle, None
<1>29. CASE EnableUpload
  BY <1>29, BoundAssumption DEF EnableUpload, UploadMay, Event
<1>30. CASE DisableUpload
  BY <1>30, BoundAssumption DEF DisableUpload, Event
<1>31. CASE UploadFails
  BY <1>31, BoundAssumption DEF UploadFails, Event
<1>32. ASSUME NEW n \in Net, Leave(n) PROVE events' \in 0..MaxEvents
  BY <1>32, BoundAssumption DEF Leave, Event, None
<1>33. ASSUME NEW n \in Net, Join(n) PROVE events' \in 0..MaxEvents
  BY <1>33, BoundAssumption DEF Join, Event, None, Idle
<1>34. CASE PauseAll
  BY <1>34, BoundAssumption DEF PauseAll
<1>35. CASE UNCHANGED vars
  BY <1>35, BoundAssumption DEF vars
<1>. QED BY <1>1, <1>2, <1>3, <1>4, <1>5, <1>6, <1>7, <1>8, <1>9, <1>10, <1>11, <1>12, <1>13, <1>14,
          <1>15, <1>16, <1>17, <1>18, <1>19, <1>20, <1>21, <1>22, <1>23, <1>24, <1>25, <1>26, <1>27,
          <1>28, <1>29, <1>30, <1>31, <1>32, <1>33, <1>34, <1>35
       DEF Next, Continue, Returning, Called

\* All the flags.
LEMMA FlagStep ==
  ASSUME FlagTypes, DownTypes, CallTypes, [Next]_vars
  PROVE  FlagTypes'
<1>1. /\ Flags /\ NetTypes /\ reset \in Resets /\ snapshot \in Snapshots /\ events \in 0..MaxEvents
  BY FlagParts
<1>2. Flags'
  BY <1>1, BooleanStep
<1>3. NetTypes'
  BY NetStep
<1>4. reset' \in Resets
  BY <1>1, ResetStep
<1>5. snapshot' \in Snapshots
  BY <1>1, SnapshotStep
<1>6. events' \in 0..MaxEvents
  BY <1>1, EventStep
<1>7. Resets' = Resets /\ Snapshots' = Snapshots
  BY DEF Resets, Snapshots
<1>. QED BY <1>2, <1>3, <1>4, <1>5, <1>6, FlagParts DEF FlagTypes, Flags, NetTypes, Resets, Snapshots, Suspensions

-----------------------------------------------------------------------------
(* The calls *)

\* The records a call is put in.
Places == CallPlaces \ {"destroying", "enabling"}

\* Their places by name.
LEMMA PlaceNames ==
  /\ "idle" \in Places /\ "called" \in Places /\ "disk" \in Places /\ "access" \in Places
  /\ "starting" \in Places /\ "reviving" \in Places /\ "yes" \in Places /\ "no" \in Places
BY DEF Places, CallPlaces

LEMMA CallRecords ==
  /\ \A x \in Places : /\ [Idle EXCEPT !.at = x] \in Calls /\ [Idle EXCEPT !.at = x].at = x
                       /\ [Idle EXCEPT !.at = x].use = {}
  /\ Idle \in Calls /\ Idle.at = "idle" /\ Idle.use = {} /\ Idle = [Idle EXCEPT !.at = "idle"]
  /\ \A x \in {"destroying", "enabling"}, i \in Download :
       /\ [Idle EXCEPT !.at = x, !.down = i] \in Calls /\ [Idle EXCEPT !.at = x, !.down = i].at = x
       /\ [Idle EXCEPT !.at = x, !.down = i].down = i /\ [Idle EXCEPT !.at = x, !.down = i].use = {}
  /\ \A x \in {"access", "reviving"}, S, T \in SUBSET Net :
       [at |-> x, down |-> None, use |-> S, belong |-> T] \in Calls
  /\ \A r \in Calls : [r EXCEPT !.at = "starting"] \in Calls /\ r.use \in SUBSET Net /\ r.belong \in SUBSET Net
<1>0. /\ "idle" \in CallPlaces /\ "destroying" \in CallPlaces /\ "enabling" \in CallPlaces
      /\ "access" \in CallPlaces /\ "reviving" \in CallPlaces /\ "starting" \in CallPlaces
      /\ Places \subseteq CallPlaces /\ "idle" \in Places
  BY DEF CallPlaces, Places
<1>1. /\ Idle \in Calls /\ Idle.at = "idle" /\ Idle.use = {} /\ Idle = [Idle EXCEPT !.at = "idle"]
  BY <1>0 DEF Idle, Calls
<1>2. ASSUME NEW x \in CallPlaces
      PROVE  /\ [Idle EXCEPT !.at = x] \in Calls /\ [Idle EXCEPT !.at = x].at = x
             /\ [Idle EXCEPT !.at = x].use = {}
  BY DEF Idle, Calls
<1>3. ASSUME NEW x \in CallPlaces, NEW i \in Download
      PROVE  /\ [Idle EXCEPT !.at = x, !.down = i] \in Calls /\ [Idle EXCEPT !.at = x, !.down = i].at = x
             /\ [Idle EXCEPT !.at = x, !.down = i].down = i /\ [Idle EXCEPT !.at = x, !.down = i].use = {}
  BY DEF Idle, Calls
<1>4. ASSUME NEW x \in CallPlaces, NEW S \in SUBSET Net, NEW T \in SUBSET Net
      PROVE  [at |-> x, down |-> None, use |-> S, belong |-> T] \in Calls
  BY DEF Calls
<1>5. ASSUME NEW r \in Calls
      PROVE  [r EXCEPT !.at = "starting"] \in Calls /\ r.use \in SUBSET Net /\ r.belong \in SUBSET Net
  BY <1>0 DEF Calls
<1>6. ASSUME NEW x \in {"destroying", "enabling"}, NEW i \in Download
      PROVE  /\ [Idle EXCEPT !.at = x, !.down = i] \in Calls /\ [Idle EXCEPT !.at = x, !.down = i].at = x
             /\ [Idle EXCEPT !.at = x, !.down = i].down = i /\ [Idle EXCEPT !.at = x, !.down = i].use = {}
  <2>1. x \in CallPlaces
    BY <1>0
  <2>. QED BY <1>3, <2>1
<1>7. \A x \in {"access", "reviving"}, S, T \in SUBSET Net :
        [at |-> x, down |-> None, use |-> S, belong |-> T] \in Calls
  BY <1>0, <1>4
<1>8. \A x \in Places : /\ [Idle EXCEPT !.at = x] \in Calls /\ [Idle EXCEPT !.at = x].at = x
                        /\ [Idle EXCEPT !.at = x].use = {}
  BY <1>0, <1>2
<1>. QED BY <1>1, <1>5, <1>6, <1>7, <1>8

\* A record that says what it is to use and which download it holds.
Fit(r) == /\ r \in Calls /\ r.use \subseteq r.belong
          /\ r.at \in {"destroying", "enabling"} => r.down \in 1..made'
          /\ r.at = "destroying" => downs'[r.down].destroyed
Recall(c, r) == call' = [call EXCEPT ![c] = r] /\ pending' = \E b \in Call : Asking(call'[b])

\* A call goes on: it comes to an answer, to the disk, to the access check and past it, or
\* to the download that is registered.
GoesTo(c, r) ==
  \/ \E x \in Places : r = [Idle EXCEPT !.at = x]
  \/ call[c].at # "idle" /\ r = [call[c] EXCEPT !.at = "starting"]
  \/ r = [at |-> "access", down |-> None, use |-> Belong \cap joined, belong |-> Belong]
  \/ registry # None /\ r = [Idle EXCEPT !.at = "enabling", !.down = registry]
  \/ /\ registry # None /\ r = [Idle EXCEPT !.at = "destroying", !.down = registry]
     /\ Becomes(registry, D!Destroyed(downs[registry]))
Goes(c) == \E r : GoesTo(c, r) /\ Recall(c, r)

\* An answer, a call that looks up its lishnets, and one that begins at the store.
LEMMA AnswerGoes ==
  ASSUME NEW c \in Call, Answer(c, TRUE) \/ Answer(c, FALSE)
  PROVE  Goes(c)
<1>1. PICK x \in {"yes", "no"} : To(c, [Idle EXCEPT !.at = x])
  BY DEF Answer
<1>2. x \in Places
  BY PlaceNames
<1>. QED BY <1>1, <1>2 DEF To, Goes, GoesTo, Recall, Asking

LEMMA AccessGoes ==
  ASSUME NEW c \in Call, NEW on, ToAccess(c, on)
  PROVE  Goes(c)
<1>1. CASE Answer(c, FALSE)
  BY <1>1, AnswerGoes
<1>2. CASE To(c, [at |-> "access", down |-> None, use |-> Belong \cap joined, belong |-> Belong])
  BY <1>2 DEF To, Goes, GoesTo, Recall, Asking
<1>. QED BY <1>1, <1>2 DEF ToAccess

LEMMA StoreGoes ==
  ASSUME NEW c \in Call, NEW on, NEW inDatabase, FromStore(c, on, inDatabase)
  PROVE  Goes(c)
<1>1. CASE Answer(c, FALSE)
  BY <1>1, AnswerGoes
<1>2. CASE To(c, [Idle EXCEPT !.at = "disk"])
  BY <1>2, PlaceNames DEF To, Goes, GoesTo, Recall, Asking
<1>3. CASE ToAccess(c, on)
  BY <1>3, AccessGoes
<1>. QED BY <1>1, <1>2, <1>3 DEF FromStore

\* Answers and new calls leave those alone that ask for the download.
LEMMA QuietGoes ==
  ASSUME CallTypes, NEW c \in Call, NEW x \in Places, ~Asking(call[c]), x \notin {"access", "starting"},
         call' = [call EXCEPT ![c] = [Idle EXCEPT !.at = x]], pending' = pending
  PROVE  Goes(c)
<1>1. [Idle EXCEPT !.at = x].at = x
  BY CallRecords
<1>2. call'[c] = [Idle EXCEPT !.at = x] /\ \A b \in Call \ {c} : call'[b] = call[b]
  BY DEF CallTypes
<1>3. ~Asking(call'[c])
  BY <1>1, <1>2 DEF Asking
<1>4. pending' = \E b \in Call : Asking(call'[b])
  BY <1>2, <1>3 DEF CallTypes
<1>. QED BY <1>4 DEF Goes, GoesTo, Recall

\* The end of a verification calls for everybody who does not call already.
Reminded == [c \in Call |-> IF c \in User /\ call[c].at = "idle" THEN [Idle EXCEPT !.at = "called"] ELSE call[c]]

\* What a step does to the calls.
CallMoves ==
  \/ UNCHANGED callVars
  \/ \E c \in Call : Goes(c) /\ (call[c].at # "idle" \/ c \in User \cup {Rejoin})
  \/ \E a \in Attempt : Goes(a) /\ AttemptEnables(a)
  \/ /\ reset = "restoring" /\ reset' = reset
     /\ \/ Goes(Restore)
        \/ \E S \in SUBSET Net : Recall(Restore, [at |-> "reviving", down |-> None, use |-> S \cap joined, belong |-> S])
  \/ call' = Reminded /\ UNCHANGED pending

\* Each step is one of these.
LEMMA CallSteps ==
  ASSUME FlagTypes, CallTypes, CallsHold, [Next]_vars
  PROVE  CallMoves
<1>. USE DEF lishVars, flagVars, downVars, netVars, resetVars, callVars, taskVars, recoveryVars
<1>1. ASSUME NEW c \in Call, Enter(c) PROVE CallMoves
  <2>1. call[c].at # "idle"
    BY <1>1 DEF Enter
  <2>2. CASE Answer(c, TRUE) \/ Answer(c, FALSE)
    BY <2>1, <2>2, AnswerGoes DEF CallMoves
  <2>3. CASE FromStore(c, TRUE, TRUE)
    BY <2>1, <2>3, StoreGoes DEF CallMoves
  <2>4. CASE registry # None /\ Recall(c, [Idle EXCEPT !.at = "enabling", !.down = registry])
    BY <2>1, <2>4 DEF CallMoves, Goes, GoesTo
  <2>5. CASE /\ registry # None /\ Becomes(registry, D!Destroyed(downs[registry]))
             /\ Recall(c, [Idle EXCEPT !.at = "destroying", !.down = registry])
    BY <2>1, <2>5 DEF CallMoves, Goes, GoesTo
  <2>. QED BY <1>1, <2>2, <2>3, <2>4, <2>5 DEF Enter, Recall, To, Asking
<1>2. ASSUME NEW u \in User, UserAnswered(u) PROVE CallMoves
  <2>1. /\ u \in Call /\ ~Asking(call[u]) /\ (call[u].at # "idle")
        /\ call' = [call EXCEPT ![u] = [Idle EXCEPT !.at = "idle"]] /\ UNCHANGED pending
    BY <1>2, CallRecords DEF UserAnswered, Call, Asking
  <2>. QED BY <2>1, PlaceNames, QuietGoes DEF CallMoves
<1>3. ASSUME NEW a \in Attempt, AttemptAnswered(a) PROVE CallMoves
  <2>1. /\ a \in Call /\ ~Asking(call[a]) /\ (call[a].at # "idle")
        /\ call' = [call EXCEPT ![a] = [Idle EXCEPT !.at = "idle"]] /\ UNCHANGED pending
    BY <1>3, CallRecords DEF AttemptAnswered, Call, Asking
  <2>. QED BY <2>1, PlaceNames, QuietGoes DEF CallMoves
<1>4. CASE RejoinAnswered
  <2>1. /\ Rejoin \in Call /\ ~Asking(call[Rejoin]) /\ (call[Rejoin].at # "idle")
        /\ call' = [call EXCEPT ![Rejoin] = [Idle EXCEPT !.at = "idle"]] /\ UNCHANGED pending
    BY <1>4, CallRecords DEF RejoinAnswered, Call, Asking
  <2>. QED BY <2>1, PlaceNames, QuietGoes DEF CallMoves
<1>5. CASE RestoreAnswered
  <2>1. /\ Restore \in Call /\ ~Asking(call[Restore]) /\ (call[Restore].at # "idle")
        /\ call' = [call EXCEPT ![Restore] = [Idle EXCEPT !.at = "idle"]] /\ UNCHANGED pending
    BY <1>5, CallRecords DEF RestoreAnswered, Call, Asking
  <2>. QED BY <2>1, PlaceNames, QuietGoes DEF CallMoves
<1>6. ASSUME NEW c \in Call, Replaced(c) PROVE CallMoves
  <2>1. call[c].at # "idle" /\ FromStore(c, enabled, persisted)
    BY <1>6 DEF Replaced
  <2>. QED BY <2>1, StoreGoes DEF CallMoves
<1>7. ASSUME NEW c \in Call, Resumes(c) PROVE CallMoves
  <2>1. call[c].at # "idle" /\ (Answer(c, TRUE) \/ Answer(c, FALSE))
    BY <1>7 DEF Resumes, EnableFails, EnableSucceeds
  <2>. QED BY <2>1, AnswerGoes DEF CallMoves
<1>8. ASSUME NEW c \in Call, DiskChecked(c) PROVE CallMoves
  <2>1. call[c].at # "idle" /\ (Answer(c, TRUE) \/ ToAccess(c, enabled))
    BY <1>8 DEF DiskChecked
  <2>. QED BY <2>1, AnswerGoes, AccessGoes DEF CallMoves
<1>9. ASSUME NEW c \in Call, Accessed(c) PROVE CallMoves
  <2>1. call[c].at # "idle" /\ (Answer(c, FALSE) \/ Recall(c, [call[c] EXCEPT !.at = "starting"]))
    BY <1>9 DEF Accessed, EnableFails, To, Recall, Asking
  <2>. QED BY <2>1, AnswerGoes DEF CallMoves, Goes, GoesTo
<1>10. ASSUME NEW c \in Call, Starts(c) PROVE CallMoves
  <2>1. call[c].at # "idle" /\ (Answer(c, TRUE) \/ Answer(c, FALSE))
    BY <1>10 DEF Starts, EnableFails, EnableSucceeds
  <2>. QED BY <2>1, AnswerGoes DEF CallMoves
<1>11. ASSUME NEW i \in Download, Works(i) PROVE CallMoves
  BY <1>11 DEF Works, CallMoves
<1>12. ASSUME NEW i \in Download, Ends(i) PROVE CallMoves
  BY <1>12 DEF Ends, CallMoves
<1>13. ASSUME NEW i \in Download, Cleaned(i) PROVE CallMoves
  BY <1>13 DEF Cleaned, CallMoves
<1>14. CASE RecoveryStep
  BY <1>14 DEF RecoveryStep, CallMoves
<1>15. CASE Removed \/ Erased
  BY <1>15 DEF Removed, Erased, None, NoRemoval, CallMoves
<1>16. CASE Paused
  BY <1>16 DEF Paused, None, CallMoves
<1>17. CASE Torn
  BY <1>17 DEF Torn, None, CallMoves
<1>18. CASE LifecyclesEnd
  BY <1>18 DEF LifecyclesEnd, CallMoves
<1>19. CASE Drained
  BY <1>19 DEF Drained, CallMoves
<1>20. ASSUME NEW a \in Attempt, AttemptEnables(a) PROVE CallMoves
  <2>1. a \in Call /\ ~Asking(call[a])
    BY <1>20 DEF AttemptEnables, AccessGranted, CallsHold, Call, Asking
  <2>2. PICK x \in {"called", "yes"} : call' = [call EXCEPT ![a] = [Idle EXCEPT !.at = x]] /\ UNCHANGED pending
    BY <1>20 DEF AttemptEnables
  <2>3. Goes(a)
    BY <2>1, <2>2, PlaceNames, QuietGoes
  <2>. QED BY <1>20, <2>3 DEF CallMoves
<1>21. ASSUME NEW wipe \in BOOLEAN, NEW left \in SUBSET joined, Restarted(wipe, left) PROVE CallMoves
  BY <1>21 DEF Restarted, CallMoves
<1>22. CASE RestoreAll
  <2>0. Restore \in Call /\ ~Asking(call[Restore]) /\ reset = "restoring" /\ UNCHANGED pending
    BY <1>22 DEF RestoreAll, Call, Asking
  <2>1. CASE UNCHANGED callVars
    BY <2>1 DEF CallMoves
  <2>2. CASE reset' = reset /\ call' = [call EXCEPT ![Restore] = [Idle EXCEPT !.at = "called"]]
    BY <2>0, <2>2, PlaceNames, QuietGoes DEF CallMoves
  <2>3. CASE reset' = reset /\ call' = [call EXCEPT ![Restore] =
               [at |-> "reviving", down |-> None, use |-> Plan \cap joined, belong |-> Plan]]
    <3>1. Plan \in SUBSET Net
      BY FlagParts, Records DEF Plan
    <3>2. call'[Restore].at = "reviving" /\ \A b \in Call \ {Restore} : call'[b] = call[b]
      BY <2>0, <2>3 DEF CallTypes
    <3>3. pending' = \E b \in Call : Asking(call'[b])
      BY <2>0, <3>2 DEF CallTypes, Asking
    <3>. QED BY <2>0, <2>3, <3>1, <3>3 DEF CallMoves, Recall
  <2>. QED BY <1>22, <2>0, <2>1, <2>2, <2>3 DEF RestoreAll, callVars
<1>23. CASE Revived
  <2>0. Restore \in Call
    BY DEF Call
  <2>1. call[Restore].at # "idle" /\ (Answer(Restore, TRUE) \/ Answer(Restore, FALSE))
    BY <1>23 DEF Revived
  <2>. QED BY <2>0, <2>1, AnswerGoes DEF CallMoves
<1>24. CASE ResumeAll
  BY <1>24 DEF ResumeAll, CallMoves
<1>25. ASSUME NEW u \in User, UserEnables(u) PROVE CallMoves
  <2>1. /\ u \in Call /\ ~Asking(call[u]) /\ (u \in User)
        /\ call' = [call EXCEPT ![u] = [Idle EXCEPT !.at = "called"]] /\ UNCHANGED pending
    BY <1>25, CallRecords DEF UserEnables, Call, Asking
  <2>. QED BY <2>1, PlaceNames, QuietGoes DEF CallMoves
<1>26. CASE DisableDownload
  BY <1>26 DEF DisableDownload, None, CallMoves
<1>27. CASE Remove \/ DeleteData
  BY <1>27 DEF Remove, DeleteData, Destroying, None, CallMoves
<1>28. CASE ToggleBusy
  BY <1>28 DEF ToggleBusy, CallMoves, Reminded, callVars
<1>29. CASE EnableUpload
  BY <1>29 DEF EnableUpload, UploadMay, CallMoves
<1>30. CASE DisableUpload
  BY <1>30 DEF DisableUpload, CallMoves
<1>31. CASE UploadFails
  BY <1>31 DEF UploadFails, CallMoves
<1>32. ASSUME NEW n \in Net, Leave(n) PROVE CallMoves
  BY <1>32 DEF Leave, None, CallMoves
<1>33. ASSUME NEW n \in Net, Join(n) PROVE CallMoves
  <2>1. CASE UNCHANGED callVars
    BY <2>1 DEF CallMoves
  <2>2. CASE /\ Rejoin \in Call /\ ~Asking(call[Rejoin])
             /\ call' = [call EXCEPT ![Rejoin] = [Idle EXCEPT !.at = "called"]] /\ UNCHANGED pending
    BY <2>2, PlaceNames, QuietGoes DEF CallMoves
  <2>. QED BY <1>33, <2>1, <2>2 DEF Join, Call, Asking, callVars
<1>34. CASE PauseAll
  BY <1>34 DEF PauseAll, CallMoves
<1>35. CASE UNCHANGED vars
  BY <1>35 DEF vars, CallMoves
<1>. QED BY <1>1, <1>2, <1>3, <1>4, <1>5, <1>6, <1>7, <1>8, <1>9, <1>10, <1>11, <1>12, <1>13, <1>14,
          <1>15, <1>16, <1>17, <1>18, <1>19, <1>20, <1>21, <1>22, <1>23, <1>24, <1>25, <1>26, <1>27,
          <1>28, <1>29, <1>30, <1>31, <1>32, <1>33, <1>34, <1>35
       DEF Next, Continue, Returning, Called

\* What a call comes to holds together.
LEMMA GoesFit ==
  ASSUME FlagTypes, DownTypes, CallTypes, CallsHold, DownTypes', NEW c \in Call, NEW r, GoesTo(c, r),
         made \leq made'
  PROVE  Fit(r)
<1>0. /\ made \in 0..MaxDownloads /\ made' \in 0..MaxDownloads /\ MaxDownloads \in Nat
      /\ downs \in [Download -> D!Downloads]
  BY BoundAssumption DEF DownTypes
<1>r. registry # None => registry \in 1..made /\ registry \in Download /\ registry \in 1..made'
  BY <1>0 DEF DownTypes, None, Download
<1>1. CASE \E x \in Places : r = [Idle EXCEPT !.at = x]
  <2>1. PICK x \in Places : r = [Idle EXCEPT !.at = x]
    BY <1>1
  <2>2. r \in Calls /\ r.at = x /\ r.use = {}
    BY <2>1, CallRecords
  <2>. QED BY <2>2 DEF Fit, Places
<1>2. CASE call[c].at # "idle" /\ r = [call[c] EXCEPT !.at = "starting"]
  <2>1. call[c] \in Calls /\ call[c].use \subseteq call[c].belong
    BY DEF CallTypes, CallsHold
  <2>2. r \in Calls
    BY <1>2, <2>1, CallRecords
  <2>3. r.at = "starting" /\ r.use = call[c].use /\ r.belong = call[c].belong
    BY <1>2, <2>1 DEF Calls
  <2>. QED BY <2>1, <2>2, <2>3 DEF Fit
<1>3. CASE r = [at |-> "access", down |-> None, use |-> Belong \cap joined, belong |-> Belong]
  <2>1. Belong \in SUBSET Net /\ Belong \cap joined \in SUBSET Net
    BY FlagParts, Records DEF Belong, NetTypes
  <2>2. r \in Calls
    BY <1>3, <2>1, CallRecords
  <2>3. r.at = "access" /\ r.use \subseteq r.belong
    BY <1>3
  <2>. QED BY <2>2, <2>3 DEF Fit
<1>4. CASE registry # None /\ r = [Idle EXCEPT !.at = "enabling", !.down = registry]
  <2>1. r \in Calls /\ r.at = "enabling" /\ r.use = {} /\ r.down = registry
    BY <1>r, <1>4, CallRecords
  <2>. QED BY <1>r, <1>4, <2>1 DEF Fit
<1>5. CASE /\ registry # None /\ r = [Idle EXCEPT !.at = "destroying", !.down = registry]
           /\ Becomes(registry, D!Destroyed(downs[registry]))
  <2>1. r \in Calls /\ r.at = "destroying" /\ r.use = {} /\ r.down = registry
    BY <1>r, <1>5, CallRecords
  <2>2. PICK f \in D!Destroyed(downs[registry]) : downs' = [downs EXCEPT ![registry] = f]
    BY <1>5 DEF Becomes
  <2>3. f.destroyed /\ downs'[registry] = f
    BY <1>0, <1>r, <1>5, <2>2, DownloadMarks
  <2>. QED BY <1>r, <1>5, <2>1, <2>3 DEF Fit
<1>. QED BY <1>1, <1>2, <1>3, <1>4, <1>5 DEF GoesTo

\* What held of a call still does.
LEMMA StillFit ==
  ASSUME CallTypes, CallsHold, DownTypes, DownTypes', made \leq made',
         \A i \in Download : downs[i].destroyed => downs'[i].destroyed, NEW b \in Call
  PROVE  Fit(call[b])
<1>1. /\ made \in Nat /\ made' \in Nat /\ 1..made \subseteq 1..made' /\ 1..made \subseteq Download
  BY BoundAssumption DEF DownTypes, Download
<1>2. call[b] \in Calls
  BY DEF CallTypes
<1>. QED BY <1>1, <1>2 DEF Fit, CallsHold

\* A call that is put in a fitting record leaves the rest as it was.
LEMMA RecallKeeps ==
  ASSUME CallTypes, CallsHold, DownTypes, DownTypes', made \leq made',
         \A i \in Download : downs[i].destroyed => downs'[i].destroyed,
         NEW c \in Call, NEW r, Fit(r), Recall(c, r)
  PROVE  /\ CallTypes' /\ call'[c] = r /\ \A b \in Call \ {c} : call'[b] = call[b]
         /\ \A b \in Call : Fit(call'[b])
<1>1. call \in [Call -> Calls] /\ call' = [call EXCEPT ![c] = r] /\ r \in Calls
  BY DEF CallTypes, Fit, Recall
<1>2. call' \in [Call -> Calls] /\ call'[c] = r /\ \A b \in Call \ {c} : call'[b] = call[b]
  BY <1>1
<1>3. CallTypes'
  BY <1>2 DEF CallTypes, Recall, Asking, Calls
<1>. QED BY <1>2, <1>3, StillFit

\* A reset that restores goes on until its call has returned.
Restores == reset' = "restoring" \/ call'[Restore].at = "idle"
LEMMA RestoringStays ==
  ASSUME CallTypes, reset = "restoring", [Next]_vars
  PROVE  Restores
<1>. USE DEF lishVars, flagVars, downVars, netVars, resetVars, callVars, taskVars, recoveryVars
<1>1. ASSUME NEW c \in Call, Enter(c) PROVE Restores
  BY <1>1 DEF Enter, None, Idle, Restores
<1>2. ASSUME NEW u \in User, UserAnswered(u) PROVE Restores
  BY <1>2 DEF UserAnswered, Idle, None, Restores
<1>3. ASSUME NEW a \in Attempt, AttemptAnswered(a) PROVE Restores
  BY <1>3 DEF AttemptAnswered, Idle, NoAttempt, None, Restores
<1>4. CASE RejoinAnswered
  BY <1>4 DEF RejoinAnswered, Idle, None, Restores
<1>5. CASE RestoreAnswered
  <2>1. call'[Restore] = Idle
    BY <1>5 DEF RestoreAnswered, CallTypes, Call
  <2>. QED BY <2>1 DEF Idle, Restores
<1>6. ASSUME NEW c \in Call, Replaced(c) PROVE Restores
  BY <1>6 DEF Replaced, Restores
<1>7. ASSUME NEW c \in Call, Resumes(c) PROVE Restores
  BY <1>7 DEF Resumes, EnableSucceeds, EnableFails, Restores
<1>8. ASSUME NEW c \in Call, DiskChecked(c) PROVE Restores
  BY <1>8 DEF DiskChecked, ToAccess, Belong, None, Restores
<1>9. ASSUME NEW c \in Call, Accessed(c) PROVE Restores
  BY <1>9 DEF Accessed, EnableFails, Restores
<1>10. ASSUME NEW c \in Call, Starts(c) PROVE Restores
  BY <1>10 DEF Starts, EnableSucceeds, EnableFails, Restores
<1>11. ASSUME NEW i \in Download, Works(i) PROVE Restores
  BY <1>11 DEF Works, Restores
<1>12. ASSUME NEW i \in Download, Ends(i) PROVE Restores
  BY <1>12 DEF Ends, Restores
<1>13. ASSUME NEW i \in Download, Cleaned(i) PROVE Restores
  BY <1>13 DEF Cleaned, Restores
<1>14. CASE RecoveryStep
  BY <1>14 DEF RecoveryStep, Restores
<1>15. CASE Removed \/ Erased
  BY <1>15 DEF Removed, Erased, None, NoRemoval, Restores
<1>16. CASE Paused
  BY <1>16 DEF Paused, None, Restores
<1>17. CASE Torn
  BY <1>17 DEF Torn, None, Restores
<1>18. CASE LifecyclesEnd
  BY <1>18 DEF LifecyclesEnd, Restores
<1>19. CASE Drained
  BY <1>19 DEF Drained, Restores
<1>20. ASSUME NEW a \in Attempt, AttemptEnables(a) PROVE Restores
  BY <1>20 DEF AttemptEnables, Idle, None, Restores
<1>21. ASSUME NEW wipe \in BOOLEAN, NEW left \in SUBSET joined, Restarted(wipe, left) PROVE Restores
  BY <1>21 DEF Restarted, Restores
<1>22. CASE RestoreAll
  <2>1. call[Restore].at = "idle"
    BY <1>22 DEF RestoreAll
  <2>. QED BY <1>22, <2>1 DEF RestoreAll, Restores
<1>23. CASE Revived
  BY <1>23 DEF Revived, Restores
<1>24. CASE ResumeAll
  BY <1>24 DEF ResumeAll, Restores
<1>25. ASSUME NEW u \in User, UserEnables(u) PROVE Restores
  BY <1>25 DEF UserEnables, Idle, None, Restores
<1>26. CASE DisableDownload
  BY <1>26 DEF DisableDownload, None, Restores
<1>27. CASE Remove \/ DeleteData
  BY <1>27 DEF Remove, DeleteData, Destroying, None, Restores
<1>28. CASE ToggleBusy
  BY <1>28 DEF ToggleBusy, Call, Idle, None, Restores
<1>29. CASE EnableUpload
  BY <1>29 DEF EnableUpload, Restores
<1>30. CASE DisableUpload
  BY <1>30 DEF DisableUpload, Restores
<1>31. CASE UploadFails
  BY <1>31 DEF UploadFails, Restores
<1>32. ASSUME NEW n \in Net, Leave(n) PROVE Restores
  BY <1>32 DEF Leave, None, Restores
<1>33. ASSUME NEW n \in Net, Join(n) PROVE Restores
  BY <1>33 DEF Join, None, Idle, Restores
<1>34. CASE PauseAll
  BY <1>34 DEF PauseAll, Restores
<1>35. CASE UNCHANGED vars
  BY <1>35 DEF vars, Restores
<1>. QED BY <1>1, <1>2, <1>3, <1>4, <1>5, <1>6, <1>7, <1>8, <1>9, <1>10, <1>11, <1>12, <1>13, <1>14,
          <1>15, <1>16, <1>17, <1>18, <1>19, <1>20, <1>21, <1>22, <1>23, <1>24, <1>25, <1>26, <1>27,
          <1>28, <1>29, <1>30, <1>31, <1>32, <1>33, <1>34, <1>35
       DEF Next, Continue, Returning, Called

\* The calls keep what holds of them.
LEMMA CallsStep ==
  ASSUME RecoveryTypeOK, OneTry, FlagTypes, DownTypes, CallTypes, CallsHold, DownsHold, [Next]_vars
  PROVE  CallTypes' /\ CallsHold'
<1>1. /\ DownTypes' /\ made \leq made'
      /\ \A i \in Download : downs[i].destroyed => downs'[i].destroyed
  BY DownsStep
<1>2. CallMoves
  BY CallSteps
<1>3. \A b \in Call : Fit(call[b])
  BY <1>1, StillFit
\* Who is at work after the step was so before, or the step says who it is.
<1>4. /\ CallTypes' /\ \A b \in Call : Fit(call'[b])
      /\ \A b \in Call : call[b].at = "idle" /\ call'[b].at # "idle" =>
           \/ b \in User \cup {Rejoin}
           \/ b \in Attempt /\ AttemptEnables(b)
           \/ b = Restore /\ reset' = "restoring"
  <2>1. CASE UNCHANGED callVars
    BY <1>3, <2>1 DEF callVars, CallTypes, Calls, Asking
  <2>2. ASSUME NEW c \in Call, NEW r, Fit(r), Recall(c, r),
               \/ call[c].at # "idle" \/ c \in User \cup {Rejoin}
               \/ c \in Attempt /\ AttemptEnables(c)
               \/ c = Restore /\ reset' = "restoring"
        PROVE  /\ CallTypes' /\ \A b \in Call : Fit(call'[b])
               /\ \A b \in Call : call[b].at = "idle" /\ call'[b].at # "idle" =>
                    \/ b \in User \cup {Rejoin}
                    \/ b \in Attempt /\ AttemptEnables(b)
                    \/ b = Restore /\ reset' = "restoring"
    <3>1. /\ CallTypes' /\ call'[c] = r /\ \A b \in Call \ {c} : call'[b] = call[b]
          /\ \A b \in Call : Fit(call'[b])
      BY <1>1, <2>2, RecallKeeps
    <3>. QED BY <2>2, <3>1
  <2>3. ASSUME NEW c \in Call, Goes(c), call[c].at # "idle" \/ c \in User \cup {Rejoin}
        PROVE  \E r : Fit(r) /\ Recall(c, r)
    BY <1>1, <2>3, GoesFit DEF Goes
  <2>4. ASSUME NEW c \in Call, Goes(c)
        PROVE  \E r : Fit(r) /\ Recall(c, r)
    BY <1>1, <2>4, GoesFit DEF Goes
  <2>5. CASE \E c \in Call : Goes(c) /\ (call[c].at # "idle" \/ c \in User \cup {Rejoin})
    BY <2>2, <2>4, <2>5
  <2>6. CASE \E a \in Attempt : Goes(a) /\ AttemptEnables(a)
    <3>1. Attempt \subseteq Call
      BY DEF Call
    <3>. QED BY <2>2, <2>4, <2>6, <3>1
  <2>7. CASE /\ reset = "restoring" /\ reset' = reset
             /\ \/ Goes(Restore)
                \/ \E S \in SUBSET Net : Recall(Restore, [at |-> "reviving", down |-> None, use |-> S \cap joined, belong |-> S])
    <3>1. Restore \in Call
      BY DEF Call
    <3>2. ASSUME NEW S \in SUBSET Net
          PROVE  Fit([at |-> "reviving", down |-> None, use |-> S \cap joined, belong |-> S])
      <4>1. S \cap joined \in SUBSET Net
        OBVIOUS
      <4>2. [at |-> "reviving", down |-> None, use |-> S \cap joined, belong |-> S] \in Calls
        BY <4>1, CallRecords
      <4>. QED BY <4>2 DEF Fit
    <3>3. \E r : Fit(r) /\ Recall(Restore, r)
      BY <2>4, <2>7, <3>1, <3>2
    <3>. QED BY <2>2, <2>7, <3>1, <3>3
  <2>8. CASE call' = Reminded /\ UNCHANGED pending
    <3>1. [Idle EXCEPT !.at = "called"] \in Calls /\ [Idle EXCEPT !.at = "called"].at = "called"
          /\ [Idle EXCEPT !.at = "called"].use = {}
      BY PlaceNames, CallRecords
    <3>2. Fit([Idle EXCEPT !.at = "called"])
      BY <3>1 DEF Fit
    <3>3. ASSUME NEW b \in Call
          PROVE  \/ call'[b] = call[b]
                 \/ b \in User /\ call[b].at = "idle" /\ call'[b] = [Idle EXCEPT !.at = "called"]
      BY <2>8 DEF Reminded
    <3>4. call' \in [Call -> Calls]
      <4>1. \A b \in Call : Reminded[b] \in Calls
        BY <3>1 DEF Reminded, CallTypes
      <4>. QED BY <2>8, <4>1 DEF Reminded
    <3>5. ASSUME NEW b \in Call
          PROVE  Asking(call'[b]) <=> Asking(call[b])
      BY <3>1, <3>3 DEF Asking
    <3>6. pending' = \E b \in Call : Asking(call'[b])
      BY <2>8, <3>5 DEF CallTypes
    <3>7. CallTypes'
      BY <3>4, <3>6 DEF CallTypes, Asking, Calls
    <3>. QED BY <1>3, <3>2, <3>3, <3>7
  <2>. QED BY <1>2, <2>1, <2>5, <2>6, <2>7, <2>8 DEF CallMoves
<1>5. ASSUME NEW a \in Attempt, call'[a].at # "idle"
      PROVE  attempt'[a].at = "recover"
  <2>0. a \in Call /\ a \notin User \cup {Rejoin} /\ a # Restore
    BY CallsAssumption DEF Call
  <2>1. CASE AttemptEnables(a)
    BY <2>1, AttemptsKeep
  <2>2. CASE ~AttemptEnables(a)
    <3>1. call[a].at # "idle" /\ attempt[a].at = "recover"
      BY <1>4, <1>5, <2>0, <2>2 DEF CallsHold
    <3>2. ~AttemptAnswered(a)
      <4>1. AttemptAnswered(a) => call'[a] = Idle
        BY <2>0 DEF AttemptAnswered, CallTypes
      <4>. QED BY <1>5, <4>1 DEF Idle
    <3>3. CASE \E b \in Attempt : AttemptEnables(b) \/ AttemptAnswered(b)
      BY <2>2, <3>1, <3>2, <3>3, AttemptsKeep
    <3>. QED BY <3>1, <3>3, RecoverySteps, RecoveryKeeps
  <2>. QED BY <2>1, <2>2
<1>6. ASSUME call'[Restore].at # "idle"
      PROVE  reset' = "restoring"
  <2>0. Restore \in Call /\ Restore \notin User \cup {Rejoin} /\ Restore \notin Attempt
    BY CallsAssumption DEF Call
  <2>1. CASE call[Restore].at = "idle"
    BY <1>4, <1>6, <2>0, <2>1
  <2>2. CASE call[Restore].at # "idle"
    BY <1>6, <2>2, RestoringStays DEF CallsHold, Restores
  <2>. QED BY <2>1, <2>2
<1>. QED BY <1>4, <1>5, <1>6 DEF Fit, CallsHold, Calls

-----------------------------------------------------------------------------
(* The factory reset *)

\* The gate is shut from the pause to the end, and no removal is under way behind it.
Shut == /\ reset \notin {"no", "done"} => closed
        /\ closed => removing.at = "no"

\* From the pause on no call is anywhere but before its first await or on its way out.
After == {"clearing", "waiting", "draining", "cleared"}
Outside(c) == call[c].at \in {"idle", "called", "no"} \/ (c \in Attempt /\ call[c].at = "yes")

AllOutside == reset \in After => \A c \in Call : Outside(c)

\* What each step of clearing the transfers leaves behind.
Cleared ==
  /\ AllOutside
  /\ reset = "clearing" /\ registry # None => downs[registry].destroyed
  /\ reset \in {"waiting", "draining", "cleared"} => registry = None
  /\ reset \in {"draining", "cleared"} => lifecycles = {} /\ ~enabled /\ ~suspended.on /\ ~entry.on
  /\ reset = "cleared" => ~InFlight

\* The gate stays shut.
LEMMA ShutStep ==
  ASSUME CallsHold, Shut, [Next]_vars
  PROVE  Shut'
<1>. USE DEF lishVars, flagVars, downVars, netVars, resetVars, callVars, taskVars, recoveryVars
<1>1. ASSUME NEW c \in Call, Enter(c) PROVE Shut'
  BY <1>1 DEF Enter, None, Idle, Shut
<1>2. ASSUME NEW u \in User, UserAnswered(u) PROVE Shut'
  BY <1>2 DEF UserAnswered, Idle, None, Shut
<1>3. ASSUME NEW a \in Attempt, AttemptAnswered(a) PROVE Shut'
  BY <1>3 DEF AttemptAnswered, Idle, NoAttempt, None, Shut
<1>4. CASE RejoinAnswered
  BY <1>4 DEF RejoinAnswered, Idle, None, Shut
<1>5. CASE RestoreAnswered
  BY <1>5 DEF RestoreAnswered, CallsHold, Shut
<1>6. ASSUME NEW c \in Call, Replaced(c) PROVE Shut'
  BY <1>6 DEF Replaced, Shut
<1>7. ASSUME NEW c \in Call, Resumes(c) PROVE Shut'
  BY <1>7 DEF Resumes, Shut
<1>8. ASSUME NEW c \in Call, DiskChecked(c) PROVE Shut'
  BY <1>8 DEF DiskChecked, Shut
<1>9. ASSUME NEW c \in Call, Accessed(c) PROVE Shut'
  BY <1>9 DEF Accessed, Shut
<1>10. ASSUME NEW c \in Call, Starts(c) PROVE Shut'
  BY <1>10 DEF Starts, Shut
<1>11. ASSUME NEW i \in Download, Works(i) PROVE Shut'
  BY <1>11 DEF Works, Shut
<1>12. ASSUME NEW i \in Download, Ends(i) PROVE Shut'
  BY <1>12 DEF Ends, Shut
<1>13. ASSUME NEW i \in Download, Cleaned(i) PROVE Shut'
  BY <1>13 DEF Cleaned, Shut
<1>14. CASE RecoveryStep
  BY <1>14 DEF RecoveryStep, Shut
<1>15. CASE Removed \/ Erased
  BY <1>15 DEF Removed, Erased, None, NoRemoval, Shut
<1>16. CASE Paused
  BY <1>16 DEF Paused, None, Shut
<1>17. CASE Torn
  BY <1>17 DEF Torn, None, Shut
<1>18. CASE LifecyclesEnd
  BY <1>18 DEF LifecyclesEnd, Shut
<1>19. CASE Drained
  BY <1>19 DEF Drained, Shut
<1>20. ASSUME NEW a \in Attempt, AttemptEnables(a) PROVE Shut'
  BY <1>20 DEF AttemptEnables, Idle, None, Shut
<1>21. ASSUME NEW wipe \in BOOLEAN, NEW left \in SUBSET joined, Restarted(wipe, left) PROVE Shut'
  BY <1>21 DEF Restarted, Shut
<1>22. CASE RestoreAll
  BY <1>22 DEF RestoreAll, Idle, None, Shut
<1>23. CASE Revived
  BY <1>23 DEF Revived, Shut
<1>24. CASE ResumeAll
  BY <1>24 DEF ResumeAll, Shut
<1>25. ASSUME NEW u \in User, UserEnables(u) PROVE Shut'
  BY <1>25 DEF UserEnables, Idle, None, Shut
<1>26. CASE DisableDownload
  BY <1>26 DEF DisableDownload, None, Shut
<1>27. CASE Remove \/ DeleteData
  BY <1>27 DEF Remove, DeleteData, Destroying, None, Shut
<1>28. CASE ToggleBusy
  BY <1>28 DEF ToggleBusy, Call, Idle, None, Shut
<1>29. CASE EnableUpload
  BY <1>29 DEF EnableUpload, Shut
<1>30. CASE DisableUpload
  BY <1>30 DEF DisableUpload, Shut
<1>31. CASE UploadFails
  BY <1>31 DEF UploadFails, Shut
<1>32. ASSUME NEW n \in Net, Leave(n) PROVE Shut'
  BY <1>32 DEF Leave, None, Shut
<1>33. ASSUME NEW n \in Net, Join(n) PROVE Shut'
  BY <1>33 DEF Join, None, Idle, Shut
<1>34. CASE PauseAll
  BY <1>34 DEF PauseAll, Shut
<1>35. CASE UNCHANGED vars
  BY <1>35 DEF vars, Shut
<1>. QED BY <1>1, <1>2, <1>3, <1>4, <1>5, <1>6, <1>7, <1>8, <1>9, <1>10, <1>11, <1>12, <1>13, <1>14,
          <1>15, <1>16, <1>17, <1>18, <1>19, <1>20, <1>21, <1>22, <1>23, <1>24, <1>25, <1>26, <1>27,
          <1>28, <1>29, <1>30, <1>31, <1>32, <1>33, <1>34, <1>35
       DEF Next, Continue, Returning, Called

\* Where the reset comes from.
ResetGoes ==
  \/ reset' = reset
  \/ reset = "pausing" /\ Paused
  \/ reset = "clearing" /\ Torn
  \/ reset = "waiting" /\ LifecyclesEnd
  \/ reset = "draining" /\ Drained
  \/ reset' \notin After
\* It goes on where it was, or nobody waits for what it has cleared.
LEMMA ResetMoves ==
  ASSUME CallsHold, [Next]_vars
  PROVE  ResetGoes
<1>. USE DEF lishVars, flagVars, downVars, netVars, resetVars, callVars, taskVars, recoveryVars
<1>1. ASSUME NEW c \in Call, Enter(c) PROVE ResetGoes
  BY <1>1 DEF Enter, None, Idle, After, ResetGoes
<1>2. ASSUME NEW u \in User, UserAnswered(u) PROVE ResetGoes
  BY <1>2 DEF UserAnswered, Idle, None, After, ResetGoes
<1>3. ASSUME NEW a \in Attempt, AttemptAnswered(a) PROVE ResetGoes
  BY <1>3 DEF AttemptAnswered, Idle, NoAttempt, None, After, ResetGoes
<1>4. CASE RejoinAnswered
  BY <1>4 DEF RejoinAnswered, Idle, None, After, ResetGoes
<1>5. CASE RestoreAnswered
  BY <1>5 DEF RestoreAnswered, Idle, None, After, ResetGoes
<1>6. ASSUME NEW c \in Call, Replaced(c) PROVE ResetGoes
  BY <1>6 DEF Replaced, After, ResetGoes
<1>7. ASSUME NEW c \in Call, Resumes(c) PROVE ResetGoes
  BY <1>7 DEF Resumes, After, ResetGoes
<1>8. ASSUME NEW c \in Call, DiskChecked(c) PROVE ResetGoes
  BY <1>8 DEF DiskChecked, After, ResetGoes
<1>9. ASSUME NEW c \in Call, Accessed(c) PROVE ResetGoes
  BY <1>9 DEF Accessed, After, ResetGoes
<1>10. ASSUME NEW c \in Call, Starts(c) PROVE ResetGoes
  BY <1>10 DEF Starts, After, ResetGoes
<1>11. ASSUME NEW i \in Download, Works(i) PROVE ResetGoes
  BY <1>11 DEF Works, After, ResetGoes
<1>12. ASSUME NEW i \in Download, Ends(i) PROVE ResetGoes
  BY <1>12 DEF Ends, After, ResetGoes
<1>13. ASSUME NEW i \in Download, Cleaned(i) PROVE ResetGoes
  BY <1>13 DEF Cleaned, After, ResetGoes
<1>14. CASE RecoveryStep
  BY <1>14 DEF RecoveryStep, After, ResetGoes
<1>15. CASE Removed \/ Erased
  BY <1>15 DEF Removed, Erased, None, NoRemoval, After, ResetGoes
<1>16. CASE Paused
  BY <1>16 DEF ResetGoes, Paused
<1>17. CASE Torn
  BY <1>17 DEF ResetGoes, Torn
<1>18. CASE LifecyclesEnd
  BY <1>18 DEF ResetGoes, LifecyclesEnd
<1>19. CASE Drained
  BY <1>19 DEF ResetGoes, Drained
<1>20. ASSUME NEW a \in Attempt, AttemptEnables(a) PROVE ResetGoes
  BY <1>20 DEF AttemptEnables, Idle, None, After, ResetGoes
<1>21. ASSUME NEW wipe \in BOOLEAN, NEW left \in SUBSET joined, Restarted(wipe, left) PROVE ResetGoes
  BY <1>21 DEF Restarted, After, ResetGoes
<1>22. CASE RestoreAll
  BY <1>22 DEF RestoreAll, Idle, None, After, ResetGoes
<1>23. CASE Revived
  BY <1>23 DEF Revived, After, ResetGoes
<1>24. CASE ResumeAll
  BY <1>24 DEF ResumeAll, After, ResetGoes
<1>25. ASSUME NEW u \in User, UserEnables(u) PROVE ResetGoes
  BY <1>25 DEF UserEnables, Idle, None, After, ResetGoes
<1>26. CASE DisableDownload
  BY <1>26 DEF DisableDownload, None, After, ResetGoes
<1>27. CASE Remove \/ DeleteData
  BY <1>27 DEF Remove, DeleteData, Destroying, None, After, ResetGoes
<1>28. CASE ToggleBusy
  BY <1>28 DEF ToggleBusy, Call, Idle, None, After, ResetGoes
<1>29. CASE EnableUpload
  BY <1>29 DEF EnableUpload, After, ResetGoes
<1>30. CASE DisableUpload
  BY <1>30 DEF DisableUpload, After, ResetGoes
<1>31. CASE UploadFails
  BY <1>31 DEF UploadFails, After, ResetGoes
<1>32. ASSUME NEW n \in Net, Leave(n) PROVE ResetGoes
  BY <1>32 DEF Leave, None, After, ResetGoes
<1>33. ASSUME NEW n \in Net, Join(n) PROVE ResetGoes
  BY <1>33 DEF Join, None, Idle, After, ResetGoes
<1>34. CASE PauseAll
  BY <1>34 DEF PauseAll, After, ResetGoes
<1>35. CASE UNCHANGED vars
  BY <1>35 DEF vars, After, ResetGoes
<1>. QED BY <1>1, <1>2, <1>3, <1>4, <1>5, <1>6, <1>7, <1>8, <1>9, <1>10, <1>11, <1>12, <1>13, <1>14,
          <1>15, <1>16, <1>17, <1>18, <1>19, <1>20, <1>21, <1>22, <1>23, <1>24, <1>25, <1>26, <1>27,
          <1>28, <1>29, <1>30, <1>31, <1>32, <1>33, <1>34, <1>35
       DEF Next, Continue, Returning, Called

\* Nobody comes in behind it.
LEMMA OutsideStep ==
  ASSUME CallTypes, CallsHold, Shut, AllOutside, [Next]_vars
  PROVE  AllOutside'
<1>. USE DEF lishVars, flagVars, downVars, netVars, resetVars, callVars, taskVars, recoveryVars
<1>0. reset \in After => closed /\ reset # "restoring" /\ call[Restore].at = "idle" /\ \A c \in Call : Outside(c)
  BY DEF Shut, After, CallsHold, AllOutside
<1>1. ASSUME NEW c \in Call, Enter(c) PROVE AllOutside'
  <2>1. CASE /\ Answer(c, FALSE) /\ UNCHANGED reset
    <3>1. call' = [call EXCEPT ![c] = [Idle EXCEPT !.at = "no"]]
      BY <2>1 DEF Answer, To
    <3>2. [Idle EXCEPT !.at = "no"].at = "no"
      BY PlaceNames, CallRecords
    <3>. QED BY <1>0, <2>1, <3>1, <3>2 DEF AllOutside, Outside, CallTypes
  <2>2. CASE ~(busy \/ (closed /\ c # Restore)) /\ UNCHANGED reset
    BY <1>1, <1>0, <2>2 DEF Enter, After, AllOutside
  <2>. QED BY <1>1, <2>1, <2>2 DEF Enter
<1>2. ASSUME NEW u \in User, UserAnswered(u) PROVE AllOutside'
  <2>1. /\ call' = [call EXCEPT ![u] = [Idle EXCEPT !.at = "idle"]] /\ UNCHANGED reset
        /\ [Idle EXCEPT !.at = "idle"].at = "idle"
    BY <1>2, PlaceNames, CallRecords DEF UserAnswered
  <2>. QED BY <1>0, <2>1 DEF AllOutside, Outside, CallTypes
<1>3. ASSUME NEW a \in Attempt, AttemptAnswered(a) PROVE AllOutside'
  <2>1. /\ call' = [call EXCEPT ![a] = [Idle EXCEPT !.at = "idle"]] /\ UNCHANGED reset
        /\ [Idle EXCEPT !.at = "idle"].at = "idle"
    BY <1>3, PlaceNames, CallRecords DEF AttemptAnswered
  <2>. QED BY <1>0, <2>1 DEF AllOutside, Outside, CallTypes
<1>4. CASE RejoinAnswered
  <2>1. /\ call' = [call EXCEPT ![Rejoin] = [Idle EXCEPT !.at = "idle"]] /\ UNCHANGED reset
        /\ [Idle EXCEPT !.at = "idle"].at = "idle"
    BY <1>4, PlaceNames, CallRecords DEF RejoinAnswered
  <2>. QED BY <1>0, <2>1 DEF AllOutside, Outside, CallTypes
<1>5. CASE RestoreAnswered
  BY <1>5, <1>0 DEF RestoreAnswered, After, AllOutside
<1>6. ASSUME NEW c \in Call, Replaced(c) PROVE AllOutside'
  <2>1. ~Outside(c) /\ UNCHANGED reset
    BY <1>6 DEF Replaced, Outside
  <2>. QED BY <1>0, <2>1 DEF AllOutside
<1>7. ASSUME NEW c \in Call, Resumes(c) PROVE AllOutside'
  <2>1. ~Outside(c) /\ UNCHANGED reset
    BY <1>7 DEF Resumes, Outside
  <2>. QED BY <1>0, <2>1 DEF AllOutside
<1>8. ASSUME NEW c \in Call, DiskChecked(c) PROVE AllOutside'
  <2>1. ~Outside(c) /\ UNCHANGED reset
    BY <1>8 DEF DiskChecked, Outside
  <2>. QED BY <1>0, <2>1 DEF AllOutside
<1>9. ASSUME NEW c \in Call, Accessed(c) PROVE AllOutside'
  <2>1. ~Outside(c) /\ UNCHANGED reset
    BY <1>9 DEF Accessed, Outside
  <2>. QED BY <1>0, <2>1 DEF AllOutside
<1>10. ASSUME NEW c \in Call, Starts(c) PROVE AllOutside'
  <2>1. ~Outside(c) /\ UNCHANGED reset
    BY <1>10 DEF Starts, Outside
  <2>. QED BY <1>0, <2>1 DEF AllOutside
<1>11. ASSUME NEW i \in Download, Works(i) PROVE AllOutside'
  BY <1>11 DEF Works, AllOutside, After, Outside
<1>12. ASSUME NEW i \in Download, Ends(i) PROVE AllOutside'
  BY <1>12 DEF Ends, AllOutside, After, Outside
<1>13. ASSUME NEW i \in Download, Cleaned(i) PROVE AllOutside'
  BY <1>13 DEF Cleaned, AllOutside, After, Outside
<1>14. CASE RecoveryStep
  BY <1>14 DEF RecoveryStep, AllOutside, After, Outside
<1>15. CASE Removed \/ Erased
  BY <1>15 DEF Removed, Erased, None, NoRemoval, AllOutside, After, Outside
<1>16. CASE Paused
  BY <1>16 DEF AllOutside, Paused, Inside, Outside
<1>17. CASE Torn
  BY <1>17 DEF Torn, None, AllOutside, After, Outside
<1>18. CASE LifecyclesEnd
  BY <1>18 DEF LifecyclesEnd, AllOutside, After, Outside
<1>19. CASE Drained
  BY <1>19 DEF Drained, AllOutside, After, Outside
<1>20. ASSUME NEW a \in Attempt, AttemptEnables(a) PROVE AllOutside'
  <2>1. PICK x \in {"called", "yes"} : call' = [call EXCEPT ![a] = [Idle EXCEPT !.at = x]]
    BY <1>20 DEF AttemptEnables
  <2>2. UNCHANGED reset /\ x \in Places
    BY <1>20, PlaceNames DEF AttemptEnables
  <2>3. [Idle EXCEPT !.at = x].at = x
    BY <2>2, CallRecords
  <2>. QED BY <1>0, <2>1, <2>2, <2>3 DEF AllOutside, Outside, CallTypes
<1>21. ASSUME NEW wipe \in BOOLEAN, NEW left \in SUBSET joined, Restarted(wipe, left) PROVE AllOutside'
  BY <1>21 DEF Restarted, AllOutside, After, Outside
<1>22. CASE RestoreAll
  BY <1>22, <1>0 DEF RestoreAll, After, AllOutside
<1>23. CASE Revived
  BY <1>23, <1>0 DEF Revived, After, AllOutside
<1>24. CASE ResumeAll
  BY <1>24 DEF ResumeAll, AllOutside, After, Outside
<1>25. ASSUME NEW u \in User, UserEnables(u) PROVE AllOutside'
  <2>1. /\ call' = [call EXCEPT ![u] = [Idle EXCEPT !.at = "called"]] /\ UNCHANGED reset
        /\ [Idle EXCEPT !.at = "called"].at = "called"
    BY <1>25, PlaceNames, CallRecords DEF UserEnables
  <2>. QED BY <1>0, <2>1 DEF AllOutside, Outside, CallTypes
<1>26. CASE DisableDownload
  BY <1>26 DEF DisableDownload, None, AllOutside, After, Outside
<1>27. CASE Remove \/ DeleteData
  BY <1>27 DEF Remove, DeleteData, Destroying, None, AllOutside, After, Outside
<1>28. CASE ToggleBusy
  <2>1. UNCHANGED reset /\ (call' = call \/ call' = Reminded) /\ [Idle EXCEPT !.at = "called"].at = "called"
    BY <1>28, PlaceNames, CallRecords DEF ToggleBusy, Reminded
  <2>. QED BY <1>0, <2>1 DEF AllOutside, Outside, Reminded
<1>29. CASE EnableUpload
  BY <1>29 DEF EnableUpload, AllOutside, After, Outside
<1>30. CASE DisableUpload
  BY <1>30 DEF DisableUpload, AllOutside, After, Outside
<1>31. CASE UploadFails
  BY <1>31 DEF UploadFails, AllOutside, After, Outside
<1>32. ASSUME NEW n \in Net, Leave(n) PROVE AllOutside'
  BY <1>32 DEF Leave, None, AllOutside, After, Outside
<1>33. ASSUME NEW n \in Net, Join(n) PROVE AllOutside'
  <2>1. UNCHANGED reset /\ (call' = call \/ call' = [call EXCEPT ![Rejoin] = [Idle EXCEPT !.at = "called"]])
        /\ [Idle EXCEPT !.at = "called"].at = "called"
    BY <1>33, PlaceNames, CallRecords DEF Join
  <2>. QED BY <1>0, <2>1 DEF AllOutside, Outside, CallTypes
<1>34. CASE PauseAll
  BY <1>34 DEF PauseAll, AllOutside, After, Outside
<1>35. CASE UNCHANGED vars
  BY <1>35 DEF vars, AllOutside, After, Outside
<1>. QED BY <1>1, <1>2, <1>3, <1>4, <1>5, <1>6, <1>7, <1>8, <1>9, <1>10, <1>11, <1>12, <1>13, <1>14,
          <1>15, <1>16, <1>17, <1>18, <1>19, <1>20, <1>21, <1>22, <1>23, <1>24, <1>25, <1>26, <1>27,
          <1>28, <1>29, <1>30, <1>31, <1>32, <1>33, <1>34, <1>35
       DEF Next, Continue, Returning, Called

\* Behind the gate nothing is registered any more.
Unregisters == (registry' = registry \/ registry' = None) /\ lifecycles' \subseteq lifecycles
LEMMA RegistryStays ==
  ASSUME CallsHold, Shut, reset \in After, AllOutside, [Next]_vars
  PROVE  Unregisters
<1>. USE DEF lishVars, flagVars, downVars, netVars, resetVars, callVars, taskVars, recoveryVars
<1>0. closed /\ reset # "restoring" /\ call[Restore].at = "idle" /\ \A c \in Call : Outside(c)
  BY DEF Shut, After, CallsHold, AllOutside
<1>1. ASSUME NEW c \in Call, Enter(c) PROVE Unregisters
  BY <1>1 DEF Enter, None, Idle, Unregisters
<1>2. ASSUME NEW u \in User, UserAnswered(u) PROVE Unregisters
  BY <1>2 DEF UserAnswered, Idle, None, Unregisters
<1>3. ASSUME NEW a \in Attempt, AttemptAnswered(a) PROVE Unregisters
  BY <1>3 DEF AttemptAnswered, Idle, NoAttempt, None, Unregisters
<1>4. CASE RejoinAnswered
  BY <1>4 DEF RejoinAnswered, Idle, None, Unregisters
<1>5. CASE RestoreAnswered
  BY <1>5, <1>0 DEF RestoreAnswered, Unregisters
<1>6. ASSUME NEW c \in Call, Replaced(c) PROVE Unregisters
  BY <1>6, <1>0 DEF Replaced, Outside, Unregisters
<1>7. ASSUME NEW c \in Call, Resumes(c) PROVE Unregisters
  BY <1>7, <1>0 DEF Resumes, Outside, Unregisters
<1>8. ASSUME NEW c \in Call, DiskChecked(c) PROVE Unregisters
  BY <1>8, <1>0 DEF DiskChecked, Outside, Unregisters
<1>9. ASSUME NEW c \in Call, Accessed(c) PROVE Unregisters
  BY <1>9, <1>0 DEF Accessed, Outside, Unregisters
<1>10. ASSUME NEW c \in Call, Starts(c) PROVE Unregisters
  BY <1>10, <1>0 DEF Starts, Outside, Unregisters
<1>11. ASSUME NEW i \in Download, Works(i) PROVE Unregisters
  BY <1>11 DEF Works, Unregisters
<1>12. ASSUME NEW i \in Download, Ends(i) PROVE Unregisters
  BY <1>12 DEF Ends, Unregister, None, Unregisters
<1>13. ASSUME NEW i \in Download, Cleaned(i) PROVE Unregisters
  BY <1>13 DEF Cleaned, Unregister, None, Unregisters
<1>14. CASE RecoveryStep
  BY <1>14 DEF RecoveryStep, Unregisters
<1>15. CASE Removed \/ Erased
  BY <1>15 DEF Removed, Erased, None, NoRemoval, Unregisters
<1>16. CASE Paused
  BY <1>16 DEF Paused, None, Unregisters
<1>17. CASE Torn
  BY <1>17 DEF Torn, None, Unregisters
<1>18. CASE LifecyclesEnd
  BY <1>18 DEF LifecyclesEnd, Unregisters
<1>19. CASE Drained
  BY <1>19 DEF Drained, Unregisters
<1>20. ASSUME NEW a \in Attempt, AttemptEnables(a) PROVE Unregisters
  BY <1>20 DEF AttemptEnables, Idle, None, Unregisters
<1>21. ASSUME NEW wipe \in BOOLEAN, NEW left \in SUBSET joined, Restarted(wipe, left) PROVE Unregisters
  BY <1>21 DEF Restarted, Unregisters
<1>22. CASE RestoreAll
  BY <1>22, <1>0 DEF RestoreAll, Unregisters
<1>23. CASE Revived
  BY <1>23, <1>0 DEF Revived, Unregisters
<1>24. CASE ResumeAll
  BY <1>24 DEF ResumeAll, Unregisters
<1>25. ASSUME NEW u \in User, UserEnables(u) PROVE Unregisters
  BY <1>25 DEF UserEnables, Idle, None, Unregisters
<1>26. CASE DisableDownload
  BY <1>26 DEF DisableDownload, None, Unregisters
<1>27. CASE Remove \/ DeleteData
  BY <1>27 DEF Remove, DeleteData, Destroying, None, Unregisters
<1>28. CASE ToggleBusy
  BY <1>28 DEF ToggleBusy, Call, Idle, None, Unregisters
<1>29. CASE EnableUpload
  BY <1>29 DEF EnableUpload, Unregisters
<1>30. CASE DisableUpload
  BY <1>30 DEF DisableUpload, Unregisters
<1>31. CASE UploadFails
  BY <1>31 DEF UploadFails, Unregisters
<1>32. ASSUME NEW n \in Net, Leave(n) PROVE Unregisters
  BY <1>32 DEF Leave, None, Unregisters
<1>33. ASSUME NEW n \in Net, Join(n) PROVE Unregisters
  BY <1>33 DEF Join, None, Idle, Unregisters
<1>34. CASE PauseAll
  BY <1>34 DEF PauseAll, Unregisters
<1>35. CASE UNCHANGED vars
  BY <1>35 DEF vars, Unregisters
<1>. QED BY <1>1, <1>2, <1>3, <1>4, <1>5, <1>6, <1>7, <1>8, <1>9, <1>10, <1>11, <1>12, <1>13, <1>14,
          <1>15, <1>16, <1>17, <1>18, <1>19, <1>20, <1>21, <1>22, <1>23, <1>24, <1>25, <1>26, <1>27,
          <1>28, <1>29, <1>30, <1>31, <1>32, <1>33, <1>34, <1>35
       DEF Next, Continue, Returning, Called

\* Once the lifecycles have ended nothing is enabled, suspended or to be recovered.
StaysOff == reset' \in After => ~enabled' /\ ~suspended'.on /\ ~entry'.on
LEMMA OffStays ==
  ASSUME RecoveryTypeOK, CallsHold, Shut, OneTry, reset \in {"draining", "cleared"}, Cleared,
         [Next]_vars
  PROVE  StaysOff
<1>. USE DEF lishVars, flagVars, downVars, netVars, resetVars, callVars, taskVars, recoveryVars
<1>0. /\ closed /\ reset \in After /\ reset # "restoring" /\ call[Restore].at = "idle" /\ \A c \in Call : Outside(c)
      /\ registry = None /\ lifecycles = {} /\ ~enabled /\ ~suspended.on /\ ~entry.on /\ ~entry.timer
  BY DEF Shut, After, CallsHold, Cleared, AllOutside, OneTry
<1>1. ASSUME NEW c \in Call, Enter(c) PROVE StaysOff
  <2>1. c # Restore
    BY <1>1, <1>0 DEF Enter
  <2>. QED BY <1>1, <1>0, <2>1 DEF Enter, StaysOff
<1>2. ASSUME NEW u \in User, UserAnswered(u) PROVE StaysOff
  BY <1>2, <1>0 DEF UserAnswered, Idle, None, StaysOff
<1>3. ASSUME NEW a \in Attempt, AttemptAnswered(a) PROVE StaysOff
  BY <1>3, <1>0 DEF AttemptAnswered, Idle, NoEntry, NoAttempt, Attempted, None, StaysOff
<1>4. CASE RejoinAnswered
  BY <1>4, <1>0 DEF RejoinAnswered, NotSuspended, Idle, None, StaysOff
<1>5. CASE RestoreAnswered
  BY <1>5, <1>0 DEF RestoreAnswered, StaysOff
<1>6. ASSUME NEW c \in Call, Replaced(c) PROVE StaysOff
  BY <1>6, <1>0 DEF Replaced, Outside, StaysOff
<1>7. ASSUME NEW c \in Call, Resumes(c) PROVE StaysOff
  BY <1>7, <1>0 DEF Resumes, Outside, StaysOff
<1>8. ASSUME NEW c \in Call, DiskChecked(c) PROVE StaysOff
  BY <1>8, <1>0 DEF DiskChecked, Outside, StaysOff
<1>9. ASSUME NEW c \in Call, Accessed(c) PROVE StaysOff
  BY <1>9, <1>0 DEF Accessed, Outside, StaysOff
<1>10. ASSUME NEW c \in Call, Starts(c) PROVE StaysOff
  BY <1>10, <1>0 DEF Starts, Outside, StaysOff
<1>11. ASSUME NEW i \in Download, Works(i) PROVE StaysOff
  BY <1>11, <1>0 DEF Works, StaysOff
<1>12. ASSUME NEW i \in Download, Ends(i) PROVE StaysOff
  BY <1>12, <1>0 DEF Ends, StaysOff
<1>13. ASSUME NEW i \in Download, Cleaned(i) PROVE StaysOff
  BY <1>13, <1>0 DEF Cleaned, Unregister, None, StaysOff
<1>14. CASE RecoveryStep
  <2>1. PICK a \in Attempt : AttemptFires(a, stored) \/ DirectoryMade(a) \/ AccessDenied(a)
    BY <1>14 DEF RecoveryStep
  <2>2. entry.on \in BOOLEAN /\ \A b : [entry EXCEPT !.timer = b].on = entry.on
    BY DEF RecoveryTypeOK
  <2>3. ~entry'.on
    BY <1>0, <2>1, <2>2 DEF AttemptFires, DirectoryMade, AccessDenied
  <2>. QED BY <1>14, <1>0, <2>3 DEF RecoveryStep, StaysOff
<1>15. CASE Removed \/ Erased
  BY <1>15, <1>0 DEF Removed, Erased, None, NoRemoval, StaysOff
<1>16. CASE Paused
  BY <1>16, <1>0 DEF Paused, None, StaysOff
<1>17. CASE Torn
  BY <1>17, <1>0 DEF Torn, None, StaysOff
<1>18. CASE LifecyclesEnd
  BY <1>18, <1>0 DEF LifecyclesEnd, NotSuspended, StopRecovery, NoEntry, StaysOff
<1>19. CASE Drained
  BY <1>19, <1>0 DEF Drained, StaysOff
<1>20. ASSUME NEW a \in Attempt, AttemptEnables(a) PROVE StaysOff
  BY <1>20, <1>0 DEF AttemptEnables, AccessGranted, Idle, NoEntry, None, StaysOff
<1>21. ASSUME NEW wipe \in BOOLEAN, NEW left \in SUBSET joined, Restarted(wipe, left) PROVE StaysOff
  BY <1>21 DEF Restarted, After, StaysOff
<1>22. CASE RestoreAll
  BY <1>22, <1>0 DEF RestoreAll, After, StaysOff
<1>23. CASE Revived
  BY <1>23, <1>0 DEF Revived, StaysOff
<1>24. CASE ResumeAll
  BY <1>24, <1>0 DEF ResumeAll, StaysOff
<1>25. ASSUME NEW u \in User, UserEnables(u) PROVE StaysOff
  BY <1>25, <1>0 DEF UserEnables, Idle, None, StaysOff
<1>26. CASE DisableDownload
  BY <1>26, <1>0 DEF DisableDownload, NotSuspended, StopRecovery, None, NoEntry, StaysOff
<1>27. CASE Remove \/ DeleteData
  BY <1>27, <1>0 DEF Remove, DeleteData, Destroying, StopRecovery, NotSuspended, None, NoEntry, StaysOff
<1>28. CASE ToggleBusy
  BY <1>28, <1>0 DEF ToggleBusy, Call, Idle, None, StaysOff
<1>29. CASE EnableUpload
  BY <1>29, <1>0 DEF EnableUpload, StopRecovery, NoEntry, StaysOff
<1>30. CASE DisableUpload
  BY <1>30, <1>0 DEF DisableUpload, StopRecovery, NoEntry, StaysOff
<1>31. CASE UploadFails
  BY <1>31, <1>0 DEF UploadFails, StaysOff
<1>32. ASSUME NEW n \in Net, Leave(n) PROVE StaysOff
  BY <1>32, <1>0 DEF Leave, StaysOff
<1>33. ASSUME NEW n \in Net, Join(n) PROVE StaysOff
  BY <1>33, <1>0 DEF Join, None, Idle, StaysOff
<1>34. CASE PauseAll
  BY <1>34, <1>0 DEF PauseAll, StaysOff
<1>35. CASE UNCHANGED vars
  BY <1>35, <1>0 DEF vars, StaysOff
<1>. QED BY <1>1, <1>2, <1>3, <1>4, <1>5, <1>6, <1>7, <1>8, <1>9, <1>10, <1>11, <1>12, <1>13, <1>14,
          <1>15, <1>16, <1>17, <1>18, <1>19, <1>20, <1>21, <1>22, <1>23, <1>24, <1>25, <1>26, <1>27,
          <1>28, <1>29, <1>30, <1>31, <1>32, <1>33, <1>34, <1>35
       DEF Next, Continue, Returning, Called

\* With no timer and no attempt under way none begins.
StaysIdle == reset' \in After => ~InFlight'
LEMMA IdleStays ==
  ASSUME RecoveryTypeOK, CallsHold, Shut, OneTry, reset \in {"draining", "cleared"}, Cleared,
         ~InFlight, [Next]_vars
  PROVE  StaysIdle
<1>. USE DEF lishVars, flagVars, downVars, netVars, resetVars, callVars, taskVars, recoveryVars
<1>0. /\ closed /\ reset \in After /\ reset # "restoring" /\ call[Restore].at = "idle" /\ \A c \in Call : Outside(c)
      /\ registry = None /\ lifecycles = {} /\ ~entry.timer /\ \A a \in Attempt : attempt[a].at = "idle"
      /\ StopRecovery => \A a \in Attempt : attempt'[a].at = attempt[a].at
  BY OutdatedAttempts DEF Shut, After, CallsHold, Cleared, AllOutside, OneTry, InFlight, StopRecovery
<1>1. ASSUME NEW c \in Call, Enter(c) PROVE StaysIdle
  <2>1. c # Restore
    BY <1>1, <1>0 DEF Enter
  <2>. QED BY <1>1, <1>0, <2>1 DEF Enter, InFlight, StaysIdle
<1>2. ASSUME NEW u \in User, UserAnswered(u) PROVE StaysIdle
  BY <1>2, <1>0 DEF UserAnswered, Idle, None, StaysIdle, InFlight
<1>3. ASSUME NEW a \in Attempt, AttemptAnswered(a) PROVE StaysIdle
  BY <1>3, <1>0 DEF AttemptAnswered, CallsHold, StaysIdle
<1>4. CASE RejoinAnswered
  BY <1>4, <1>0 DEF RejoinAnswered, Idle, None, StaysIdle, InFlight
<1>5. CASE RestoreAnswered
  BY <1>5, <1>0 DEF RestoreAnswered, StaysIdle
<1>6. ASSUME NEW c \in Call, Replaced(c) PROVE StaysIdle
  BY <1>6, <1>0 DEF Replaced, Outside, StaysIdle
<1>7. ASSUME NEW c \in Call, Resumes(c) PROVE StaysIdle
  BY <1>7, <1>0 DEF Resumes, Outside, StaysIdle
<1>8. ASSUME NEW c \in Call, DiskChecked(c) PROVE StaysIdle
  BY <1>8, <1>0 DEF DiskChecked, Outside, StaysIdle
<1>9. ASSUME NEW c \in Call, Accessed(c) PROVE StaysIdle
  BY <1>9, <1>0 DEF Accessed, Outside, StaysIdle
<1>10. ASSUME NEW c \in Call, Starts(c) PROVE StaysIdle
  BY <1>10, <1>0 DEF Starts, Outside, StaysIdle
<1>11. ASSUME NEW i \in Download, Works(i) PROVE StaysIdle
  BY <1>11, <1>0 DEF Works, StaysIdle, InFlight
<1>12. ASSUME NEW i \in Download, Ends(i) PROVE StaysIdle
  BY <1>12, <1>0 DEF Ends, StaysIdle
<1>13. ASSUME NEW i \in Download, Cleaned(i) PROVE StaysIdle
  BY <1>13, <1>0 DEF Cleaned, Unregister, None, StaysIdle, InFlight
<1>14. CASE RecoveryStep
  BY <1>14, <1>0 DEF RecoveryStep, AttemptFires, DirectoryMade, AccessDenied, StaysIdle, InFlight
<1>15. CASE Removed \/ Erased
  BY <1>15, <1>0 DEF Removed, Erased, None, NoRemoval, StaysIdle, InFlight
<1>16. CASE Paused
  BY <1>16, <1>0 DEF Paused, None, StaysIdle, InFlight
<1>17. CASE Torn
  BY <1>17, <1>0 DEF Torn, None, StaysIdle, InFlight
<1>18. CASE LifecyclesEnd
  BY <1>18, <1>0 DEF LifecyclesEnd, StaysIdle, InFlight
<1>19. CASE Drained
  BY <1>19, <1>0 DEF Drained, StaysIdle, InFlight
<1>20. ASSUME NEW a \in Attempt, AttemptEnables(a) PROVE StaysIdle
  BY <1>20, <1>0 DEF AttemptEnables, AccessGranted, Idle, None, StaysIdle, InFlight
<1>21. ASSUME NEW wipe \in BOOLEAN, NEW left \in SUBSET joined, Restarted(wipe, left) PROVE StaysIdle
  BY <1>21, <1>0 DEF Restarted, StaysIdle, InFlight
<1>22. CASE RestoreAll
  BY <1>22, <1>0 DEF RestoreAll, After, StaysIdle
<1>23. CASE Revived
  BY <1>23, <1>0 DEF Revived, StaysIdle
<1>24. CASE ResumeAll
  BY <1>24, <1>0 DEF ResumeAll, StaysIdle, InFlight
<1>25. ASSUME NEW u \in User, UserEnables(u) PROVE StaysIdle
  BY <1>25, <1>0 DEF UserEnables, Idle, None, StaysIdle, InFlight
<1>26. CASE DisableDownload
  BY <1>26, <1>0 DEF DisableDownload, None, StaysIdle, InFlight
<1>27. CASE Remove \/ DeleteData
  BY <1>27, <1>0 DEF Remove, DeleteData, Destroying, None, StaysIdle, InFlight
<1>28. CASE ToggleBusy
  BY <1>28, <1>0 DEF ToggleBusy, Call, Idle, None, StaysIdle, InFlight
<1>29. CASE EnableUpload
  BY <1>29, <1>0 DEF EnableUpload, StaysIdle, InFlight
<1>30. CASE DisableUpload
  BY <1>30, <1>0 DEF DisableUpload, StaysIdle, InFlight
<1>31. CASE UploadFails
  BY <1>31, <1>0 DEF UploadFails, StaysIdle
<1>32. ASSUME NEW n \in Net, Leave(n) PROVE StaysIdle
  BY <1>32, <1>0 DEF Leave, InFlight, StaysIdle
<1>33. ASSUME NEW n \in Net, Join(n) PROVE StaysIdle
  BY <1>33, <1>0 DEF Join, None, Idle, StaysIdle, InFlight
<1>34. CASE PauseAll
  BY <1>34, <1>0 DEF PauseAll, StaysIdle, InFlight
<1>35. CASE UNCHANGED vars
  BY <1>35, <1>0 DEF vars, StaysIdle, InFlight
<1>. QED BY <1>1, <1>2, <1>3, <1>4, <1>5, <1>6, <1>7, <1>8, <1>9, <1>10, <1>11, <1>12, <1>13, <1>14,
          <1>15, <1>16, <1>17, <1>18, <1>19, <1>20, <1>21, <1>22, <1>23, <1>24, <1>25, <1>26, <1>27,
          <1>28, <1>29, <1>30, <1>31, <1>32, <1>33, <1>34, <1>35
       DEF Next, Continue, Returning, Called

\* What was cleared stays so.
LEMMA ClearedStep ==
  ASSUME TypeOK, OneTry, CallsHold, DownsHold, Shut, Cleared, [Next]_vars
  PROVE  Cleared'
<1>0. RecoveryTypeOK /\ FlagTypes /\ DownTypes /\ CallTypes
  BY TypeParts
<1>1. ResetGoes
  BY ResetMoves
<1>2. AllOutside'
  BY <1>0, OutsideStep DEF Cleared
<1>3. reset \in After => (registry' = registry \/ registry' = None) /\ lifecycles' \subseteq lifecycles
  BY RegistryStays DEF Cleared, Unregisters
<1>4. reset' = "clearing" /\ registry' # None => downs'[registry'].destroyed
  <2>0. /\ registry # None => registry \in Download /\ downs[registry] \in D!Downloads
        /\ downs \in [Download -> D!Downloads]
        /\ \A i \in Download : downs[i].destroyed => downs'[i].destroyed
    <3>1. registry # None => registry \in Download
      BY <1>0, BoundAssumption DEF DownTypes, None, Download
    <3>. QED BY <1>0, <3>1, DownsStep DEF DownTypes
  <2>1. CASE reset = "clearing"
    BY <1>3, <2>0, <2>1 DEF Cleared, After
  <2>2. CASE Paused /\ registry # None
    <3>1. PICK f \in D!Destroyed(downs[registry]) : downs' = [downs EXCEPT ![registry] = f]
      BY <2>2 DEF Paused, Becomes
    <3>2. f.destroyed /\ downs'[registry] = f
      BY <2>0, <2>2, <3>1, DownloadMarks
    <3>. QED BY <2>2, <3>2 DEF Paused
  <2>3. CASE Paused /\ registry = None
    BY <2>3 DEF Paused
  <2>. QED BY <1>1, <2>1, <2>2, <2>3 DEF ResetGoes, Torn, LifecyclesEnd, Drained, After
<1>5. reset' \in {"waiting", "draining", "cleared"} => registry' = None
  <2>1. CASE reset \in {"waiting", "draining", "cleared"}
    BY <1>3, <2>1 DEF Cleared, After
  <2>2. CASE Paused
    BY <2>2 DEF Paused
  <2>3. CASE Torn
    BY <2>3 DEF Torn
  <2>. QED BY <1>1, <2>1, <2>2, <2>3 DEF ResetGoes, After
<1>6. reset' \in {"draining", "cleared"} => lifecycles' = {} /\ ~enabled' /\ ~suspended'.on /\ ~entry'.on
  <2>1. CASE reset \in {"draining", "cleared"}
    BY <1>0, <1>3, <2>1, OffStays DEF Cleared, After, StaysOff
  <2>2. CASE LifecyclesEnd
    BY <2>2, Records DEF LifecyclesEnd, StopRecovery, NoEntry, NotSuspended, downVars
  <2>3. CASE Paused
    BY <2>3 DEF Paused
  <2>. QED BY <1>1, <2>1, <2>2, <2>3 DEF ResetGoes, After, Torn
<1>7. reset' = "cleared" => ~InFlight'
  <2>1. CASE reset = "cleared"
    BY <1>0, <2>1, IdleStays DEF Cleared, After, StaysIdle
  <2>2. CASE Drained
    BY <2>2 DEF Drained, recoveryVars, InFlight
  <2>. QED BY <1>1, <2>1, <2>2 DEF ResetGoes, After, Paused, Torn, LifecyclesEnd
<1>. QED BY <1>2, <1>4, <1>5, <1>6, <1>7 DEF Cleared, After

-----------------------------------------------------------------------------
(* A deletion of the data alone *)

\* A deletion whose busy mark has kept every enable out: no call is past its look at the
\* mark, and what is registered is the download that is being destroyed.
Watched == removing.at = "destroying" /\ removing.guarded
Alone == /\ busy /\ \A c \in Call : ~PastCheck(c)
         /\ registry # None => downs[registry].destroyed
Guarded == Watched => Alone

\* The deletion itself does not change while it waits, nor the mark.
LEMMA WatchSteps ==
  ASSUME [Next]_vars
  PROVE  \/ UNCHANGED <<removing, busy>>
         \/ Removed \/ Erased \/ Remove \/ DeleteData \/ ToggleBusy
<1>. USE DEF lishVars, flagVars, downVars, netVars, resetVars, callVars, taskVars, recoveryVars
<1>. DEFINE Same == UNCHANGED <<removing, busy>>
<1>1. ASSUME NEW c \in Call, Enter(c) PROVE Same
  BY <1>1 DEF Enter
<1>2. ASSUME NEW u \in User, UserAnswered(u) PROVE Same
  BY <1>2 DEF UserAnswered
<1>3. ASSUME NEW a \in Attempt, AttemptAnswered(a) PROVE Same
  BY <1>3 DEF AttemptAnswered
<1>4. ASSUME RejoinAnswered PROVE Same
  BY <1>4 DEF RejoinAnswered
<1>5. ASSUME RestoreAnswered PROVE Same
  BY <1>5 DEF RestoreAnswered
<1>6. ASSUME NEW c \in Call, Replaced(c) PROVE Same
  BY <1>6 DEF Replaced
<1>7. ASSUME NEW c \in Call, Resumes(c) PROVE Same
  BY <1>7 DEF Resumes
<1>8. ASSUME NEW c \in Call, DiskChecked(c) PROVE Same
  BY <1>8 DEF DiskChecked
<1>9. ASSUME NEW c \in Call, Accessed(c) PROVE Same
  BY <1>9 DEF Accessed
<1>10. ASSUME NEW c \in Call, Starts(c) PROVE Same
  BY <1>10 DEF Starts
<1>11. ASSUME NEW i \in Download, Works(i) PROVE Same
  BY <1>11 DEF Works
<1>12. ASSUME NEW i \in Download, Ends(i) PROVE Same
  BY <1>12 DEF Ends
<1>13. ASSUME NEW i \in Download, Cleaned(i) PROVE Same
  BY <1>13 DEF Cleaned
<1>14. ASSUME RecoveryStep PROVE Same
  BY <1>14 DEF RecoveryStep
<1>16. ASSUME Paused PROVE Same
  BY <1>16 DEF Paused
<1>17. ASSUME Torn PROVE Same
  BY <1>17 DEF Torn
<1>18. ASSUME LifecyclesEnd PROVE Same
  BY <1>18 DEF LifecyclesEnd
<1>19. ASSUME Drained PROVE Same
  BY <1>19 DEF Drained
<1>20. ASSUME NEW a \in Attempt, AttemptEnables(a) PROVE Same
  BY <1>20 DEF AttemptEnables
<1>21. ASSUME NEW wipe \in BOOLEAN, NEW left \in SUBSET joined, Restarted(wipe, left) PROVE Same
  BY <1>21 DEF Restarted
<1>22. ASSUME RestoreAll PROVE Same
  BY <1>22 DEF RestoreAll
<1>23. ASSUME Revived PROVE Same
  BY <1>23 DEF Revived
<1>24. ASSUME ResumeAll PROVE Same
  BY <1>24 DEF ResumeAll
<1>25. ASSUME NEW u \in User, UserEnables(u) PROVE Same
  BY <1>25 DEF UserEnables
<1>26. ASSUME DisableDownload PROVE Same
  BY <1>26 DEF DisableDownload
<1>29. ASSUME EnableUpload PROVE Same
  BY <1>29 DEF EnableUpload
<1>30. ASSUME DisableUpload PROVE Same
  BY <1>30 DEF DisableUpload
<1>31. ASSUME UploadFails PROVE Same
  BY <1>31 DEF UploadFails
<1>32. ASSUME NEW n \in Net, Leave(n) PROVE Same
  BY <1>32 DEF Leave
<1>33. ASSUME NEW n \in Net, Join(n) PROVE Same
  BY <1>33 DEF Join
<1>34. ASSUME PauseAll PROVE Same
  BY <1>34 DEF PauseAll
<1>35. ASSUME UNCHANGED vars PROVE Same
  BY <1>35 DEF vars
<1>. QED BY <1>1, <1>2, <1>3, <1>4, <1>5, <1>6, <1>7, <1>8, <1>9, <1>10, <1>11, <1>12, <1>13, <1>14,
          <1>16, <1>17, <1>18, <1>19, <1>20, <1>21, <1>22, <1>23, <1>24, <1>25, <1>26,
          <1>29, <1>30, <1>31, <1>32, <1>33, <1>34, <1>35
       DEF Next, Continue, Returning, Called

\* A call that ends or begins has not looked at the mark.
LEMMA BriefCalls ==
  ASSUME CallTypes, \A c \in Call : ~PastCheck(c), NEW b \in Call, NEW x \in {"idle", "called", "yes", "no"},
         call' = [call EXCEPT ![b] = [Idle EXCEPT !.at = x]]
  PROVE  \A c \in Call : ~PastCheck(c)'
<1>1. [Idle EXCEPT !.at = x].at = x
  <2>1. x \in Places
    BY PlaceNames
  <2>. QED BY <2>1, CallRecords
<1>2. \A c \in Call : call'[c].at = IF c = b THEN x ELSE call[c].at
  BY <1>1 DEF CallTypes
<1>. QED BY <1>2 DEF PastCheck

\* Meanwhile no call gets past its look, and nothing new is registered.
Kept == (\A c \in Call : ~PastCheck(c)') /\ (registry' = registry \/ registry' = None)
LEMMA KeptStep ==
  ASSUME CallTypes, CallsHold, Shut, Watched, Alone, UNCHANGED removing, [Next]_vars
  PROVE  Kept
<1>. USE DEF lishVars, flagVars, downVars, netVars, resetVars, callVars, taskVars, recoveryVars
<1>0. /\ \A c \in Call : ~PastCheck(c) /\ busy /\ ~closed /\ reset \in {"no", "done"}
      /\ User \subseteq Call /\ Attempt \subseteq Call /\ Rejoin \in Call /\ Restore \in Call
  BY DEF Watched, Alone, Shut, Call
<1>q. UNCHANGED <<call, registry>> => Kept
  BY <1>0 DEF Kept, PastCheck
<1>c. ASSUME NEW b \in Call, NEW x \in {"idle", "called", "yes", "no"},
             call' = [call EXCEPT ![b] = [Idle EXCEPT !.at = x]], UNCHANGED registry
      PROVE  Kept
  BY <1>0, <1>c, BriefCalls DEF Kept
<1>1. ASSUME NEW c \in Call, Enter(c) PROVE Kept
  <2>1. call' = [call EXCEPT ![c] = [Idle EXCEPT !.at = "no"]] /\ UNCHANGED registry
    BY <1>0, <1>1 DEF Enter, Answer, To
  <2>. QED BY <1>c, <2>1
<1>2. ASSUME NEW u \in User, UserAnswered(u) PROVE Kept
  <2>1. call' = [call EXCEPT ![u] = [Idle EXCEPT !.at = "idle"]] /\ UNCHANGED registry
    BY <1>2, CallRecords DEF UserAnswered
  <2>. QED BY <1>0, <1>c, <2>1
<1>3. ASSUME NEW a \in Attempt, AttemptAnswered(a) PROVE Kept
  <2>1. call' = [call EXCEPT ![a] = [Idle EXCEPT !.at = "idle"]] /\ UNCHANGED registry
    BY <1>3, CallRecords DEF AttemptAnswered
  <2>. QED BY <1>0, <1>c, <2>1
<1>4. CASE RejoinAnswered
  <2>1. call' = [call EXCEPT ![Rejoin] = [Idle EXCEPT !.at = "idle"]] /\ UNCHANGED registry
    BY <1>4, CallRecords DEF RejoinAnswered
  <2>. QED BY <1>0, <1>c, <2>1
<1>5. CASE RestoreAnswered
  <2>1. call' = [call EXCEPT ![Restore] = [Idle EXCEPT !.at = "idle"]] /\ UNCHANGED registry
    BY <1>5, CallRecords DEF RestoreAnswered
  <2>. QED BY <1>0, <1>c, <2>1
<1>6. ASSUME NEW c \in Call, Replaced(c) PROVE Kept
  BY <1>6, <1>0 DEF Replaced, PastCheck
<1>7. ASSUME NEW c \in Call, Resumes(c) PROVE Kept
  BY <1>7, <1>0 DEF Resumes, PastCheck
<1>8. ASSUME NEW c \in Call, DiskChecked(c) PROVE Kept
  BY <1>8, <1>0 DEF DiskChecked, PastCheck
<1>9. ASSUME NEW c \in Call, Accessed(c) PROVE Kept
  BY <1>9, <1>0 DEF Accessed, PastCheck
<1>10. ASSUME NEW c \in Call, Starts(c) PROVE Kept
  BY <1>10, <1>0 DEF Starts, PastCheck
<1>11. ASSUME NEW i \in Download, Works(i) PROVE Kept
  BY <1>11, <1>q DEF Works
<1>12. ASSUME NEW i \in Download, Ends(i) PROVE Kept
  <2>1. UNCHANGED call /\ (registry' = registry \/ registry' = None)
    BY <1>12 DEF Ends, Unregister
  <2>. QED BY <1>0, <2>1 DEF Kept, PastCheck
<1>13. ASSUME NEW i \in Download, Cleaned(i) PROVE Kept
  <2>1. UNCHANGED call /\ (registry' = registry \/ registry' = None)
    BY <1>13 DEF Cleaned, Unregister
  <2>. QED BY <1>0, <2>1 DEF Kept, PastCheck
<1>14. CASE RecoveryStep
  BY <1>14, <1>q DEF RecoveryStep
<1>15. CASE Removed \/ Erased
  BY <1>15 DEF Removed, Erased, NoRemoval, Watched
<1>16. CASE Paused
  BY <1>16, <1>0 DEF Paused
<1>17. CASE Torn
  BY <1>17, <1>0 DEF Torn
<1>18. CASE LifecyclesEnd
  BY <1>18, <1>0 DEF LifecyclesEnd
<1>19. CASE Drained
  BY <1>19, <1>0 DEF Drained
<1>20. ASSUME NEW a \in Attempt, AttemptEnables(a) PROVE Kept
  <2>1. PICK x \in {"called", "yes"} : call' = [call EXCEPT ![a] = [Idle EXCEPT !.at = x]] /\ UNCHANGED registry
    BY <1>20 DEF AttemptEnables
  <2>2. a \in Call /\ x \in {"idle", "called", "yes", "no"}
    BY <1>0
  <2>. QED BY <1>c, <2>1, <2>2
<1>21. ASSUME NEW wipe \in BOOLEAN, NEW left \in SUBSET joined, Restarted(wipe, left) PROVE Kept
  BY <1>21, <1>0 DEF Restarted
<1>22. CASE RestoreAll
  BY <1>22, <1>0 DEF RestoreAll
<1>23. CASE Revived
  BY <1>23, <1>0 DEF Revived, PastCheck
<1>24. CASE ResumeAll
  BY <1>24, <1>0 DEF ResumeAll
<1>25. ASSUME NEW u \in User, UserEnables(u) PROVE Kept
  <2>1. call' = [call EXCEPT ![u] = [Idle EXCEPT !.at = "called"]] /\ UNCHANGED registry
    BY <1>25 DEF UserEnables
  <2>. QED BY <1>0, <1>c, <2>1
<1>26. CASE DisableDownload
  BY <1>26, <1>q DEF DisableDownload
<1>27. CASE Remove \/ DeleteData
  BY <1>27 DEF Remove, DeleteData, Destroying, Watched
<1>28. CASE ToggleBusy
  <2>1. call' = call \/ call' = Reminded
    BY <1>28 DEF ToggleBusy, Reminded
  <2>2. [Idle EXCEPT !.at = "called"].at = "called"
    BY PlaceNames, CallRecords
  <2>. QED BY <1>28, <1>0, <2>1, <2>2 DEF ToggleBusy, Kept, PastCheck, Reminded
<1>29. CASE EnableUpload
  BY <1>29, <1>q DEF EnableUpload
<1>30. CASE DisableUpload
  BY <1>30, <1>q DEF DisableUpload
<1>31. CASE UploadFails
  BY <1>31, <1>q DEF UploadFails
<1>32. ASSUME NEW n \in Net, Leave(n) PROVE Kept
  BY <1>32, <1>q DEF Leave
<1>33. ASSUME NEW n \in Net, Join(n) PROVE Kept
  <2>1. /\ (call' = call \/ call' = [call EXCEPT ![Rejoin] = [Idle EXCEPT !.at = "called"]])
        /\ UNCHANGED registry
    BY <1>33 DEF Join
  <2>. QED BY <1>0, <1>c, <1>q, <2>1
<1>34. CASE PauseAll
  BY <1>34, <1>q DEF PauseAll
<1>35. CASE UNCHANGED vars
  BY <1>35, <1>q DEF vars
<1>. QED BY <1>1, <1>2, <1>3, <1>4, <1>5, <1>6, <1>7, <1>8, <1>9, <1>10, <1>11, <1>12, <1>13, <1>14,
          <1>15, <1>16, <1>17, <1>18, <1>19, <1>20, <1>21, <1>22, <1>23, <1>24, <1>25, <1>26,
          <1>27, <1>28, <1>29, <1>30, <1>31, <1>32, <1>33, <1>34, <1>35
       DEF Next, Continue, Returning, Called

LEMMA GuardedStep ==
  ASSUME DownTypes, CallTypes, CallsHold, DownsHold, Shut, Guarded, [Next]_vars
  PROVE  Guarded'
<1>. SUFFICES ASSUME Watched' PROVE Alone'
  BY DEF Guarded
<1>0. registry \in 0..made /\ 0..made \subseteq Download \cup {None} /\ removing \in Removals(made) /\ made \in Nat
  BY BoundAssumption DEF DownTypes, Download, None
<1>1. CASE DeleteData
  <2>1. /\ busy' /\ UNCHANGED <<call, registry>>
        /\ \A c \in Call : ~PastCheck(c)
        /\ registry # None => Becomes(registry, D!Destroyed(downs[registry]))
    BY <1>1 DEF DeleteData, Destroying, Watched, callVars
  <2>2. \A c \in Call : ~PastCheck(c)'
    BY <2>1 DEF PastCheck
  <2>3. ASSUME registry # None PROVE downs'[registry].destroyed
    <3>1. registry \in Download /\ downs \in [Download -> D!Downloads]
      BY <1>0, <2>3 DEF DownTypes
    <3>2. PICK f \in D!Destroyed(downs[registry]) : downs' = [downs EXCEPT ![registry] = f]
      BY <2>1, <2>3 DEF Becomes
    <3>. QED BY <3>1, <3>2, DownloadMarks
  <2>. QED BY <2>1, <2>2, <2>3 DEF Alone
<1>2. CASE UNCHANGED <<removing, busy>>
  <2>1. Watched /\ Alone
    BY <1>2 DEF Watched, Guarded
  <2>2. Kept
    BY <1>2, <2>1, KeptStep
  <2>3. \A i \in Download : downs[i].destroyed => downs'[i].destroyed
    BY DownSteps, DownKeeps
  <2>. QED BY <1>0, <1>2, <2>1, <2>2, <2>3 DEF Alone, Kept
<1>3. ~Removed /\ ~Erased
  BY DEF Removed, Erased, Watched, NoRemoval
<1>5. ~Remove
  <2>1. ASSUME Remove PROVE FALSE
    <3>1. removing'.guarded = (FALSE /\ \A c \in Call : ~PastCheck(c))
      BY <2>1, Zenon DEF Remove, Destroying
    <3>2. ~removing'.guarded
      BY <3>1, Zenon
    <3>. QED BY <3>2 DEF Watched
  <2>. QED BY <2>1
<1>4. ~ToggleBusy
  BY <1>0, RemovalTypes DEF ToggleBusy, Watched
<1>. QED BY <1>1, <1>2, <1>3, <1>4, <1>5, WatchSteps

-----------------------------------------------------------------------------
(* The theorems *)

\* Everything above together is inductive.
Inv == TypeOK /\ OneTry /\ CallsHold /\ DownsHold /\ Shut /\ Cleared /\ Guarded

LEMMA InitInv == Init => Inv
<1>. SUFFICES ASSUME Init PROVE Inv
  OBVIOUS
<1>1. RecoveryTypeOK /\ OneTry
  BY AttemptsAssumption DEF Init, RecoveryInit, RecoveryTypeOK, OneTry, Trying, NoEntry, NoAttempt
<1>2. FlagTypes
  <2>1. Flags /\ NetTypes
    BY BoundAssumption, Records DEF Init, Flags, NetTypes
  <2>2. reset \in Resets /\ snapshot \in Snapshots
    BY Records, ResetNames DEF Init
  <2>3. events \in 0..MaxEvents
    BY BoundAssumption DEF Init
  <2>. QED BY <2>1, <2>2, <2>3, FlagParts
<1>3. /\ made = 0 /\ registry = None /\ lifecycles = {} /\ cleaning = {} /\ removing = NoRemoval
      /\ downs = [i \in Download |-> NewDownload]
      /\ nets = [i \in Download |-> {}] /\ bound = [i \in Download |-> {}]
  BY DEF Init, NewDownload
<1>4. DownTypes
  <2>1. made \in 0..MaxDownloads /\ registry \in 0..made /\ removing \in Removals(made)
    <3>1. made \in Nat /\ NoRemoval \in Removals(made)
      BY <1>3, RemovalTypes
    <3>. QED BY <1>3, <3>1, BoundAssumption DEF None
  <2>2. downs \in [Download -> D!Downloads]
    BY <1>3, DownloadMarks
  <2>. QED BY <1>3, <2>1, <2>2 DEF DownTypes
<1>5. call = [c \in Call |-> Idle] /\ pending = FALSE
  BY DEF Init
<1>6. CallTypes
  <2>1. call \in [Call -> Calls]
    BY <1>5, CallRecords
  <2>. QED BY <1>5, <2>1 DEF CallTypes, Asking, Idle
<1>7. CallsHold
  <2>1. Restore \in Call /\ Attempt \subseteq Call
    BY DEF Call
  <2>. QED BY <1>5, <2>1 DEF CallsHold, Idle
<1>8. DownsHold
  BY <1>3, BoundAssumption DEF DownsHold, Download
<1>9. Shut /\ Cleared /\ Guarded
  BY DEF Init, Shut, Cleared, AllOutside, After, NoRemoval, Guarded, Watched
<1>. QED BY <1>1, <1>2, <1>4, <1>6, <1>7, <1>8, <1>9, TypeParts DEF Inv

LEMMA StepInv ==
  ASSUME Inv, [Next]_vars
  PROVE  Inv'
<1>1. RecoveryTypeOK /\ FlagTypes /\ DownTypes /\ CallTypes /\ OneTry /\ CallsHold /\ DownsHold /\ Shut /\ Cleared /\ Guarded
  BY TypeParts DEF Inv
<1>2. RecoveryTypeOK' /\ OneTry'
  BY <1>1, RecoverySound
<1>3. FlagTypes'
  BY <1>1, FlagStep
<1>4. DownTypes' /\ DownsHold'
  BY <1>1, DownsStep
<1>5. CallTypes' /\ CallsHold'
  BY <1>1, CallsStep
<1>6. Shut'
  BY <1>1, ShutStep
<1>7. Cleared'
  BY <1>1, ClearedStep DEF Inv
<1>8. TypeOK'
  BY <1>2, <1>3, <1>4, <1>5, TypeParts, PTL
<1>9. Guarded'
  BY <1>1, GuardedStep
<1>. QED BY <1>2, <1>4, <1>5, <1>6, <1>7, <1>8, <1>9 DEF Inv

LEMMA Invariant == Spec => []Inv
BY InitInv, StepInv, PTL DEF Spec

\* Every variable keeps its type.
THEOREM TypeCorrect == Spec => []TypeOK
<1>1. Inv => TypeOK
  BY DEF Inv
<1>. QED BY <1>1, Invariant, PTL

\* A factory reset that has cleared the transfers finds nothing of them left to come back
\* (clearAllTransfers, transfer.ts:872-902).
THEOREM QuietHolds == Spec => []PausedIsQuiet
<1>1. Inv => PausedIsQuiet
  <2>. SUFFICES ASSUME Inv, reset = "cleared" 
                PROVE  /\ registry = None /\ ~enabled /\ ~suspended.on /\ ~Inside /\ ~InFlight /\ ~entry.on
                       /\ \A i \in Download : ~Running(i)
    BY DEF Inv, PausedIsQuiet, ClosedIsQuiet
  <2>1. /\ registry = None /\ ~enabled /\ ~suspended.on /\ ~InFlight /\ ~entry.on /\ lifecycles = {}
        /\ \A c \in Call : Outside(c)
    BY DEF Inv, Cleared, AllOutside, After
  <2>2. \A a \in Attempt : call[a].at = "idle"
    BY <2>1 DEF Inv, CallsHold, InFlight
  <2>3. ~Inside
    BY <2>1, <2>2 DEF Inside, Outside
  <2>4. ASSUME NEW i \in Download
        PROVE  downs[i].promise # "pending"
    <3>1. made \in Nat /\ i \in Nat
      BY TypeParts, BoundAssumption DEF Inv, DownTypes, Download
    <3>2. CASE i > made
      BY <3>2, DownloadMarks DEF Inv, DownsHold
    <3>3. CASE i \leq made
      BY <2>1, <3>3 DEF Inv, DownsHold, D!Settled
    <3>. QED BY <3>1, <3>2, <3>3
  <2>. QED BY <2>1, <2>3, <2>4 DEF Running
<1>. QED BY <1>1, Invariant, PTL

\* A download that runs leaves the registry at the end of a deletion only, and not of one
\* whose mark has kept every enable out.
Drops == \A i \in Download : (registry = i /\ registry' # i /\ Running(i)') => Removed /\ ~removing.guarded

\* Each action that takes a download off the registry finds it at its end.
LEMMA DropsStep ==
  ASSUME Inv, [Next]_vars
  PROVE  Drops
<1>. USE DEF lishVars, flagVars, downVars, netVars, resetVars, callVars, taskVars, recoveryVars
<1>1. ASSUME NEW c \in Call, Enter(c) PROVE Drops
  <2>1. UNCHANGED registry
    BY <1>1 DEF Enter
  <2>. QED BY <2>1 DEF Drops
<1>2. ASSUME NEW u \in User, UserAnswered(u) PROVE Drops
  BY <1>2 DEF UserAnswered, Idle, None, Drops
<1>3. ASSUME NEW a \in Attempt, AttemptAnswered(a) PROVE Drops
  BY <1>3 DEF AttemptAnswered, Idle, NoAttempt, None, Drops
<1>4. CASE RejoinAnswered
  BY <1>4 DEF RejoinAnswered, Idle, None, Drops
<1>5. CASE RestoreAnswered
  BY <1>5 DEF RestoreAnswered, Idle, None, Drops
<1>6. ASSUME NEW c \in Call, Replaced(c) PROVE Drops
  <2>1. downs[call[c].down].destroyed /\ UNCHANGED downs /\ Unregister(call[c].down)
    BY <1>6 DEF Replaced, Inv, CallsHold, downVars
  <2>. QED BY <2>1 DEF Drops, Unregister, Running
<1>7. ASSUME NEW c \in Call, Resumes(c) PROVE Drops
  <2>1. CASE UNCHANGED registry
    BY <2>1 DEF Drops
  <2>2. CASE Becomes(call[c].down, D!Failed(downs[call[c].down])) /\ Unregister(call[c].down)
    <3>1. call[c].down \in Download /\ downs \in [Download -> D!Downloads]
      BY <1>7 , TypeParts, BoundAssumption DEF Resumes, Inv, CallsHold, DownTypes, Download
    <3>2. PICK f \in D!Failed(downs[call[c].down]) : downs' = [downs EXCEPT ![call[c].down] = f]
      BY <2>2 DEF Becomes
    <3>3. f.disabled /\ downs'[call[c].down] = f
      BY <3>1, <3>2, DownloadMarks
    <3>. QED BY <2>2, <3>3 DEF Drops, Unregister, Running
  <2>. QED BY <1>7, <2>1, <2>2 DEF Resumes
<1>8. ASSUME NEW c \in Call, DiskChecked(c) PROVE Drops
  BY <1>8 DEF DiskChecked, Drops
<1>9. ASSUME NEW c \in Call, Accessed(c) PROVE Drops
  BY <1>9 DEF Accessed, Drops
<1>10. ASSUME NEW c \in Call, Starts(c) PROVE Drops
  <2>1. UNCHANGED registry \/ \E use, belong : Claim(use, belong)
    BY <1>10 DEF Starts
  <2>2. UNCHANGED registry \/ registry = None
    BY <2>1, ClaimMoves
  <2>. QED BY <2>2 DEF Drops, None, Download
<1>11. ASSUME NEW i \in Download, Works(i) PROVE Drops
  BY <1>11 DEF Works, Drops
<1>12. ASSUME NEW i \in Download, Ends(i) PROVE Drops
  <2>1. downs[i].promise # "pending" /\ UNCHANGED downs /\ Unregister(i)
    BY <1>12 DEF Ends, D!Settled
  <2>. QED BY <2>1 DEF Drops, Unregister, Running
<1>13. ASSUME NEW i \in Download, Cleaned(i) PROVE Drops
  <2>1. downs[i].destroyed /\ UNCHANGED downs /\ Unregister(i)
    BY <1>13 DEF Cleaned, Inv, DownsHold, downVars
  <2>. QED BY <2>1 DEF Drops, Unregister, Running
<1>14. CASE RecoveryStep
  BY <1>14 DEF RecoveryStep, Drops
<1>15. CASE Removed \/ Erased
  <2>1. CASE Erased
    BY <2>1 DEF Erased, Drops
  <2>2. CASE Removed
    <3>1. removing.guarded => Alone
      BY <2>2 DEF Removed, Inv, Guarded, Watched
    <3>2. UNCHANGED downs
      BY <2>2 DEF Removed
    <3>. QED BY <2>2, <3>1, <3>2 DEF Alone, Drops, Running, None, Download
  <2>. QED BY <1>15, <2>1, <2>2
<1>16. CASE Paused
  BY <1>16 DEF Paused, None, Drops
<1>17. CASE Torn
  <2>1. registry # None => downs[registry].destroyed
    BY <1>17 DEF Torn, Inv, Cleared
  <2>2. UNCHANGED downs
    BY <1>17 DEF Torn, downVars
  <2>. QED BY <2>1, <2>2 DEF Drops, Running, None, Download
<1>18. CASE LifecyclesEnd
  BY <1>18 DEF LifecyclesEnd, Drops
<1>19. CASE Drained
  BY <1>19 DEF Drained, Drops
<1>20. ASSUME NEW a \in Attempt, AttemptEnables(a) PROVE Drops
  BY <1>20 DEF AttemptEnables, Idle, None, Drops
<1>21. ASSUME NEW wipe \in BOOLEAN, NEW left \in SUBSET joined, Restarted(wipe, left) PROVE Drops
  BY <1>21 DEF Restarted, Drops
<1>22. CASE RestoreAll
  BY <1>22 DEF RestoreAll, Idle, None, Drops
<1>23. CASE Revived
  <2>1. UNCHANGED registry \/ \E use, belong : Claim(use, belong)
    BY <1>23 DEF Revived
  <2>2. UNCHANGED registry \/ registry = None
    BY <2>1, ClaimMoves
  <2>. QED BY <2>2 DEF Drops, None, Download
<1>24. CASE ResumeAll
  BY <1>24 DEF ResumeAll, Drops
<1>25. ASSUME NEW u \in User, UserEnables(u) PROVE Drops
  BY <1>25 DEF UserEnables, Idle, None, Drops
<1>26. CASE DisableDownload
  BY <1>26 DEF DisableDownload, None, Drops
<1>27. CASE Remove \/ DeleteData
  BY <1>27 DEF Remove, DeleteData, Destroying, None, Drops
<1>28. CASE ToggleBusy
  BY <1>28 DEF ToggleBusy, Call, Idle, None, Drops
<1>29. CASE EnableUpload
  BY <1>29 DEF EnableUpload, Drops
<1>30. CASE DisableUpload
  BY <1>30 DEF DisableUpload, Drops
<1>31. CASE UploadFails
  BY <1>31 DEF UploadFails, Drops
<1>32. ASSUME NEW n \in Net, Leave(n) PROVE Drops
  BY <1>32 DEF Leave, None, Drops
<1>33. ASSUME NEW n \in Net, Join(n) PROVE Drops
  BY <1>33 DEF Join, None, Idle, Drops
<1>34. CASE PauseAll
  BY <1>34 DEF PauseAll, Drops
<1>35. CASE UNCHANGED vars
  BY <1>35 DEF vars, Drops
<1>. QED BY <1>1, <1>2, <1>3, <1>4, <1>5, <1>6, <1>7, <1>8, <1>9, <1>10, <1>11, <1>12, <1>13, <1>14,
          <1>15, <1>16, <1>17, <1>18, <1>19, <1>20, <1>21, <1>22, <1>23, <1>24, <1>25, <1>26, <1>27,
          <1>28, <1>29, <1>30, <1>31, <1>32, <1>33, <1>34, <1>35
       DEF Next, Continue, Returning, Called

\* No end of an await takes a running download off the registry but that of a deletion,
\* and the mark "deleting" keeps it from one as long as it stands and no enable was past
\* it (transfer.ts:122-150, api/lishs.ts:354-361).
THEOREM NobodyDropped == Spec => NobodyIsDropped
<1>1. Inv /\ [Next]_vars => [Drops]_vars
  BY DropsStep
<1>2. [][Drops]_vars => NobodyIsDropped
  <2>1. [Drops]_vars => [\A i \in Download : (registry = i /\ registry' # i /\ Running(i)')
                                         => Removed /\ ~removing.guarded]_vars
    BY DEF Drops
  <2>. QED BY <2>1, PTL DEF NobodyIsDropped
<1>. QED BY <1>1, <1>2, Invariant, PTL DEF Spec
=============================================================================
