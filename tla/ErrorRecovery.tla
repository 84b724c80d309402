--------------------------- MODULE ErrorRecovery ----------------------------
(***************************************************************************)
(* The recovery of one LISH from an I/O error (api/error-recovery.ts): an  *)
(* entry with its timer, the attempts in flight and the number of attempts *)
(* that survives the entries.  Transfer drives it and answers its attempts.*)
(*                                                                         *)
(* The generations of the class only ever decide whether an attempt that   *)
(* comes back is still wanted: an attempt keeps that as a flag, which a    *)
(* stop takes away.                                                        *)
(***************************************************************************)
EXTENDS Naturals

CONSTANTS Attempt,      \* attempts that may be in flight at once
          MaxAttempts   \* MAX_RECOVERY_ATTEMPTS

ASSUME AttemptsAssumption == MaxAttempts \in Nat \ {0}

VARIABLES entry,        \* the entry: what was enabled, how often it was tried, its timer
          cumulative,   \* cumulativeRetries
          attempt       \* per attempt: where it is, whether it is current, what it restores

recoveryVars == <<entry, cumulative, attempt>>

NoEntry == [on |-> FALSE, download |-> FALSE, upload |-> FALSE, count |-> 0, timer |-> FALSE]
NoAttempt == [at |-> "idle", current |-> FALSE, download |-> FALSE, upload |-> FALSE]

RecoveryTypeOK ==
  /\ entry \in [on : BOOLEAN, download : BOOLEAN, upload : BOOLEAN, count : 0..MaxAttempts, timer : BOOLEAN]
  /\ cumulative \in 0..MaxAttempts
  /\ entry.on => cumulative \leq entry.count /\ entry.count < MaxAttempts
  /\ attempt \in [Attempt -> [at : {"idle", "mkdir", "check", "recover"}, current : BOOLEAN,
                              download : BOOLEAN, upload : BOOLEAN]]

RecoveryInit == entry = NoEntry /\ cumulative = 0 /\ attempt = [a \in Attempt |-> NoAttempt]

\* start: one entry at a time, and none once all the attempts are used up.
StartRecovery(download, upload) ==
  /\ entry' = IF entry.on \/ cumulative >= MaxAttempts THEN entry
              ELSE [on |-> TRUE, download |-> download, upload |-> upload, count |-> cumulative, timer |-> TRUE]
  /\ UNCHANGED <<cumulative, attempt>>

\* stop: the entry and its timer go, and no attempt in flight is wanted any more.
Outdated == [a \in Attempt |-> [attempt[a] EXCEPT !.current = FALSE]]
StopRecovery == entry' = NoEntry /\ attempt' = Outdated /\ UNCHANGED cumulative

\* The timer: the attempt is counted, and the last one is not made.  A missing directory
\* is made again first, whatever else is wrong is looked at straight away.
AttemptFires(a, hasDirectory) ==
  /\ entry.timer /\ attempt[a].at = "idle"
  /\ cumulative' = entry.count + 1
  /\ IF entry.count + 1 >= MaxAttempts \/ ~hasDirectory
     THEN entry' = NoEntry /\ attempt' = Outdated
     ELSE /\ entry' = [entry EXCEPT !.count = @ + 1, !.timer = FALSE]
          /\ \E first \in {"mkdir", "check"} :
               attempt' = [attempt EXCEPT ![a] =
                 [at |-> first, current |-> TRUE, download |-> entry.download, upload |-> entry.upload]]

AttemptReturns(a) == attempt' = [attempt EXCEPT ![a] = NoAttempt]

DirectoryMade(a) ==
  /\ attempt[a].at = "mkdir"
  /\ IF attempt[a].current THEN attempt' = [attempt EXCEPT ![a].at = "check"] ELSE AttemptReturns(a)
  /\ UNCHANGED <<entry, cumulative>>

\* The access check failed, or it is no longer wanted.
AccessDenied(a) ==
  /\ attempt[a].at = "check"
  /\ entry' = [entry EXCEPT !.timer = @ \/ attempt[a].current]
  /\ AttemptReturns(a) /\ UNCHANGED cumulative

\* The directory is there: the entry is removed before anything is enabled again.
AccessGranted(a) ==
  /\ attempt[a].at = "check" /\ attempt[a].current
  /\ entry' = NoEntry
  /\ attempt' = [attempt EXCEPT ![a].at = "recover"]
  /\ UNCHANGED cumulative

\* A success is only counted if nobody stopped the recovery meanwhile.
Attempted(a, success) ==
  /\ attempt[a].at = "recover"
  /\ cumulative' = IF attempt[a].current /\ success THEN 0 ELSE cumulative
  /\ AttemptReturns(a) /\ UNCHANGED entry

InFlight == \E a \in Attempt : attempt[a].at # "idle"
=============================================================================
