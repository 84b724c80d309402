------------------------------ MODULE Transfer ------------------------------
(***************************************************************************)
(* The transfer API for one LISH (api/transfer.ts): the download that is   *)
(* registered for it, the calls that enable and disable it, the lishnets   *)
(* it is bound to, its error recovery, and the pause, clear and restore of *)
(* a factory reset.                                                        *)
(*                                                                         *)
(* Downloads are numbered as they are made and take the steps of           *)
(* DownloadContract, whatever Downloader does inside.  LISHs do not share  *)
(* state but for the admission gate, so one stands for all.                *)
(***************************************************************************)
EXTENDS ErrorRecovery, FiniteSets

CONSTANTS Net, Home,    \* lishnets, and those that are joined at first
          User,         \* calls of enableDownload by users that may be at work at once
          MaxDownloads, \* bound: downloads made
          MaxEvents     \* bound: calls, joins, leaves and faults (and one factory reset)

ASSUME BoundAssumption == MaxDownloads \in Nat /\ MaxEvents \in Nat /\ IsFiniteSet(Net) /\ Home \subseteq Net

CONSTANTS Rejoin, Restore \* the enableDownload of a join, and that of the end of a reset
ASSUME CallsAssumption == /\ User \cap Attempt = {} /\ Rejoin # Restore
                          /\ {Rejoin, Restore} \cap (User \cup Attempt) = {}

Call == User \cup Attempt \cup {Rejoin, Restore}
Download == 1..MaxDownloads
None == 0

VARIABLES
  closed,       \* transferAdmission.isClosed
  enabled, persisted,   \* the LISH in downloadEnabledLishs, and the flag in the database
  uploads,      \* the LISH in the upload-enabled set
  stored, whole,        \* the LISH is in the database, with every chunk flagged
  busy,                 \* isBusy
  pending,              \* the LISH is in pendingDownloads
  registry,             \* activeDownloaders.get(lishID)
  downs, made,          \* the downloads, and how many were made
  nets, bound,          \* per download: the lishnets it uses, and those it belongs to
  lifecycles,           \* pendingDownloadLifecycles: downloads whose end was not handled yet
  suspended,            \* networkSuspended: whether, and the lishnets it was bound to
  joined,
  call,                 \* per call of enableDownload: where it is, with which download and nets
  cleaning,             \* pendingDownloaderCleanups: downloads a leave destroys
  removing,             \* lishs.delete: where it is, the download it destroys, whether the LISH is
                        \* kept, and whether its busy mark has kept every enable out (history)
  reset, snapshot,      \* where the factory reset is, and what it remembers
  events

lishVars == <<stored, whole, busy>>
flagVars == <<enabled, persisted>>
downVars == <<downs, made, nets, bound, lifecycles>>
netVars == <<suspended, joined>>
resetVars == <<closed, reset, snapshot>>
callVars == <<pending, call>>
taskVars == <<cleaning, removing>>
vars == <<lishVars, flagVars, uploads, registry, downVars, netVars, resetVars, callVars,
          taskVars, recoveryVars, events>>

D == INSTANCE DownloadContract WITH d <- downs

Idle == [at |-> "idle", down |-> None, use |-> {}, belong |-> {}]
NotSuspended == [on |-> FALSE, to |-> {}]
NoSnapshot == [on |-> FALSE, use |-> {}, belong |-> {}]
NoRemoval == [at |-> "no", down |-> None, keeps |-> FALSE, guarded |-> FALSE]
\* A call of enableDownload that has looked at the busy mark.
PastCheck(c) == call[c].at \notin {"idle", "called", "yes", "no"}
Running(i) == downs[i].promise = "pending" /\ ~downs[i].disabled /\ ~downs[i].destroyed

TypeOK ==
  /\ RecoveryTypeOK
  /\ \A b \in {closed, enabled, persisted, uploads, stored, whole, busy} : b \in BOOLEAN
  /\ pending = (\E c \in Call : call[c].at \in {"access", "starting"})
  /\ made \in 0..MaxDownloads /\ registry \in 0..made
  /\ downs \in [Download -> D!Downloads] /\ lifecycles \subseteq 1..made
  /\ nets \in [Download -> SUBSET Net] /\ bound \in [Download -> SUBSET Net]
  /\ \A i \in Download : nets[i] \subseteq bound[i]
  /\ suspended \in [on : BOOLEAN, to : SUBSET Net] /\ joined \subseteq Net
  /\ call \in [Call -> [at : {"idle", "called", "destroying", "enabling", "disk", "access",
                              "starting", "reviving", "yes", "no"},
                        down : Download \cup {None}, use : SUBSET Net, belong : SUBSET Net]]
  /\ cleaning \subseteq 1..made 
  /\ removing \in [at : {"no", "destroying", "erasing"}, down : 0..made, keeps : BOOLEAN,
                   guarded : BOOLEAN]
  /\ reset \in {"no", "pausing", "clearing", "waiting", "draining", "cleared", "restoring",
                "restarting", "unsafe", "done"}
  /\ snapshot \in [on : BOOLEAN, use : SUBSET Net, belong : SUBSET Net]
  /\ events \in 0..MaxEvents

Init ==
  /\ RecoveryInit
  /\ closed = FALSE /\ enabled = FALSE /\ persisted = FALSE /\ uploads = FALSE
  /\ stored = TRUE /\ whole = FALSE /\ busy = FALSE /\ pending = FALSE
  /\ registry = None /\ made = 0 /\ lifecycles = {}
  /\ downs = [i \in Download |-> D!Made(FALSE)]
  /\ nets = [i \in Download |-> {}] /\ bound = [i \in Download |-> {}]
  /\ suspended = NotSuspended /\ joined = Home
  /\ call = [c \in Call |-> Idle] /\ cleaning = {} /\ removing = NoRemoval
  /\ reset = "no" /\ snapshot = NoSnapshot /\ events = 0

Event == events < MaxEvents /\ reset # "done" /\ events' = events + 1
Becomes(i, S) == \E e \in S : downs' = [downs EXCEPT ![i] = e]
Unregister(i) == registry' = IF registry = i THEN None ELSE registry


-----------------------------------------------------------------------------
(* enableDownload, in the parts between its awaits *)

To(c, r) == /\ call' = [call EXCEPT ![c] = r]
            /\ pending' = \E b \in Call : call'[b].at \in {"access", "starting"}
Answer(c, ok) == To(c, [Idle EXCEPT !.at = IF ok THEN "yes" ELSE "no"])

\* It goes wrong: flags and database say so, and the recovery may start.
EnableFails(c) ==
  /\ enabled' = FALSE /\ persisted' = FALSE
  /\ \/ UNCHANGED recoveryVars
     \/ StartRecovery(TRUE, uploads)
  /\ Answer(c, FALSE)
\* It went right: nothing is suspended or to be recovered any more.
EnableSucceeds(c) == suspended' = NotSuspended /\ StopRecovery /\ Answer(c, TRUE)

\* The networks to use: those the suspension remembers, or all that are joined.
Belong == IF suspended.to # {} THEN suspended.to ELSE joined
ToAccess(c, on) ==
  IF Belong \cap joined = {}
  THEN /\ enabled' = FALSE /\ Answer(c, FALSE)
       /\ suspended' = IF suspended.to # {} THEN suspended ELSE [on |-> TRUE, to |-> {}]
  ELSE /\ To(c, [at |-> "access", down |-> None, use |-> Belong \cap joined, belong |-> Belong])
       /\ enabled' = on /\ UNCHANGED suspended

\* From the store: unless the LISH is gone, or everything is there.
FromStore(c, on, inDatabase) ==
  \/ ~stored /\ enabled' = FALSE /\ persisted' = FALSE /\ Answer(c, FALSE) /\ UNCHANGED suspended
  \/ /\ stored /\ whole /\ enabled' = on /\ persisted' = inDatabase
     /\ To(c, [Idle EXCEPT !.at = "disk"]) /\ UNCHANGED suspended
  \/ stored /\ ~whole /\ persisted' = inDatabase /\ ToAccess(c, on)

\* The part of a call before its first await.
Enter(c) ==
  /\ call[c].at = "called"
  /\ \/ /\ busy \/ (closed /\ c # Restore)
        /\ Answer(c, FALSE) /\ UNCHANGED <<flagVars, downs, suspended, recoveryVars>>
     \/ /\ ~busy /\ (c = Restore \/ ~closed) /\ pending
        /\ Answer(c, TRUE) /\ UNCHANGED <<flagVars, downs, suspended, recoveryVars>>
     \/ /\ ~busy /\ (c = Restore \/ ~closed) /\ ~pending
        /\ IF registry = None THEN FromStore(c, TRUE, TRUE) /\ UNCHANGED <<downs, recoveryVars>>
           ELSE LET i == registry IN
             \/ /\ suspended.on /\ bound[i] # {} /\ bound[i] \cap joined = {}
                /\ enabled' = FALSE /\ persisted' = TRUE
                /\ Answer(c, FALSE) /\ UNCHANGED <<downs, suspended, recoveryVars>>
             \/ /\ ~(suspended.on /\ bound[i] # {} /\ bound[i] \cap joined = {})
                /\ enabled' = TRUE /\ persisted' = TRUE /\ UNCHANGED <<suspended, recoveryVars>>
                /\ IF downs[i].phase = "error"
                   THEN Becomes(i, D!Destroyed(downs[i])) /\ To(c, [Idle EXCEPT !.at = "destroying", !.down = i])
                   ELSE To(c, [Idle EXCEPT !.at = "enabling", !.down = i]) /\ UNCHANGED downs
  /\ UNCHANGED <<lishVars, uploads, registry, made, nets, bound, lifecycles, joined, resetVars,
                 taskVars, events>>

\* Mutant: whoever is registered by now is taken off.
RudelyReplaced(c) ==
  /\ call[c].at = "destroying" /\ downs[call[c].down].quiet
  /\ registry' = None
  /\ FromStore(c, enabled, persisted)
  /\ UNCHANGED <<lishVars, uploads, downVars, joined, resetVars, taskVars, recoveryVars, events>>

\* The broken download is destroyed: a fresh one is made from the store.
Replaced(c) ==
  /\ call[c].at = "destroying" /\ downs[call[c].down].quiet
  /\ Unregister(call[c].down)
  /\ FromStore(c, enabled, persisted)
  /\ UNCHANGED <<lishVars, uploads, downVars, joined, resetVars, taskVars, recoveryVars, events>>

\* enable() of the download returns: it goes on, or its directory is not accessible.
Resumes(c) ==
  LET i == call[c].down IN
  /\ call[c].at = "enabling"
  /\ \/ /\ Becomes(i, D!Resumed(downs[i])) /\ EnableSucceeds(c)
        /\ UNCHANGED <<flagVars, registry>>
     \/ /\ Becomes(i, D!Failed(downs[i])) /\ EnableFails(c) /\ Unregister(i)
        /\ UNCHANGED suspended
  /\ UNCHANGED <<lishVars, uploads, made, nets, bound, lifecycles, joined, resetVars, taskVars, events>>

\* All chunks are flagged: the files are looked at, and fetched again if they are gone.
DiskChecked(c) ==
  /\ call[c].at = "disk"
  /\ \/ Answer(c, TRUE) /\ UNCHANGED <<whole, enabled, suspended>>
     \/ whole' = FALSE /\ ToAccess(c, enabled)
  /\ UNCHANGED <<stored, busy, persisted, uploads, registry, downVars, joined, resetVars,
                 taskVars, recoveryVars, events>>

Accessed(c) ==
  /\ call[c].at = "access"
  /\ \/ To(c, [call[c] EXCEPT !.at = "starting"]) /\ UNCHANGED <<flagVars, recoveryVars>>
     \/ EnableFails(c)
  /\ UNCHANGED <<lishVars, uploads, registry, downVars, netVars, resetVars, taskVars, events>>

\* claimActiveDownloader and download(): unless somebody registered one meanwhile.
Claim(use, belong) ==
  IF registry # None THEN UNCHANGED <<registry, downVars>>
  ELSE /\ made < MaxDownloads /\ made' = made + 1 /\ registry' = made + 1
       /\ nets' = [nets EXCEPT ![made + 1] = use] /\ bound' = [bound EXCEPT ![made + 1] = belong]
       /\ lifecycles' = lifecycles \cup {made + 1}
       /\ Becomes(made + 1, D!Started(D!Made(FALSE)))

\* startStoredDownloader: a LISH that is gone or a directory that is not there stops it.
Starts(c) ==
  /\ call[c].at = "starting"
  /\ \/ /\ stored /\ Claim(call[c].use, call[c].belong) /\ EnableSucceeds(c)
        /\ UNCHANGED flagVars
     \/ EnableFails(c) /\ UNCHANGED <<registry, downVars, suspended>>
  /\ UNCHANGED <<lishVars, uploads, joined, resetVars, taskVars, events>>

-----------------------------------------------------------------------------
(* Who calls, and what becomes of the answer *)

UserEnables(u) ==
  /\ call[u].at = "idle" /\ reset # "unsafe" /\ Event
  /\ call' = [call EXCEPT ![u] = [Idle EXCEPT !.at = "called"]]
  /\ UNCHANGED <<lishVars, flagVars, uploads, registry, downVars, netVars, resetVars, pending,
                 taskVars, recoveryVars>>

UserAnswered(u) ==
  /\ call[u].at \in {"yes", "no"}
  /\ call' = [call EXCEPT ![u] = Idle]
  /\ UNCHANGED <<lishVars, flagVars, uploads, registry, downVars, netVars, resetVars, pending,
                 taskVars, recoveryVars, events>>

\* A join that brought it back ends the suspension.
RejoinAnswered ==
  /\ call[Rejoin].at \in {"yes", "no"}
  /\ suspended' = IF call[Rejoin].at = "yes" THEN NotSuspended ELSE suspended
  /\ call' = [call EXCEPT ![Rejoin] = Idle]
  /\ UNCHANGED <<lishVars, flagVars, uploads, registry, downVars, joined, resetVars, pending,
                 taskVars, recoveryVars, events>>

\* The recovery found the directory: it enables what was enabled.
AttemptEnables(a) ==
  /\ AccessGranted(a)
  /\ call' = [call EXCEPT ![a] = [Idle EXCEPT !.at = IF attempt[a].download THEN "called" ELSE "yes"]]
  /\ UNCHANGED <<lishVars, flagVars, uploads, registry, downVars, netVars, resetVars, pending,
                 taskVars, events>>

\* enableUpload: stops the recovery it is part of.
UploadMay == ~closed /\ stored /\ ~busy
AttemptAnswered(a) ==
  LET success == call[a].at = "yes" IN
  /\ call[a].at \in {"yes", "no"}
  /\ call' = [call EXCEPT ![a] = Idle]
  /\ IF success /\ attempt[a].upload /\ UploadMay
     THEN /\ uploads' = TRUE /\ entry' = NoEntry
          /\ attempt' = [Outdated EXCEPT ![a] = NoAttempt] /\ UNCHANGED cumulative
     ELSE /\ Attempted(a, success /\ ~attempt[a].upload) /\ UNCHANGED uploads
  /\ UNCHANGED <<lishVars, flagVars, registry, downVars, netVars, resetVars, pending,
                 taskVars, events>>

RecoveryStep ==
  /\ \E a \in Attempt : AttemptFires(a, stored) \/ DirectoryMade(a) \/ AccessDenied(a)
  /\ UNCHANGED <<lishVars, flagVars, uploads, registry, downVars, netVars, resetVars, callVars,
                 taskVars, events>>

-----------------------------------------------------------------------------
(* The downloads themselves *)

\* What a download does of its own accord.
Own(e) == D!Failed(e) \cup D!Broken(e) \cup D!Overtaken(e) \cup D!Completed(e)
          \cup D!Resolved(e) \cup D!Cancelled(e) \cup D!Quieted(e)
Works(i) ==
  /\ i \in lifecycles /\ Becomes(i, Own(downs[i])) /\ downs' # downs
  /\ UNCHANGED <<lishVars, flagVars, uploads, registry, made, nets, bound, lifecycles, netVars,
                 resetVars, callVars, taskVars, recoveryVars, events>>

\* What a destroyed download comes to, whatever it was doing.
Quietens(i) ==
  /\ i \in 1..made /\ Becomes(i, D!Cancelled(downs[i]) \cup D!Quieted(downs[i])) /\ downs' # downs
  /\ UNCHANGED <<lishVars, flagVars, uploads, registry, made, nets, bound, lifecycles, netVars,
                 resetVars, callVars, taskVars, recoveryVars, events>>

\* Its promise settles: whoever is still registered is taken off, and a failure starts
\* the recovery.
Ends(i) ==
  /\ i \in lifecycles /\ D!Settled(downs[i])
  /\ lifecycles' = lifecycles \ {i} /\ Unregister(i)
  /\ \/ /\ downs[i].promise = "failed" /\ enabled' = FALSE /\ persisted' = FALSE /\ UNCHANGED whole
        /\ \/ UNCHANGED recoveryVars
           \/ StartRecovery(TRUE, uploads)
     \/ /\ downs[i].promise = "resolved" /\ whole' = TRUE
        /\ UNCHANGED <<flagVars, recoveryVars>>
     \/ downs[i].promise = "cancelled" /\ UNCHANGED <<flagVars, whole, recoveryVars>>
  /\ UNCHANGED <<stored, busy, uploads, downs, made, nets, bound, netVars, resetVars, callVars,
                 taskVars, events>>

-----------------------------------------------------------------------------
(* Disabling, removing, uploads *)

DisableDownload ==
  /\ ~closed /\ Event
  /\ suspended' = NotSuspended /\ StopRecovery
  /\ enabled' = FALSE /\ persisted' = FALSE
  /\ IF registry = None THEN UNCHANGED downs
     ELSE downs' = [downs EXCEPT ![registry].disabled = TRUE]
  /\ UNCHANGED <<lishVars, uploads, registry, made, nets, bound, lifecycles, joined,
                 resetVars, callVars, taskVars>>

Destroying(keeps) ==
  /\ ~closed /\ stored /\ removing.at = "no" /\ Event
  /\ removing' = [at |-> "destroying", down |-> registry, keeps |-> keeps,
                  guarded |-> keeps /\ \A c \in Call : ~PastCheck(c)]
  /\ IF registry = None THEN UNCHANGED downs ELSE Becomes(registry, D!Destroyed(downs[registry]))
  /\ UNCHANGED <<stored, whole, persisted, registry, made, nets, bound, lifecycles, joined,
                 resetVars, callVars, cleaning>>

\* lishs.delete: recovery, uploads and the runtime state go before the LISH does.
Remove ==
  /\ Destroying(FALSE)
  /\ StopRecovery /\ uploads' = FALSE /\ enabled' = FALSE /\ suspended' = NotSuspended
  /\ UNCHANGED busy

\* Mutant: only the verification that follows makes the LISH busy.
BoldDeleteData == Destroying(TRUE) /\ UNCHANGED <<busy, enabled, uploads, suspended, recoveryVars>>

\* lishs.delete of the data alone: the LISH is busy meanwhile, and stays what it was.
DeleteData ==
  /\ Destroying(TRUE) /\ busy' = TRUE
  /\ UNCHANGED <<enabled, uploads, suspended, recoveryVars>>

\* The download is destroyed, and whatever is registered by now is taken off with it.
Removed ==
  /\ removing.at = "destroying" /\ (removing.down # None => downs[removing.down].quiet)
  /\ removing' = [at |-> "erasing", down |-> None, keeps |-> removing.keeps, guarded |-> FALSE]
  /\ registry' = IF removing.down = None THEN registry ELSE None
  /\ busy' = (busy /\ removing.keeps)
  /\ UNCHANGED <<stored, whole, flagVars, uploads, downVars, netVars, resetVars, callVars, cleaning,
                 recoveryVars, events>>

\* The files are gone: the LISH goes too, or is verified from nothing.
Erased ==
  /\ removing.at = "erasing" /\ removing' = NoRemoval
  /\ IF removing.keeps
     THEN whole' = FALSE /\ busy' = TRUE /\ UNCHANGED <<stored, persisted>>
     ELSE stored' = FALSE /\ persisted' = FALSE /\ UNCHANGED <<whole, busy>>
  /\ UNCHANGED <<enabled, uploads, registry, downVars, netVars, resetVars, callVars, cleaning,
                 recoveryVars, events>>

\* A verification or a move begins or ends; the end of a verification enables again.
ToggleBusy ==
  /\ stored /\ Event /\ busy' = ~busy
  /\ removing' = [removing EXCEPT !.guarded = FALSE]
  /\ call' = IF busy /\ enabled /\ ~closed
             THEN [c \in Call |-> IF c \in User /\ call[c].at = "idle" THEN [Idle EXCEPT !.at = "called"]
                                  ELSE call[c]]
             ELSE call
  /\ UNCHANGED <<stored, whole, flagVars, uploads, registry, downVars, netVars, resetVars, pending,
                 cleaning, recoveryVars>>

EnableUpload ==
  /\ UploadMay /\ ~uploads /\ Event
  /\ StopRecovery /\ uploads' = TRUE
  /\ UNCHANGED <<lishVars, flagVars, registry, downVars, netVars, resetVars, callVars, taskVars>>
DisableUpload ==
  /\ ~closed /\ uploads /\ Event
  /\ StopRecovery /\ uploads' = FALSE
  /\ UNCHANGED <<lishVars, flagVars, registry, downVars, netVars, resetVars, callVars, taskVars>>
\* Serving a chunk failed: the upload is off, and the recovery restores what was on.
UploadFails ==
  /\ ~closed /\ uploads /\ stored /\ Event
  /\ uploads' = FALSE
  /\ StartRecovery(enabled, TRUE)
  /\ UNCHANGED <<lishVars, flagVars, registry, downVars, netVars, resetVars, callVars, taskVars>>

-----------------------------------------------------------------------------
(* Leaving and joining lishnets *)

\* handleLeftDownloader: only the last joined lishnet stops the download.
Leave(n) ==
  LET i == registry IN
  /\ n \in joined /\ joined' = joined \ {n} /\ Event
  /\ IF i = None \/ n \notin nets[i]
     THEN UNCHANGED <<flagVars, suspended, downs, nets, cleaning, recoveryVars>>
     ELSE /\ nets' = [nets EXCEPT ![i] = @ \ {n}]
          /\ UNCHANGED persisted
          /\ IF nets[i] \cap joined' # {}
             THEN UNCHANGED <<enabled, suspended, downs, cleaning, recoveryVars>>
             ELSE /\ enabled' = FALSE /\ StopRecovery
                  /\ IF enabled
                     THEN /\ downs' = [downs EXCEPT ![i].disabled = TRUE]
                          /\ suspended' = [on |-> TRUE, to |-> bound[i]] /\ UNCHANGED cleaning
                     ELSE /\ Becomes(i, D!Destroyed(downs[i]))
                          /\ cleaning' = cleaning \cup {i} /\ UNCHANGED suspended
  /\ UNCHANGED <<lishVars, uploads, registry, made, bound, lifecycles, resetVars, callVars, removing>>

\* Mutant: a cleanup whose download is not registered any more is never over.
FussyCleaned(i) ==
  /\ i \in cleaning /\ downs[i].quiet /\ registry = i
  /\ cleaning' = cleaning \ {i} /\ Unregister(i)
  /\ UNCHANGED <<lishVars, flagVars, uploads, downVars, netVars, resetVars, callVars, removing,
                 recoveryVars, events>>

Cleaned(i) ==
  /\ i \in cleaning /\ downs[i].quiet
  /\ cleaning' = cleaning \ {i} /\ Unregister(i)
  /\ UNCHANGED <<lishVars, flagVars, uploads, downVars, netVars, resetVars, callVars, removing,
                 recoveryVars, events>>

\* Mutant: whatever is joined is used, by whomever it was left.
StrayJoin(n) ==
  LET i == registry IN
  /\ n \in Net \ joined /\ joined' = joined \cup {n} /\ Event
  /\ nets' = IF i # None THEN [nets EXCEPT ![i] = @ \cup {n}] ELSE nets
  /\ UNCHANGED <<lishVars, flagVars, uploads, registry, downs, made, bound, lifecycles, suspended,
                 resetVars, callVars, taskVars, recoveryVars>>

\* onNetworkJoined: the lishnet is attached again, and what it suspended goes on.
Join(n) ==
  LET i == registry IN
  /\ n \in Net \ joined /\ joined' = joined \cup {n} /\ Event
  /\ nets' = IF i # None /\ n \in bound[i] THEN [nets EXCEPT ![i] = @ \cup {n}] ELSE nets
  /\ IF suspended.on /\ (suspended.to = {} \/ n \in suspended.to)
     THEN call[Rejoin].at = "idle" /\ call' = [call EXCEPT ![Rejoin] = [Idle EXCEPT !.at = "called"]]
     ELSE UNCHANGED call
  /\ UNCHANGED <<lishVars, flagVars, uploads, registry, downs, made, bound, lifecycles, suspended,
                 resetVars, pending, taskVars, recoveryVars>>

-----------------------------------------------------------------------------
(* The factory reset *)

Inside == \E c \in Call : call[c].at \notin {"idle", "called", "no"}

PauseAll ==
  /\ reset = "no" /\ removing.at = "no"
  /\ closed' = TRUE /\ reset' = "pausing"
  /\ UNCHANGED <<lishVars, flagVars, uploads, registry, downVars, netVars, snapshot, callVars,
                 taskVars, recoveryVars, events>>

\* Mutant: the calls under way are not waited for.
HastyPaused ==
  /\ reset = "pausing" /\ cleaning = {}
  /\ snapshot' = IF registry # None
                 THEN [on |-> TRUE, use |-> nets[registry], belong |-> bound[registry]]
                 ELSE [on |-> suspended.on, use |-> {}, belong |-> suspended.to]
  /\ reset' = IF registry = None THEN "waiting" ELSE "clearing"
  /\ IF registry = None THEN UNCHANGED downs ELSE Becomes(registry, D!Destroyed(downs[registry]))
  /\ UNCHANGED <<closed, lishVars, flagVars, uploads, registry, made, nets, bound, lifecycles,
                 netVars, callVars, taskVars, recoveryVars, events>>

\* Every call has returned and every leave has cleaned up: the downloads are remembered
\* and destroyed.
Paused ==
  /\ reset = "pausing" /\ ~Inside /\ cleaning = {}
  /\ snapshot' = IF registry # None
                 THEN [on |-> TRUE, use |-> nets[registry], belong |-> bound[registry]]
                 ELSE [on |-> suspended.on, use |-> {}, belong |-> suspended.to]
  /\ reset' = IF registry = None THEN "waiting" ELSE "clearing"
  /\ IF registry = None THEN UNCHANGED downs ELSE Becomes(registry, D!Destroyed(downs[registry]))
  /\ UNCHANGED <<closed, lishVars, flagVars, uploads, registry, made, nets, bound, lifecycles,
                 netVars, callVars, taskVars, recoveryVars, events>>

Torn ==
  /\ reset = "clearing" /\ \A i \in 1..made : downs[i].destroyed => downs[i].quiet
  /\ registry' = None /\ reset' = "waiting"
  /\ UNCHANGED <<closed, snapshot, lishVars, flagVars, uploads, downVars, netVars, callVars,
                 taskVars, recoveryVars, events>>

\* Every promise of a download has been dealt with: nothing is enabled from here on.
LifecyclesEnd ==
  /\ reset = "waiting" /\ lifecycles = {}
  /\ enabled' = FALSE /\ suspended' = NotSuspended /\ StopRecovery /\ reset' = "draining"
  /\ UNCHANGED <<closed, snapshot, lishVars, persisted, uploads, registry, downVars, joined,
                 callVars, taskVars, events>>

Drained ==
  /\ reset = "draining" /\ ~InFlight /\ reset' = "cleared"
  /\ UNCHANGED <<closed, snapshot, lishVars, flagVars, uploads, registry, downVars, netVars,
                 callVars, taskVars, recoveryVars, events>>

\* The stores are wiped or not, and the node starts with the lishnets there still are.
Restarted(wipe, left) ==
  /\ reset = "cleared" /\ joined' = left
  /\ stored' = (stored /\ ~wipe) /\ persisted' = (persisted /\ ~wipe)
  /\ enabled' = persisted' /\ uploads' = (uploads /\ ~wipe)
  /\ reset' = IF enabled' THEN "restoring" ELSE "restarting"
  /\ UNCHANGED <<closed, snapshot, whole, busy, registry, downVars, suspended, callVars, taskVars,
                 recoveryVars, events>>

\* restoreAllTransfers: as planDownloadRestore says, or by enabling what was not running.
Plan == IF snapshot.belong # {} THEN snapshot.belong ELSE snapshot.use
RestoreAll ==
  /\ reset = "restoring" /\ call[Restore].at = "idle"
  /\ IF ~snapshot.on
     THEN /\ call' = [call EXCEPT ![Restore] = [Idle EXCEPT !.at = "called"]]
          /\ UNCHANGED <<enabled, suspended, reset>>
     ELSE IF Plan \cap joined = {}
     THEN /\ enabled' = FALSE /\ suspended' = [on |-> TRUE, to |-> Plan] /\ reset' = "restarting"
          /\ UNCHANGED call
     ELSE /\ suspended' = NotSuspended /\ UNCHANGED <<enabled, reset>>
          /\ call' = [call EXCEPT ![Restore] = [at |-> "reviving", down |-> None,
                                                use |-> Plan \cap joined, belong |-> Plan]]
  /\ UNCHANGED <<closed, snapshot, lishVars, persisted, uploads, registry, downVars, joined,
                 pending, taskVars, recoveryVars, events>>

Revived ==
  /\ call[Restore].at = "reviving"
  /\ \/ /\ stored /\ Claim(call[Restore].use, call[Restore].belong)
        /\ StopRecovery /\ Answer(Restore, TRUE)
     \/ Answer(Restore, FALSE) /\ UNCHANGED <<registry, downVars, recoveryVars>>
  /\ UNCHANGED <<lishVars, flagVars, uploads, netVars, resetVars, taskVars, events>>

\* A download that could not be restored keeps everything closed.
RestoreAnswered ==
  /\ call[Restore].at \in {"yes", "no"}
  /\ call' = [call EXCEPT ![Restore] = Idle]
  /\ reset' = IF call[Restore].at = "yes" \/ (~snapshot.on /\ suspended.on) THEN "restarting" ELSE "unsafe"
  /\ UNCHANGED <<closed, snapshot, lishVars, flagVars, uploads, registry, downVars, netVars, pending,
                 taskVars, recoveryVars, events>>

ResumeAll ==
  /\ reset = "restarting" /\ closed' = FALSE /\ reset' = "done" /\ snapshot' = NoSnapshot
  /\ UNCHANGED <<lishVars, flagVars, uploads, registry, downVars, netVars, callVars, taskVars,
                 recoveryVars, events>>

-----------------------------------------------------------------------------
\* Continuations of one turn: they run before anything else is let in.
Urgent == \E c \in Call : call[c].at \in {"called", "yes", "no"}
Continue ==
  \/ \E c \in Call : Enter(c)
  \/ \E u \in User : UserAnswered(u)
  \/ \E a \in Attempt : AttemptAnswered(a)
  \/ RejoinAnswered \/ RestoreAnswered

Returning ==
  \/ \E c \in Call : Replaced(c) \/ Resumes(c) \/ DiskChecked(c) \/ Accessed(c) \/ Starts(c)
  \/ \E i \in Download : Works(i) \/ Ends(i) \/ Cleaned(i)
  \/ RecoveryStep \/ Removed \/ Erased \/ Paused \/ Torn \/ LifecyclesEnd \/ Drained
  \/ \E a \in Attempt : AttemptEnables(a)
  \/ \E wipe \in BOOLEAN, left \in SUBSET joined : Restarted(wipe, left)
  \/ RestoreAll \/ Revived \/ ResumeAll
Called ==
  \/ \E u \in User : UserEnables(u)
  \/ DisableDownload \/ Remove \/ DeleteData \/ ToggleBusy \/ EnableUpload \/ DisableUpload \/ UploadFails
  \/ \E n \in Net : Leave(n) \/ Join(n)
  \/ PauseAll

Next == Continue \/ (~Urgent /\ (Returning \/ Called))
Spec == Init /\ [][Next]_vars

-----------------------------------------------------------------------------
(* Properties *)

\* After a factory reset has cleared the transfers nothing of them is left to come back:
\* no download is registered or runs, none is enabled or suspended, and no call, timer or
\* attempt of the recovery could make one.
ClosedIsQuiet ==
  reset = "cleared" =>
    /\ registry = None /\ ~enabled /\ ~suspended.on /\ ~Inside /\ ~InFlight /\ ~entry.on
    /\ \A i \in Download : ~Running(i)

\* While the transfers are paused for a reset nothing downloads, and nothing
\* will without a new call (transfer.ts pauseAllTransfers).
PausedIsQuiet == TypeOK /\ ClosedIsQuiet

\* Every end of an await looks whether a download is still the one registered before it
\* takes it off, but for that of a deletion. So one that runs is taken off only by the
\* deletion of the LISH, or by one of its data whose mark "deleting" did not keep every
\* enable out: one was past its look at the mark, or the mark was lifted meanwhile.
NobodyIsDropped ==
  [][\A i \in Download : (registry = i /\ registry' # i /\ Running(i)') => Removed /\ ~removing.guarded]_vars

\* The pause of a factory reset returns: every call and every leave under way ends.
PauseReturns == reset = "pausing" ~> reset # "pausing"

\* File accesses return, timers fire, a destroyed download falls quiet, each in turn;
\* nobody has to call and no download has to end of itself.
Fairness ==
  /\ WF_vars(Continue)
  /\ WF_vars(~Urgent /\ \E c \in Call : Replaced(c) \/ Resumes(c) \/ DiskChecked(c) \/ Accessed(c) \/ Starts(c))
  /\ WF_vars(~Urgent /\ \E i \in Download : Quietens(i) \/ Cleaned(i))
  /\ WF_vars(~Urgent /\ Paused)
FairSpec == Spec /\ Fairness

-----------------------------------------------------------------------------
(* What the code does not guarantee (README, Divergences) *)

\* A LISH that is kept keeps the download that runs for it.
DeletionDropsItsOwn ==
  [][\A i \in Download : (Removed /\ removing.keeps /\ registry = i /\ registry' # i) => ~Running(i)]_vars

\* "Atomically install one downloader per LISH".
AtMostOneRuns == \A i, j \in Download : Running(i) /\ Running(j) => i = j

\* A download uses no lishnet that was left.
RunsOnJoinedOnly == \A i \in Download : Running(i) => nets[i] \subseteq joined

\* What runs is enabled, and what is enabled is enabled after a restart.
RunningIsEnabled == \A i \in Download : (Running(i) /\ ~Inside) => enabled
EnabledIsPersisted == enabled => persisted
=============================================================================
