---------------------------- MODULE DownloadsView ----------------------------
(***************************************************************************)
(* The list of downloads the frontend keeps (frontend scripts/downloads.ts)*)
(* and what the backend's events make of it: one LISH, its row, the socket *)
(* that carries events in order, the timers, the loads after each connect. *)
(*                                                                         *)
(* Of the backend there is what the row tells: whether the LISH is there,  *)
(* whether it is enabled, what is going on with it.  Sizes, progress,      *)
(* names, notifications and the list of peers are left out.                *)
(***************************************************************************)
EXTENDS Naturals, Sequences

CONSTANTS MaxWire,        \* bound: events under way on the socket
          MaxDownloadEvents \* bound: events of the backend and losses of the connection

ASSUME DownloadsAssumption == MaxWire \in Nat /\ MaxDownloadEvents \in Nat

VARIABLES
  row,          \* the row in downloads: there, status, downloadEnabled, uploadEnabled
  activeDown, activeUp,     \* activeDownloads and activeUploadLishs hold the LISH
  downTimer, upTimer,       \* downloadStaleTimeouts and uploadTimeouts hold a timer
  restored,     \* the upload that is shown is one a load was told of, and none was heard of since (history)
  fetches,      \* answers to api.lishs.get under way, by what asked for them
  load,         \* where initDownloads is
  listed,       \* what lishs.list answered it
  older,        \* an initDownloads the connection was lost to still has to subscribe
  subscribed,   \* the backend has this socket's subscriptions
  wire,         \* events on the socket
  lish,         \* the backend's: there, down, up (enabled), work
  lost,         \* something of the flags happened that this view is not told
  downloadEvents

viewVars == <<row, activeDown, activeUp, downTimer, upTimer, restored, fetches>>
loadVars == <<load, listed, older, subscribed>>
downloadsVars == <<viewVars, loadVars, wire, lish, lost, downloadEvents>>

Status == {"idling", "downloading", "uploading", "downloading-uploading", "verifying",
           "pending-verification", "moving", "allocating", "error", "retrying"}
isStatusLocked == {"verifying", "pending-verification", "moving", "allocating", "error", "retrying"}
IsUploading == {"uploading", "downloading-uploading"}
IsDownloading == {"downloading", "downloading-uploading"}
Work == {"rest", "verifying", "moving", "download"}
NoRow == [there |-> FALSE, status |-> "idling", down |-> FALSE, up |-> FALSE]

DownloadsTypeOK ==
  /\ row \in [there : BOOLEAN, status : Status, down : BOOLEAN, up : BOOLEAN]
  /\ \A b \in {activeDown, activeUp, downTimer, upTimer, restored, older, subscribed, lost} : b \in BOOLEAN
  /\ fetches \subseteq {"verified", "resumed"}
  /\ load \in {"off", "list", "details", "transfers", "subscribe", "on"}
  /\ listed \in [down : BOOLEAN, up : BOOLEAN, work : Work] /\ Len(wire) <= MaxWire + 2
  /\ lish \in [there : BOOLEAN, down : BOOLEAN, up : BOOLEAN, work : Work]
  /\ downloadEvents \in 0..MaxDownloadEvents

DownloadsInit ==
  /\ row = NoRow /\ activeDown = FALSE /\ activeUp = FALSE
  /\ downTimer = FALSE /\ upTimer = FALSE /\ restored = FALSE /\ fetches = {}
  /\ load = "off" /\ listed = [down |-> FALSE, up |-> FALSE, work |-> "rest"]
  /\ older = FALSE /\ subscribed = FALSE /\ wire = <<>> /\ lost = FALSE /\ downloadEvents = 0
  /\ lish \in [there : BOOLEAN, down : {FALSE}, up : {FALSE}, work : {"rest"}]

computeStatus(isDown, isUp) ==
  IF isDown THEN (IF isUp THEN "downloading-uploading" ELSE "downloading")
  ELSE IF isUp THEN "uploading" ELSE "idling"
\* A row shows a status, unless the one it shows is locked; and every update is of the row there is.
ShowsRow(s) == IF row.status \in isStatusLocked THEN row.status ELSE s
Update(r) == row' = IF row.there THEN r ELSE row

-----------------------------------------------------------------------------
(* The backend: it sends events to whoever subscribed *)

Sends(events) == wire' = IF subscribed THEN wire \o events ELSE wire
\* Something happens and is told: told too late to be in the list that is being loaded, it is lost.
Backend == /\ downloadEvents < MaxDownloadEvents /\ Len(wire) < MaxWire
           /\ downloadEvents' = downloadEvents + 1 /\ UNCHANGED <<viewVars, loadVars>>
Untold == load = "details" \/ (load \in {"transfers", "subscribe"} /\ ~subscribed)
Changes(l, events) == Backend /\ lish' = l /\ Sends(events) /\ lost' = (lost \/ Untold)
Tells(event) == Backend /\ lish.there /\ Sends(<<event>>) /\ UNCHANGED <<lish, lost>>

BackendAdds ==   \* an import may overwrite the LISH, which keeps the flags in memory
  /\ Backend /\ lish.work = "rest" /\ lish' = [lish EXCEPT !.there = TRUE] /\ Sends(<<"add">>)
  /\ lost' = (lost \/ Untold \/ lish.there)
BackendRemoves == lish.there /\ Changes([there |-> FALSE, down |-> FALSE, up |-> FALSE, work |-> "rest"],
                                        <<"upload:disabled", "remove">>)
BackendEnables == /\ lish.there /\ lish.work \in {"rest", "download"}
                  /\ Changes([lish EXCEPT !.down = TRUE, !.work = "download"], <<"download:enabled">>)
BackendDisables == lish.there /\ Changes([lish EXCEPT !.down = FALSE, !.work = IF @ = "download" THEN "rest" ELSE @],
                                         <<"download:disabled">>)
BackendFails == lish.work = "download" /\ Changes([lish EXCEPT !.down = FALSE, !.work = "rest"], <<"download:error">>)
BackendEnablesUpload == lish.there /\ Changes([lish EXCEPT !.up = TRUE], <<"upload:enabled">>)
BackendDisablesUpload == lish.up /\ Changes([lish EXCEPT !.up = FALSE], <<"upload:disabled">>)
BackendFailsUpload == lish.up /\ Changes([lish EXCEPT !.up = FALSE], <<"upload:disabled", "upload:error">>)
BackendWorks ==
  \/ lish.work = "rest" /\ lish.there /\ Changes([lish EXCEPT !.work = "verifying"], <<"verify:started">>)
  \/ lish.work = "verifying" /\ Changes([lish EXCEPT !.work = "rest"], <<"verify:done">>)
  \/ lish.work = "rest" /\ lish.there /\ Changes([lish EXCEPT !.work = "moving"], <<"move:on">>)
  \/ lish.work = "moving" /\ Changes([lish EXCEPT !.work = "rest"], <<"move:off">>)
BackendTells ==
  \/ lish.work = "verifying" /\ \E e \in {"verify:file", "verify:files"} : Tells(e)
  \/ lish.work = "rest" /\ Tells("verify:queued")
  \/ lish.work = "download" /\ \E e \in {"progress", "progress:alone", "allocating", "rechecking",
                                        "retrying", "resumed", "complete"} : Tells(e)
  \/ lish.up /\ \E e \in {"upload:progress", "upload:stopped"} : Tells(e)

-----------------------------------------------------------------------------
(* The handlers *)

Hears(event) == /\ wire # <<>> /\ Head(wire) = event /\ wire' = Tail(wire)
                /\ UNCHANGED <<loadVars, lish, lost, downloadEvents>>
TimersKept == UNCHANGED <<downTimer, upTimer>>
ActiveKept == UNCHANGED <<activeDown, activeUp, restored>>
OnlyRow == ActiveKept /\ TimersKept /\ UNCHANGED fetches

\* A new row, or one anew: what was shown as downloading stays so, the flags start off.
LishAdded == /\ Hears("add") /\ OnlyRow
             /\ row' = [NoRow EXCEPT !.there = TRUE,
                          !.status = IF activeDown \/ (row.there /\ row.status = "downloading")
                                     THEN "downloading" ELSE "idling"]
LishRemoved == /\ Hears("remove") /\ row' = NoRow /\ activeDown' = FALSE
               /\ TimersKept /\ UNCHANGED <<activeUp, restored, fetches>>

\* Verification shows unless a move or a transfer does; its end asks for the LISH first.
Unverifiable == {"moving", "downloading", "downloading-uploading", "allocating"}
VerifyShown(event, s) == /\ Hears(event) /\ OnlyRow
                         /\ Update(IF row.status \in Unverifiable THEN row ELSE [row EXCEPT !.status = s])
VerifyHeard == \/ VerifyShown("verify:queued", "pending-verification")
               \/ VerifyShown("verify:started", "verifying")
               \/ VerifyShown("verify:file", "verifying")
               \/ VerifyShown("verify:files", "idling")
VerifyDone == /\ Hears("verify:done") /\ fetches' = fetches \cup {"verified"}
              /\ ActiveKept /\ TimersKept /\ UNCHANGED row
MoveStatus == \/ Hears("move:on") /\ OnlyRow /\ Update([row EXCEPT !.status = "moving"])
              \/ Hears("move:off") /\ OnlyRow /\ Update([row EXCEPT !.status = "idling"])

\* The allocation and the verification a transfer does itself stop the timer.
Allocating == /\ Hears("allocating") /\ downTimer' = FALSE /\ ActiveKept /\ UNCHANGED <<upTimer, fetches>>
              /\ Update(IF row.status \in isStatusLocked \ {"allocating", "retrying"} THEN row
                        ELSE [row EXCEPT !.status = "allocating"])
Rechecking == /\ Hears("rechecking") /\ downTimer' = FALSE /\ ActiveKept /\ UNCHANGED <<upTimer, fetches>>
              /\ Update([row EXCEPT !.status = "verifying"])
DownloadProgress ==
  \E hasPeers \in BOOLEAN :
    /\ Hears(IF hasPeers THEN "progress" ELSE "progress:alone")
    /\ activeDown' = hasPeers /\ downTimer' = TRUE /\ UNCHANGED <<activeUp, upTimer, restored, fetches>>
    /\ Update(IF row.status \in isStatusLocked \ {"allocating"} THEN row
              ELSE [row EXCEPT !.status = computeStatus(hasPeers, activeUp)])
\* Ten seconds without progress.  activeDownloads keeps the LISH.
DownloadStale == /\ downTimer /\ downTimer' = FALSE
                 /\ Update([row EXCEPT !.status = ShowsRow(computeStatus(FALSE, activeUp))])
                 /\ ActiveKept /\ UNCHANGED <<upTimer, fetches, loadVars, wire, lish, lost, downloadEvents>>

Stopped(event, r) == /\ Hears(event) /\ activeDown' = FALSE /\ Update(r)
                     /\ TimersKept /\ UNCHANGED <<activeUp, restored, fetches>>
DownloadDisabled == Stopped("download:disabled",
  [row EXCEPT !.down = FALSE, !.status = ShowsRow(computeStatus(FALSE, activeUp))])
DownloadEnabled == /\ Hears("download:enabled") /\ OnlyRow
                   /\ Update([row EXCEPT !.down = TRUE, !.status = IF @ = "error" THEN "idling" ELSE @])
DownloadComplete == Stopped("complete", [row EXCEPT !.status = ShowsRow(computeStatus(FALSE, activeUp))])
ErrorKeepsFlag == Stopped("download:error", [row EXCEPT !.status = "error"])
DownloadError == Stopped("download:error", [row EXCEPT !.status = "error", !.down = FALSE])
DownloadRetrying == Hears("retrying") /\ OnlyRow /\ Update([row EXCEPT !.status = "retrying"])
DownloadResumed == /\ Hears("resumed") /\ fetches' = fetches \cup {"resumed"}
                   /\ ActiveKept /\ TimersKept /\ UNCHANGED row

UploadProgress ==
  /\ Hears("upload:progress") /\ activeUp' = TRUE /\ upTimer' = TRUE /\ restored' = FALSE
  /\ Update([row EXCEPT !.status = ShowsRow(computeStatus(row.status \in IsDownloading \/ activeDown, TRUE))])
  /\ UNCHANGED <<activeDown, downTimer, fetches>>
UploadStopped == Hears("upload:stopped") /\ upTimer' = TRUE /\ ActiveKept /\ UNCHANGED <<row, downTimer, fetches>>
\* Fifteen or twenty seconds without an upload.
StaleKeepsStatus == /\ upTimer /\ upTimer' = FALSE /\ activeUp' = FALSE /\ restored' = FALSE
                    /\ UNCHANGED <<row, activeDown, downTimer, fetches, loadVars, wire, lish, lost, downloadEvents>>
UploadStale == /\ upTimer /\ upTimer' = FALSE /\ activeUp' = FALSE /\ restored' = FALSE
               /\ Update([row EXCEPT !.status = ShowsRow(computeStatus(activeDown, FALSE))])
               /\ UNCHANGED <<activeDown, downTimer, fetches, loadVars, wire, lish, lost, downloadEvents>>
UploadDisabled == /\ Hears("upload:disabled") /\ activeUp' = FALSE /\ restored' = FALSE
                  /\ Update([row EXCEPT !.up = FALSE, !.status = ShowsRow(computeStatus(activeDown, FALSE))])
                  /\ TimersKept /\ UNCHANGED <<activeDown, fetches>>
UploadEnabled == /\ Hears("upload:enabled") /\ OnlyRow
                 /\ Update([row EXCEPT !.up = TRUE, !.status = IF @ = "error" THEN "idling" ELSE @])
UploadError == /\ Hears("upload:error") /\ activeUp' = FALSE /\ restored' = FALSE
               /\ Update([row EXCEPT !.up = FALSE, !.status = "error"])
               /\ TimersKept /\ UNCHANGED <<activeDown, fetches>>

\* The answers the handlers asked for: each sets the status anew, whatever came meanwhile.
Fetched(why, r) == /\ why \in fetches /\ fetches' = fetches \ {why} /\ ActiveKept /\ TimersKept
                   /\ IF lish.there THEN Update(r) ELSE UNCHANGED row
                   /\ UNCHANGED <<loadVars, wire, lish, lost, downloadEvents>>
VerifiedFetched == Fetched("verified", IF row.status \in Unverifiable THEN row
                                       ELSE [row EXCEPT !.status = "idling"])
ResumedFetched == Fetched("resumed", [row EXCEPT !.status = IF row.down THEN "downloading" ELSE "idling"])

-----------------------------------------------------------------------------
(* What the user's own actions show before the backend says anything *)

Local(r) == /\ row.there /\ downloadEvents < MaxDownloadEvents /\ downloadEvents' = downloadEvents + 1
            /\ row' = r /\ OnlyRow /\ UNCHANGED <<loadVars, wire, lish, lost>>
resetVerifyState == /\ row.status \notin {"downloading", "downloading-uploading", "uploading", "allocating"}
                    /\ Local([row EXCEPT !.status = "pending-verification"])
setMovingStatus == Local([row EXCEPT !.status = "moving"])

-----------------------------------------------------------------------------
(* initDownloads, run at each connect *)

Loads(from, to) == load = from /\ load' = to /\ wire = <<>> /\ UNCHANGED <<wire, lish, downloadEvents>>
Connect == /\ Loads("off", "list") /\ UNCHANGED <<viewVars, listed, older, subscribed, lost>>
List == /\ Loads("list", "details") /\ lost' = FALSE
        /\ listed' = [down |-> lish.down, up |-> lish.up, work |-> lish.work]
        /\ UNCHANGED <<viewVars, older, subscribed>>
Details == /\ Loads("details", "transfers") /\ UNCHANGED <<listed, older, subscribed, lost>>
           /\ restored' = FALSE /\ TimersKept /\ UNCHANGED <<activeDown, activeUp, fetches>>
           /\ \E s \in {"error"} \cup (IF listed.work \in {"moving", "verifying"} THEN {listed.work}
                                   ELSE {"idling", "pending-verification"}) :
                row' = IF lish.there THEN [there |-> TRUE, status |-> s, down |-> listed.down, up |-> listed.up]
                       ELSE NoRow
\* getActiveTransfers: the status of what is under way is shown, but no handler learns of it.
Transfers == /\ Loads("transfers", "subscribe") /\ UNCHANGED <<listed, older, subscribed, lost>>
             /\ TimersKept /\ UNCHANGED <<activeDown, activeUp, fetches>>
             /\ \E isAllocating, isDown, isUp \in BOOLEAN :
                  LET s == IF isAllocating THEN "allocating" ELSE computeStatus(isDown, isUp) IN
                  /\ (isAllocating \/ isDown => lish.work = "download") /\ (isUp => lish.up)
                  /\ Update(IF s # "idling" THEN [row EXCEPT !.status = ShowsRow(s)] ELSE row)
             /\ restored' = (~activeUp /\ row'.status \in IsUploading)
Subscribe == /\ Loads("subscribe", "on") /\ subscribed' = TRUE
             /\ UNCHANGED <<viewVars, listed, older, lost>>
\* A load that lost its connection goes on with the next: it shows nothing, and subscribes.
OlderSubscribes == /\ older /\ load # "off" /\ older' = FALSE /\ subscribed' = TRUE
                   /\ UNCHANGED <<viewVars, load, listed, wire, lish, lost, downloadEvents>>
Disconnect ==
  /\ load # "off" /\ downloadEvents < MaxDownloadEvents /\ downloadEvents' = downloadEvents + 1
  /\ load' = "off" /\ wire' = <<>> /\ subscribed' = FALSE /\ fetches' = {}
  /\ older' = (older \/ load # "on") /\ row' = IF load \in {"list", "details"} THEN NoRow ELSE row
  /\ ActiveKept /\ TimersKept /\ UNCHANGED <<listed, lish, lost>>

DownloadsNext ==
  \/ BackendAdds \/ BackendRemoves \/ BackendEnables \/ BackendDisables \/ BackendFails
  \/ BackendEnablesUpload \/ BackendDisablesUpload \/ BackendFailsUpload \/ BackendWorks \/ BackendTells
  \/ LishAdded \/ LishRemoved \/ VerifyHeard \/ VerifyDone \/ MoveStatus
  \/ Allocating \/ Rechecking \/ DownloadProgress \/ DownloadStale \/ DownloadDisabled
  \/ DownloadEnabled \/ DownloadComplete \/ DownloadError \/ DownloadRetrying \/ DownloadResumed
  \/ UploadProgress \/ UploadStopped \/ UploadStale \/ UploadDisabled \/ UploadEnabled \/ UploadError
  \/ VerifiedFetched \/ ResumedFetched \/ resetVerifyState \/ setMovingStatus
  \/ Connect \/ List \/ Details \/ Transfers \/ Subscribe \/ OlderSubscribes \/ Disconnect

-----------------------------------------------------------------------------
(* Once loaded, and everything heard that was said, the row is there just  *)
(* when the LISH is and its switches stand as the backend has them --      *)
(* through reconnects, loads that overlap them, events of rows that are    *)
(* gone and answers that arrive late -- unless a change fell between the   *)
(* list and the subscription, or an import overwrote the LISH.             *)
FlagsFollow ==
  load = "on" /\ wire = <<>> /\ ~lost =>
    /\ row.there = lish.there
    /\ row.there => row.down = lish.down /\ row.up = lish.up

(* A row is shown as uploading only while progress of an upload has been   *)
(* heard and neither its timer nor the end of the upload has come since,   *)
(* or because the last load was told so: no order of progress, disabling,  *)
(* errors, timers and loads leaves it behind otherwise.                    *)
UploadIsHeard == row.there /\ row.status \in IsUploading => (activeUp /\ upTimer) \/ restored

-----------------------------------------------------------------------------
(* What the code does not guarantee (README, Divergences): an upload a load *)
(* was told of has a timer that takes it off again.                        *)
UploadHasTimer == load = "on" /\ row.there /\ row.status \in IsUploading => upTimer
=============================================================================
