------------------------------ MODULE MCClient ------------------------------
(* The parts of the frontend, each by itself: mode says which of them       *)
(* moves; the others stay at one of their initial states.                   *)
EXTENDS DownloadsView, Connection, FileBrowser, NavArea, DownloadDetail, SearchView,
        Input, Navigation, Watch

VARIABLE mode

Modes == {"downloads", "connection", "browser", "area", "detail", "search", "input",
          "navigation", "watch"}

allVars == <<downloadsVars, connectionVars, browserVars, navVars, detailVars, searchViewVars,
             inputVars, navigationVars, watchVars, mode>>

Sameness ==
  /\ mode # "downloads" => UNCHANGED downloadsVars
  /\ mode # "connection" => UNCHANGED connectionVars
  /\ mode # "browser" => UNCHANGED browserVars
  /\ mode # "area" => UNCHANGED navVars
  /\ mode # "detail" => UNCHANGED detailVars
  /\ mode # "search" => UNCHANGED searchViewVars
  /\ mode # "input" => UNCHANGED inputVars
  /\ mode # "navigation" => UNCHANGED navigationVars
  /\ mode # "watch" => UNCHANGED watchVars

\* What the initial states leave open is fixed where it does not matter, and a
\* browser of directories is one that saves.
mcInit ==
  /\ mode \in Modes
  /\ DownloadsInit /\ ConnectionInit /\ BrowserInit /\ NavInit /\ DetailInit
  /\ SearchViewInit /\ InputInit /\ NavigationInit /\ WatchInit
  /\ mode # "downloads" => lish.there
  /\ mode # "connection" => token = ""
  /\ props.directoriesOnly = props.save
  /\ mode # "browser" => props.save
  /\ mode # "area" => initialPosition = NoPos /\ trap /\ listRange = NoRange /\ isAreaActive

mcNext ==
  /\ UNCHANGED mode /\ Sameness
  /\ \/ mode = "downloads" /\ DownloadsNext
     \/ mode = "connection" /\ ConnectionNext
     \/ mode = "browser" /\ BrowserNext
     \/ mode = "area" /\ NavNext
     \/ mode = "detail" /\ DetailNext
     \/ mode = "search" /\ SearchViewNext
     \/ mode = "input" /\ InputNext
     \/ mode = "navigation" /\ NavigationNext
     \/ mode = "watch" /\ WatchNext

\* The server answers, sockets settle, timers fire, and a backend that stopped is started again.
Connecting(A) == mode = "connection" /\ A
ClientFairness ==
  /\ \A r \in Request : WF_connectionVars(Connecting(Answer(r)))
  /\ \A s \in Socket : WF_connectionVars(Connecting(OnOpen(s) \/ OnError(s) \/ OnClose(s)))
  /\ WF_connectionVars(Connecting(Timer)) /\ WF_connectionVars(Connecting(Starts))
  /\ WF_connectionVars(Connecting(StatusAnswers))

mcSpec == mcInit /\ [][mcNext]_allVars /\ ClientFairness

-----------------------------------------------------------------------------
(* The list of downloads: its switches follow the backend's through        *)
(* reconnects and late events, and an upload is shown only while it is     *)
(* heard of, or because the last load was told of it (downloads.ts, the    *)
(* handlers and their timers, initDownloads).                              *)
RowFollows == DownloadsTypeOK /\ FlagsFollow /\ UploadIsHeard

(* Where the user is: a page or dialog that goes gives the keyboard back   *)
(* to what it took it from (FileBrowser.svelte, DownloadDetail.svelte),    *)
(* the breadcrumbs of the menu are those of its path (navigation.ts), and  *)
(* every item of an area is reached by the arrows from every other, and    *)
(* from wherever rows that moved have left the selection, while items come *)
(* and go (navArea.svelte.ts).                                             *)
PlaceHolds == /\ BrowserTypeOK /\ DetailTypeOK /\ NavigationTypeOK /\ NavTypeOK /\ InputTypeOK
              /\ AreasComeBack /\ DetailHasAreas /\ CrumbsFollow
              /\ EveryItemReached /\ SelectionIsThere

(* Rows belong to what they are shown under: the items to the directory    *)
(* (FileBrowser.svelte loadDirectory), the results to the search           *)
(* (lishSearch.svelte.ts), in whatever order the answers come.             *)
RowsBelong == SearchViewTypeOK /\ ItemsOfPath /\ OneSearchsRows

(* What is shown of the networks: the footer agrees with the networks one  *)
(* by one, and what the frontend listens to the backend sends, after       *)
(* losses of the connection (networks.ts).                                 *)
WatchHolds == WatchTypeOK /\ ConnectionTypeOK /\ ListeningIsSubscribed /\ OneColour

(* A request that was sent is answered or refused, and a client that is to *)
(* reconnect is connected in the end, whatever sockets were lost           *)
(* (shared/src/client.ts onclose, scheduleReconnect).                      *)
ConnectionGoesOn == SentReturns /\ Reconnects
=============================================================================
