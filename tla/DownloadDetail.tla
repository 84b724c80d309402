---------------------------- MODULE DownloadDetail ----------------------------
(***************************************************************************)
(* The page of one download (frontend pages/Download/DownloadDetail.svelte *)
(* with its deletion and peer dialogs): the areas it registers, hands over *)
(* to the pages it shows in its place -- the file browser registers areas  *)
(* of the same names -- and takes back; the selections in lists that other *)
(* events shorten; and the deletion, of this LISH here or by somebody else.*)
(***************************************************************************)
EXTENDS Naturals, FiniteSets, Areas

CONSTANTS MaxRows,         \* bound: files, and peers, of the download
          MaxDetailEvents  \* bound: pages and dialogs opened, and changes of the download

\* A download has a file.
ASSUME DetailAssumption == MaxRows \in Nat \ {0} /\ MaxDetailEvents \in Nat

VARIABLES
  there,        \* downloads holds the LISH: download is not null
  peerCount,    \* currentPeers
  tab,          \* activeTab, and selectedTabIndex with it
  file, peer, info,         \* selectedFileIndex, selectedPeerIndex, selectedInfoIndex
  page,         \* which of showFileBrowser, showExport, showMove is set, or none
  deleteDialog, peerDialog, \* showDeleteDialog; the snapshot the peer dialog was opened with
  deleting,     \* the deletion under way: none, of the LISH, or of its data only
  spinning,     \* and the dialog that is shown asked for it
  watched,      \* currentDetailLISHID is this LISH
  detail,       \* the layout
  shown,        \* the page is mounted
  outlived,     \* a confirmation of the file browser came after the browser had gone
  detailEvents

rowVars == <<peerCount, tab, file, peer, info>>
pageVars == <<page, deleteDialog, peerDialog, deleting, spinning, watched>>
detailVars == <<there, rowVars, pageVars, detail, shown, outlived, detailEvents>>

Own == {"toolbar", "info", "tabs", "list", "peerlist"}
DetailArea == Own \cup {"page", "directory-actions", "delete-dialog", "peer-detail-dialog"}
PageAreas(p) == IF p = "browser" THEN {"list", "directory-actions"} ELSE {"page"}
MainArea(p) == IF p = "browser" THEN "list" ELSE "page"
InfoRows == 2

DetailTypeOK ==
  /\ \A b \in {there, deleteDialog, spinning, watched, shown, outlived} : b \in BOOLEAN
  /\ {peerCount, file, peer, info} \subseteq 0..MaxRows /\ tab \in {"files", "peers"}
  /\ page \in {"none", "browser", "export", "move"} /\ peerDialog \in BOOLEAN
  /\ deleting \in {"none", "lish", "data"} /\ detailEvents \in 0..MaxDetailEvents
  /\ detail \in [owner : [DetailArea -> {Nobody, "detail", "browser", "export", "move", "dialog"}],
                 active : DetailArea \cup {NoArea}]

-----------------------------------------------------------------------------
(* Areas.  A page or dialog is mounted when it is to be shown and the      *)
(* download is there; then it registers its areas and activates one.       *)

RegisterOwn(l) == activateArea(useAll(l, Own, "detail"), "toolbar")
UnregisterOwn(l) == dropAll(l, Own, "detail")
MountPage(l, p) == IF p = "none" THEN l ELSE activateArea(useAll(l, PageAreas(p), p), MainArea(p))
UnmountPage(l, p) == IF p = "none" THEN l ELSE dropAll(l, PageAreas(p), p)
MountDialog(l, area) == activateArea(useArea(l, area, "dialog"), area)
DialogAreas == {"delete-dialog", "peer-detail-dialog"}

On(area) == shown /\ Emits(detail, area, "detail")
DetailEvent == detailEvents < MaxDetailEvents /\ detailEvents' = detailEvents + 1
Focus(area) == detail' = activateArea(detail, area)
Rest == UNCHANGED <<there, pageVars, shown, outlived, detailEvents>>
OnlyRows == Rest /\ UNCHANGED detail

-----------------------------------------------------------------------------
(* Keys and the mouse.  Files are MaxRows; the peers come and go. *)

ToolbarDown == /\ On("toolbar") /\ there /\ info' = 0 /\ Focus("info")
               /\ UNCHANGED <<peerCount, tab, file, peer>> /\ Rest
\* up, or the page and edge keys, of a list of n rows; up from the first leaves it.
DetailRows(area, index, n, index2) ==
  /\ On(area) /\ OnlyRows
  /\ \/ index > 0 /\ index2 = index - 1
     \/ index + 1 < n /\ index2 = index + 1
     \/ n > 0 /\ index2 = 0
     \/ n > 0 /\ index2 = n - 1
InfoMoves == DetailRows("info", info, InfoRows, info') /\ UNCHANGED <<peerCount, tab, file, peer>>
ListMoves == there /\ DetailRows("list", file, MaxRows, file') /\ UNCHANGED <<peerCount, tab, peer, info>>
PeerMoves == DetailRows("peerlist", peer, peerCount, peer') /\ UNCHANGED <<peerCount, tab, file, info>>
RightPanel == IF tab = "files" /\ there THEN "list" ELSE IF tab = "peers" /\ peerCount > 0 THEN "peerlist" ELSE "tabs"
Crossings ==
  /\ UNCHANGED rowVars /\ Rest
  /\ \/ On("info") /\ info = 0 /\ Focus("toolbar")
     \/ On("info") /\ info = InfoRows - 1 /\ Focus("tabs")
     \/ On("info") /\ Focus(RightPanel)
     \/ On("list") /\ file = 0 /\ Focus("tabs")
     \/ On("peerlist") /\ peer = 0 /\ Focus("tabs")
     \/ (On("list") \/ On("peerlist")) /\ Focus("info")
     \/ On("tabs") /\ RightPanel # "tabs" /\ Focus(RightPanel)
     \/ On("tabs") /\ tab = "files" /\ Focus("info")
TabsUp == /\ On("tabs") /\ UNCHANGED <<peerCount, tab, file, peer>> /\ Rest
          /\ IF there THEN info' = InfoRows - 1 /\ Focus("info") ELSE UNCHANGED info /\ Focus("toolbar")
TabsTurn == /\ On("tabs") /\ OnlyRows /\ tab' = IF tab = "files" THEN "peers" ELSE "files"
            /\ UNCHANGED <<peerCount, file, peer, info>>
Uncovered == shown /\ page = "none" /\ ~deleteDialog /\ ~peerDialog /\ there
Hovers ==
  /\ Uncovered /\ UNCHANGED <<peerCount, tab>> /\ Rest
  /\ \/ tab = "files" /\ (\E i \in 0..MaxRows - 1 : file' = i) /\ Focus("list") /\ UNCHANGED <<peer, info>>
     \/ tab = "peers" /\ (\E i \in 0..MaxRows - 1 : i < peerCount /\ peer' = i) /\ Focus("peerlist") /\ UNCHANGED <<file, info>>
     \/ (\E i \in 0..InfoRows - 1 : info' = i) /\ Focus("info") /\ UNCHANGED <<file, peer>>

-----------------------------------------------------------------------------
(* The pages in its place, and the dialogs over it *)

Toolbar == On("toolbar") \/ Uncovered
OpenPage(p) ==
  /\ Toolbar /\ DetailEvent /\ (p = "browser" => there) /\ page' = p
  /\ detail' = LET own == UnregisterOwn(detail) IN IF there THEN MountPage(own, p) ELSE own
  /\ UNCHANGED <<there, rowVars, deleteDialog, peerDialog, deleting, spinning, watched, shown, outlived>>
\* handleExportBack, handleMoveBack, handleFileBrowserBack: the areas first, and then the page goes.
ClosePage ==
  /\ shown /\ page # "none" /\ (there \/ page = "browser") /\ page' = "none"   \* the browser's by the menu too
  /\ detail' = UnmountPage(RegisterOwn(detail), page)
  /\ UNCHANGED <<there, rowVars, deleteDialog, peerDialog, deleting, spinning, watched, shown, outlived, detailEvents>>
ShowDelete ==
  /\ Toolbar /\ there /\ DetailEvent /\ deleteDialog' = TRUE /\ detail' = MountDialog(detail, "delete-dialog")
  /\ UNCHANGED <<there, rowVars, page, peerDialog, deleting, spinning, watched, shown, outlived>>
openPeerDialog ==
  /\ On("peerlist") \/ (Uncovered /\ tab = "peers")
  /\ there /\ peer < peerCount /\ DetailEvent /\ peerDialog' = TRUE /\ detail' = MountDialog(detail, "peer-detail-dialog")
  /\ UNCHANGED <<there, rowVars, page, deleteDialog, deleting, spinning, watched, shown, outlived>>
TakesDown(area, next) == detail' = dropArea(activateArea(detail, next), area, "dialog")
handleDeleteCancel ==
  /\ shown /\ deleteDialog /\ there /\ ~spinning /\ deleteDialog' = FALSE /\ TakesDown("delete-dialog", "toolbar")
  /\ UNCHANGED <<there, rowVars, page, peerDialog, deleting, spinning, watched, shown, outlived, detailEvents>>
handlePeerDialogBack ==
  /\ shown /\ peerDialog /\ there /\ peerDialog' = FALSE /\ TakesDown("peer-detail-dialog", "peerlist")
  /\ UNCHANGED <<there, rowVars, page, deleteDialog, deleting, spinning, watched, shown, outlived, detailEvents>>

-----------------------------------------------------------------------------
(* Deletion *)

\* The page stops watching for the removal it asks for itself.
ConfirmDelete ==
  /\ shown /\ deleteDialog /\ there /\ deleting = "none" /\ DetailEvent
  /\ deleting' \in {"lish", "data"} /\ spinning' = TRUE /\ watched' = (watched /\ deleting' = "data")
  /\ UNCHANGED <<there, rowVars, page, deleteDialog, peerDialog, detail, shown, outlived>>
\* Goes with its areas: back, by the menu, or on a removal.
Gone == /\ shown' = FALSE /\ watched' = FALSE /\ page' = "none" /\ deleteDialog' = FALSE /\ peerDialog' = FALSE /\ spinning' = FALSE
        /\ detail' = EmptyLayout(DetailArea)
handleDeleteResult(success) ==
  /\ deleting # "none" /\ deleting' = "none"
  /\ UNCHANGED <<there, rowVars, outlived, detailEvents>>
  /\ IF ~shown THEN UNCHANGED <<page, deleteDialog, peerDialog, spinning, watched, detail, shown>>
     ELSE IF success /\ deleting = "lish" THEN Gone
     ELSE /\ deleteDialog' = FALSE /\ spinning' = FALSE /\ TakesDown("delete-dialog", "toolbar")
          /\ UNCHANGED <<page, peerDialog, watched, shown>>
\* The row goes: removed, or the list loads anew.  A removal that is watched leaves the page.
RowGoes(removed) ==
  /\ there /\ DetailEvent /\ there' = FALSE /\ UNCHANGED <<rowVars, deleting, outlived>>
  /\ IF shown /\ removed /\ watched THEN Gone
     ELSE /\ spinning' = FALSE
          /\ detail' = IF shown THEN dropAll(UnmountPage(detail, page), DialogAreas, "dialog") ELSE detail
          /\ UNCHANGED <<page, deleteDialog, peerDialog, watched, shown>>
\* And comes back, with what is shown of it.
RowReturns ==
  /\ ~there /\ there' = TRUE /\ UNCHANGED <<rowVars, pageVars, shown, outlived, detailEvents>>
  /\ detail' =
       IF ~shown THEN detail
       ELSE IF page # "none" THEN MountPage(detail, page)
       ELSE LET peers == IF peerDialog THEN MountDialog(detail, "peer-detail-dialog") ELSE detail
            IN IF deleteDialog THEN MountDialog(peers, "delete-dialog") ELSE peers
PeersChange == /\ peerCount' \in (0..MaxRows) \ {peerCount} /\ UNCHANGED <<tab, file, peer, info>>
               /\ UNCHANGED <<there, pageVars, detail, shown, outlived, detailEvents>>

\* A browser that is gone finishes a confirmation: it registers its areas again.
BrowserOutlives ==
  /\ shown /\ page # "browser" /\ ~outlived /\ DetailEvent /\ outlived' = TRUE
  /\ detail' = activateArea(useAll(detail, PageAreas("browser"), "browser"), "directory-actions")
  /\ UNCHANGED <<there, rowVars, pageVars, shown>>

Leave == /\ shown /\ Gone /\ UNCHANGED <<there, rowVars, deleting, outlived, detailEvents>>

DetailInit ==
  /\ there = TRUE /\ peerCount = 0 /\ tab = "files" /\ file = 0 /\ peer = 0 /\ info = 0
  /\ page = "none" /\ deleteDialog = FALSE /\ peerDialog = FALSE /\ deleting = "none" /\ spinning = FALSE /\ watched = TRUE
  /\ detail = RegisterOwn(EmptyLayout(DetailArea)) /\ shown = TRUE /\ outlived = FALSE /\ detailEvents = 0
DetailNext ==
  \/ ToolbarDown \/ InfoMoves \/ ListMoves \/ PeerMoves \/ Crossings \/ TabsUp \/ TabsTurn \/ Hovers
  \/ (\E p \in {"browser", "export", "move"} : OpenPage(p)) \/ ClosePage
  \/ ShowDelete \/ openPeerDialog \/ handleDeleteCancel \/ handlePeerDialogBack
  \/ ConfirmDelete \/ (\E success \in BOOLEAN : handleDeleteResult(success))
  \/ (\E removed \in BOOLEAN : RowGoes(removed)) \/ RowReturns \/ PeersChange \/ BrowserOutlives \/ Leave

-----------------------------------------------------------------------------
(* While the download is there, whatever is shown of it has the keyboard:  *)
(* the page's own areas are its own again when the page in its place has   *)
(* gone, although that page registered areas of the same names and drops   *)
(* them after the detail has taken them -- unless a confirmation of the    *)
(* file browser outlives the browser and takes them once more.             *)
DetailHasAreas ==
  shown /\ there /\ ~outlived =>
    /\ page = "none" => \A a \in Own : detail.owner[a] = "detail"
    /\ page # "none" => \A a \in PageAreas(page) : detail.owner[a] = page
    /\ detail.active # NoArea /\ Registered(detail, detail.active)
=============================================================================
