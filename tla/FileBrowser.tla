----------------------------- MODULE FileBrowser -----------------------------
(***************************************************************************)
(* The file browser of the frontend (pages/FileBrowser/FileBrowser.svelte):*)
(* what it lists, the keyboard areas it registers, and the dialogs that    *)
(* take the keyboard from it, with requests to the backend under way that  *)
(* end in any order, also once the user has gone on.                       *)
(*                                                                         *)
(* Paths are depths of one branch of a tree: 0 is its root, the parent of  *)
(* d is d - 1.  Every directory holds a file and the next one; what the    *)
(* requests do to them is left out.  A file is never saved with content    *)
(* here, since nobody passes any.                                          *)
(***************************************************************************)
EXTENDS Naturals, Sequences, FiniteSets, Areas

CONSTANTS MaxDepth,         \* depth of the deepest directory
          MaxFlights,       \* bound: requests under way
          MaxBrowserEvents  \* bound: requests made and dialogs opened

\* The browser opens on a path below the root, with its listing under way.
ASSUME BrowserAssumption == MaxDepth \in Nat \ {0} /\ MaxFlights \in Nat \ {0} /\ MaxBrowserEvents \in Nat

VARIABLES
  props,        \* directoriesOnly, and saveFileName given
  currentPath, listing,     \* listing: the items are what of which directory
  loading, failed,          \* failed: error is set
  selectedIndex, nameFilter, showNameFilter, showActions, showFilterPanel,
  dialogs,      \* the dialogs and the editor that are shown
  fileToDelete, itemToRename,
  flight,       \* requests under way: a listing, or an operation and then its listing
  layout,
  mounted, browserEvents

listVars == <<currentPath, listing, loading, failed, selectedIndex, nameFilter>>
panelVars == <<showNameFilter, showActions, showFilterPanel>>
dialogVars == <<dialogs, fileToDelete, itemToRename>>
browserVars == <<props, listVars, panelVars, dialogVars, flight, layout, mounted, browserEvents>>

Path == 0..MaxDepth
Confirmed == {"deleteDirectory", "deleteFile", "largeFile"}      \* ConfirmDialog
Entered == {"newDirectory", "createFile", "rename", "customFilter"}   \* InputDialog
Dialog == Confirmed \cup Entered \cup {"editor"}
AreaOf(d) == IF d \in Confirmed THEN "confirm-dialog" ELSE IF d \in Entered THEN "input-dialog" ELSE "editor-toolbar"
Behind == {"directory-actions", "list", "actions"}
Area == Behind \cup {"path", "name-filter", "save-filename", "filter"} \cup {AreaOf(d) : d \in Dialog}
Operation == {"deleteDirectory", "newDirectory", "createFile", "deleteFile", "rename"}
NoFlight == [at |-> "none", what |-> "none", path |-> 0, select |-> "none"]

BrowserTypeOK ==
  /\ props \in [directoriesOnly : BOOLEAN, save : BOOLEAN]
  /\ currentPath \in Path /\ listing \in [what : {"all", "up", "none"}, dir : Path]
  /\ selectedIndex \in 0..2 /\ dialogs \subseteq Dialog
  /\ \A b \in {loading, failed, nameFilter, showNameFilter, showActions, showFilterPanel, fileToDelete, mounted} :
       b \in BOOLEAN
  /\ itemToRename \in {"none", "file", "directory"}
  /\ flight \in [1..MaxFlights -> [at : {"none", "operation", "list"}, what : Operation \cup {"none", "browse", "open"},
                                   path : Path, select : {"none", "file", "directory"}]]
  /\ layout \in [owner : [Area -> {Nobody, "browser"} \cup Dialog], active : Area \cup {NoArea}]
  /\ browserEvents \in 0..MaxBrowserEvents

-----------------------------------------------------------------------------
(* The list *)

\* The items with one of these names, in the order of the list.
Held(item) ==
  CASE item = ".." -> listing.what # "none" /\ listing.dir > 0
    [] item = "directory" -> listing.what = "all" /\ listing.dir < MaxDepth
    [] item = "file" -> listing.what = "all" /\ ~props.directoriesOnly
Row(item, names) == IF item \in names /\ Held(item) THEN <<item>> ELSE <<>>
ItemsAmong(names) == Row("..", names) \o Row("directory", names) \o Row("file", names)
Items == ItemsAmong({"..", "directory", "file"})
filteredItems == IF nameFilter THEN ItemsAmong({"..", "file"}) ELSE Items
selectedItem == IF selectedIndex < Len(filteredItems) THEN filteredItems[selectedIndex + 1] ELSE "none"
IndexOf(name, items) == IF \E i \in DOMAIN items : items[i] = name
                        THEN (CHOOSE i \in DOMAIN items : items[i] = name) - 1 ELSE 0

\* The least free flight takes a request.
Flies(f) == LET free == {i \in DOMAIN flight : flight[i] = NoFlight}
            IN free # {} /\ flight' = [flight EXCEPT ![CHOOSE i \in free : \A j \in free : i <= j] = f]
Event == browserEvents < MaxBrowserEvents /\ browserEvents' = browserEvents + 1

\* Every listing shows its path at once and drops the name filter.
Intends(path) == /\ loading' = TRUE /\ failed' = FALSE /\ nameFilter' = FALSE /\ currentPath' = path
                 /\ UNCHANGED <<listing, selectedIndex>>
loadDirectory(path, select) == /\ Event /\ Intends(path)
                               /\ Flies([at |-> "list", what |-> "browse", path |-> path, select |-> select])

-----------------------------------------------------------------------------
(* Keys and clicks.  A dialog lies over everything; the keyboard goes      *)
(* wherever the active area is.                                            *)

Keys(area) == mounted /\ Emits(layout, area, "browser")
Clicks == mounted /\ dialogs = {}
Activates(area) == layout' = activateArea(layout, area)
OnlyFocus == UNCHANGED <<props, listVars, panelVars, dialogVars, flight, mounted, browserEvents>>

ListUp ==
  /\ Keys("list")
  /\ IF selectedIndex > 0
     THEN /\ selectedIndex' = selectedIndex - 1 /\ showActions' = FALSE
          /\ UNCHANGED <<props, currentPath, listing, loading, failed, nameFilter, showNameFilter, showFilterPanel,
                         dialogVars, flight, layout, mounted, browserEvents>>
     ELSE /\ Activates(IF failed THEN "path" ELSE IF showNameFilter THEN "name-filter"
                       ELSE IF props.save THEN "save-filename" ELSE "directory-actions")
          /\ OnlyFocus
\* down, pageUp, pageDown, home, end and the characters typed ahead.
ListJump ==
  /\ Keys("list") /\ \E i \in 1..Len(filteredItems) : selectedIndex' = i - 1
  /\ showActions' = FALSE
  /\ UNCHANGED <<props, currentPath, listing, loading, failed, nameFilter, showNameFilter, showFilterPanel,
                 dialogVars, flight, layout, mounted, browserEvents>>
\* An open panel beside the list is reached by position; both panels have the same.
ListRight == /\ Keys("list") /\ showActions /\ OnlyFocus
             /\ \E a \in {"actions", "filter"} : Registered(layout, a) /\ Activates(a)
ItemHover == /\ Clicks /\ ~loading /\ ~showActions /\ ~showFilterPanel /\ Activates("list")
             /\ \E i \in 1..Len(filteredItems) : selectedIndex' = i - 1
             /\ UNCHANGED <<props, currentPath, listing, loading, failed, nameFilter, panelVars, dialogVars, flight, mounted, browserEvents>>

\* Where an item leads, and what is selected there.
Target(item) == IF item = ".." THEN listing.dir - 1 ELSE listing.dir + 1
CameFrom(item) == IF item = ".." /\ currentPath > 0 THEN "directory" ELSE "none"
navigateInto(item) == item \in {"..", "directory"} /\ loadDirectory(Target(item), CameFrom(item))
openActions(item) == item = "file" /\ showActions' = TRUE /\ Activates("actions")
ListConfirm ==
  /\ Keys("list")
  /\ \/ navigateInto(selectedItem) /\ UNCHANGED <<panelVars, layout>>
     \/ openActions(selectedItem) /\ UNCHANGED <<listVars, flight, browserEvents, showNameFilter, showFilterPanel>>
  /\ UNCHANGED <<props, dialogVars, mounted>>
ItemClick ==
  /\ Clicks /\ ~loading
  /\ \E i \in 1..Len(filteredItems) :
       \/ /\ navigateInto(filteredItems[i]) /\ showActions' = FALSE /\ Activates("list")
          /\ UNCHANGED <<showNameFilter, showFilterPanel>>
       \/ /\ openActions(filteredItems[i]) /\ selectedIndex' = i - 1
          /\ UNCHANGED <<currentPath, listing, loading, failed, nameFilter, flight, browserEvents, showNameFilter, showFilterPanel>>
  /\ UNCHANGED <<props, dialogVars, mounted>>

\* The page that shows the browser takes it away: at the root, on a selection or a share.
Unmounted == dropAll(layout, Area, "browser")
Leaves == mounted' = FALSE /\ layout' = Unmounted /\ UNCHANGED <<props, listVars, panelVars, dialogVars, flight, browserEvents>>
navigateUp == IF currentPath > 0
              THEN /\ loadDirectory(currentPath - 1, "directory")
                   /\ UNCHANGED <<props, panelVars, dialogVars, layout, mounted>>
              ELSE Leaves
Back == (Keys("list") \/ Keys("directory-actions") \/ Keys("name-filter")) /\ navigateUp
Selects == \/ Keys("directory-actions") /\ Leaves
           \/ Keys("actions") /\ selectedItem = "file" /\ Leaves
           \/ Keys("save-filename") /\ Leaves
           \/ Clicks /\ Leaves

\* What the handlers of the other areas do with the arrows.
DirectoryActionsMove ==
  /\ Keys("directory-actions") /\ OnlyFocus
  /\ \/ Activates("path")
     \/ Activates(IF showNameFilter THEN "name-filter" ELSE IF props.save THEN "save-filename" ELSE "list")
PathMoves ==
  /\ Keys("path") /\ OnlyFocus
  /\ Activates(IF "editor" \in dialogs THEN "editor-toolbar" ELSE IF failed THEN "list" ELSE "directory-actions")
NameFilterMoves ==
  /\ Keys("name-filter") /\ OnlyFocus
  /\ Activates("directory-actions") \/ Activates(IF props.save THEN "save-filename" ELSE "list")
SaveFileNameMoves ==
  /\ Keys("save-filename") /\ OnlyFocus
  /\ Activates(IF showNameFilter THEN "name-filter" ELSE "directory-actions") \/ Activates("list")
ActionsBack == /\ Keys("actions") /\ showActions' = FALSE /\ Activates("list")
               /\ UNCHANGED <<props, listVars, showNameFilter, showFilterPanel, dialogVars, flight, mounted, browserEvents>>

-----------------------------------------------------------------------------
(* The filters *)

NameTyped == /\ Keys("name-filter") /\ nameFilter' \in BOOLEAN /\ selectedIndex' = 0 /\ showActions' = FALSE
             /\ UNCHANGED <<props, currentPath, listing, loading, failed, showNameFilter, showFilterPanel,
                            dialogVars, flight, layout, mounted, browserEvents>>
ToolbarActs == (Keys("directory-actions") \/ Clicks) /\ mounted
toggleNameFilter ==
  /\ ToolbarActs /\ showNameFilter' = ~showNameFilter
  /\ IF showNameFilter THEN nameFilter' = FALSE /\ selectedIndex' = 0 /\ UNCHANGED layout
     ELSE Activates("name-filter") /\ UNCHANGED <<nameFilter, selectedIndex>>
  /\ UNCHANGED <<props, currentPath, listing, loading, failed, showActions, showFilterPanel, dialogVars, flight, mounted, browserEvents>>
openFilterPanel ==
  /\ ToolbarActs /\ showFilterPanel' = TRUE /\ layout' = activateArea(useArea(layout, "filter", "browser"), "filter")
  /\ UNCHANGED <<props, listVars, showNameFilter, showActions, dialogVars, flight, mounted, browserEvents>>
FilterClosed(l) == activateArea(dropArea(l, "filter", "browser"), "directory-actions")
closeFilterPanel ==
  /\ Keys("filter") /\ showFilterPanel' = FALSE /\ layout' = FilterClosed(layout)
  /\ UNCHANGED <<props, listVars, showNameFilter, showActions, dialogVars, flight, mounted, browserEvents>>
FilterSet == /\ Keys("filter") /\ loadDirectory(currentPath, "none") /\ showFilterPanel' = FALSE
             /\ layout' = FilterClosed(layout)
             /\ UNCHANGED <<props, showNameFilter, showActions, dialogVars, mounted>>

-----------------------------------------------------------------------------
(* The dialogs.  A dialog registers and activates its area when it is      *)
(* mounted, and one that is shown already is not mounted again.            *)

Mounts(l, d) == IF d \in dialogs THEN l ELSE activateArea(useArea(l, AreaOf(d), d), AreaOf(d))
Unmounts(l, ds) == [owner |-> [a \in Area |-> IF l.owner[a] \in ds THEN Nobody ELSE l.owner[a]],
                    active |-> IF l.active # NoArea /\ l.owner[l.active] \in ds THEN NoArea ELSE l.active]
Shows(d) ==
  /\ Event /\ dialogs' = dialogs \cup {d} /\ layout' = Mounts(dropAll(layout, Behind, "browser"), d)
  /\ UNCHANGED <<props, listVars, showNameFilter, showFilterPanel, flight, mounted>>
ShowDirectoryDialog ==
  /\ ToolbarActs /\ UNCHANGED <<showActions, fileToDelete, itemToRename>>
  /\ \E d \in {"deleteDirectory", "newDirectory", "createFile"} : Shows(d)
ShowRenameDirectory == /\ ToolbarActs /\ currentPath > 0 /\ Shows("rename") /\ itemToRename' = "directory"
                       /\ showActions' = FALSE /\ UNCHANGED fileToDelete
FileActs == Keys("actions") /\ selectedItem = "file"
ShowFileDialog ==
  /\ FileActs /\ showActions' = FALSE
  /\ \/ Shows("deleteFile") /\ fileToDelete' = TRUE /\ UNCHANGED itemToRename
     \/ Shows("rename") /\ itemToRename' = "file" /\ UNCHANGED fileToDelete
     \/ (\E d \in {"largeFile", "editor"} : Shows(d)) /\ UNCHANGED <<fileToDelete, itemToRename>>
confirmLargeFileEdit ==
  /\ "largeFile" \in dialogs /\ mounted /\ dialogs' = (dialogs \ {"largeFile"}) \cup {"editor"} /\ showActions' = FALSE
  /\ layout' = Mounts(Unmounts(dropAll(layout, Behind, "browser"), {"largeFile"}), "editor")
  /\ UNCHANGED <<props, listVars, showNameFilter, showFilterPanel, fileToDelete, itemToRename, flight, mounted, browserEvents>>

\* Each way out takes the dialog down and brings the browser's areas back.
TakesBack(ds, area) == activateArea(useAll(Unmounts(layout, ds), Behind, "browser"), area)
CloseBy(d, area) ==
  /\ dialogs' = dialogs \ {d} /\ layout' = TakesBack({d}, area)
  /\ fileToDelete' = (fileToDelete /\ d # "deleteFile")
  /\ itemToRename' = IF d = "rename" THEN "none" ELSE itemToRename
BackArea(d) == IF d \in {"deleteDirectory", "newDirectory", "createFile"} THEN "directory-actions" ELSE "list"
Cancel == /\ mounted /\ \E d \in dialogs \ {"customFilter"} : CloseBy(d, BackArea(d))
          /\ UNCHANGED <<props, listVars, panelVars, flight, mounted, browserEvents>>

openCustomFilterDialog ==
  /\ Keys("filter") /\ Event /\ dialogs' = dialogs \cup {"customFilter"}
  /\ layout' = Mounts(dropArea(layout, "filter", "browser"), "customFilter")
  /\ UNCHANGED <<props, listVars, panelVars, fileToDelete, itemToRename, flight, mounted>>
closeCustomFilterDialog ==
  /\ mounted /\ "customFilter" \in dialogs /\ dialogs' = dialogs \ {"customFilter"}
  /\ layout' = activateArea(useArea(Unmounts(layout, {"customFilter"}), "filter", "browser"), "filter")
  /\ UNCHANGED <<props, listVars, panelVars, fileToDelete, itemToRename, flight, mounted, browserEvents>>
confirmCustomFilter ==
  /\ mounted /\ "customFilter" \in dialogs /\ dialogs' = dialogs \ {"customFilter"}
  /\ loadDirectory(currentPath, "none") /\ showFilterPanel' = FALSE
  /\ layout' = Unmounts(FilterClosed(layout), {"customFilter"})
  /\ UNCHANGED <<props, showNameFilter, showActions, fileToDelete, itemToRename, mounted>>

-----------------------------------------------------------------------------
(* Confirmed dialogs: the request, its listing, and then the way out.  The *)
(* dialog stays meanwhile, and can be cancelled or confirmed again.        *)

Confirm(what) ==
  /\ mounted /\ what \in dialogs /\ Event
  /\ Flies([at |-> "operation", what |-> what, path |-> currentPath,
            select |-> IF what = "rename" THEN itemToRename ELSE "none"])
  /\ UNCHANGED <<props, listVars, panelVars, dialogVars, layout, mounted>>
OpenFile == /\ FileActs /\ Event /\ showActions' = FALSE /\ Activates("list")
            /\ Flies([at |-> "operation", what |-> "open", path |-> currentPath, select |-> "none"])
            /\ UNCHANGED <<props, listVars, showNameFilter, showFilterPanel, dialogVars, mounted>>

Ended(i) == flight' = [flight EXCEPT ![i] = NoFlight]
\* What a finished confirmation does last; a listing the user asked for does nothing.
Finish(what) ==
  IF what \in Operation
  THEN CloseBy(what, IF what \in {"newDirectory", "createFile"} THEN "list" ELSE BackArea(what))
  ELSE UNCHANGED <<dialogVars, layout>>
Lists(i, path, select) ==
  flight' = [flight EXCEPT ![i] = [at |-> "list", what |-> flight[i].what, path |-> path, select |-> select]]
\* The file or item of the dialog is gone when the dialog was cancelled, and the confirmation throws.
Throws(what) == \/ what = "deleteFile" /\ ~fileToDelete
                \/ what = "rename" /\ itemToRename = "none"
Succeeds(i) ==
  /\ flight[i].at = "operation" /\ UNCHANGED <<props, mounted, browserEvents>>
  /\ LET what == flight[i].what IN
     IF what = "open"
     THEN /\ Ended(i) /\ showActions' = FALSE /\ Activates("list")
          /\ UNCHANGED <<listVars, showNameFilter, showFilterPanel, dialogVars>>
     ELSE IF Throws(what) THEN Ended(i) /\ UNCHANGED <<listVars, panelVars, dialogVars, layout>>
     ELSE LET path == IF what = "deleteDirectory" THEN currentPath - 1 ELSE currentPath IN
          /\ what = "deleteDirectory" => flight[i].path > 0
          /\ UNCHANGED <<panelVars>>
          /\ IF what = "deleteDirectory" /\ currentPath = 0   \* nothing above to show
             THEN Ended(i) /\ Finish(what) /\ UNCHANGED listVars
             ELSE /\ Intends(path) /\ UNCHANGED <<dialogVars, layout>>
                  /\ Lists(i, path, CASE what = "newDirectory" -> "directory"
                                      [] what = "createFile" -> "file"
                                      [] what = "rename" /\ flight[i].select = "file" -> "file"
                                      [] OTHER -> "none")
Refused(i) ==
  /\ flight[i].at = "operation" /\ Ended(i) /\ UNCHANGED <<props, mounted, browserEvents>>
  /\ LET what == flight[i].what IN
     CASE what = "open" -> /\ failed' = TRUE /\ showActions' = FALSE /\ Activates("list")
                           /\ UNCHANGED <<currentPath, listing, loading, selectedIndex, nameFilter, showNameFilter, showFilterPanel, dialogVars>>
       [] what \in {"newDirectory", "createFile"} -> UNCHANGED <<listVars, panelVars, dialogVars, layout>>
       [] OTHER -> /\ failed' = TRUE /\ Finish(what)
                   /\ UNCHANGED <<currentPath, listing, loading, selectedIndex, nameFilter, panelVars>>

\* The answers of fs.list.  The path shown is the path of whichever came last.
Listing(i) == flight[i].at = "list" /\ UNCHANGED <<props, panelVars, mounted, browserEvents>>
LoadedOnly(i) ==
  /\ Listing(i) /\ Ended(i) /\ Finish(flight[i].what)
  /\ listing' = [what |-> "all", dir |-> flight[i].path] /\ loading' = FALSE
  /\ selectedIndex' = IndexOf(flight[i].select, Items') /\ UNCHANGED <<failed, nameFilter, currentPath>>
Loaded(i) ==
  /\ Listing(i) /\ Ended(i) /\ Finish(flight[i].what)
  /\ currentPath' = flight[i].path /\ listing' = [what |-> "all", dir |-> flight[i].path] /\ loading' = FALSE
  /\ selectedIndex' = IndexOf(flight[i].select, Items') /\ UNCHANGED <<failed, nameFilter>>
Denied(i) ==   \* permission denied: the parent of the path shown is listed in its place
  /\ Listing(i) /\ flight[i].path > 0
  /\ IF currentPath = 0
     THEN /\ Ended(i) /\ Finish(flight[i].what) /\ loading' = FALSE
          /\ UNCHANGED <<currentPath, listing, failed, selectedIndex, nameFilter>>
     ELSE Lists(i, currentPath - 1, "none") /\ Intends(currentPath - 1) /\ UNCHANGED <<dialogVars, layout>>
LoadFails(i) ==
  /\ Listing(i) /\ Ended(i) /\ Finish(flight[i].what) /\ failed' = TRUE /\ loading' = FALSE
  /\ IF currentPath > 0 THEN listing' = [what |-> "up", dir |-> currentPath] /\ selectedIndex' = 0
     ELSE listing' = [what |-> "none", dir |-> currentPath] /\ UNCHANGED selectedIndex
  /\ UNCHANGED <<currentPath, nameFilter>>

-----------------------------------------------------------------------------
(* The breadcrumb of the path: an open editor is closed first. *)

BreadcrumbKeepsAreas(path) ==
  /\ Keys("path") /\ path <= currentPath /\ loadDirectory(path, "none")
  /\ dialogs' = dialogs \ {"editor"}
  /\ layout' = IF "editor" \in dialogs THEN Unmounts(layout, {"editor"}) ELSE layout
  /\ UNCHANGED <<props, panelVars, fileToDelete, itemToRename, mounted>>
handleBreadcrumbNavigate(path) ==
  /\ Keys("path") /\ path <= currentPath /\ loadDirectory(path, "none")
  /\ dialogs' = dialogs \ {"editor"}
  /\ layout' = IF "editor" \in dialogs THEN useAll(Unmounts(layout, {"editor"}), Behind, "browser") ELSE layout
  /\ UNCHANGED <<props, panelVars, fileToDelete, itemToRename, mounted>>
EditorUp == /\ mounted /\ Emits(layout, "editor-toolbar", "editor") /\ Activates("path") /\ OnlyFocus

BrowserInit ==
  /\ props \in {p \in [directoriesOnly : BOOLEAN, save : BOOLEAN] : p.save => p.directoriesOnly}
  /\ currentPath = 1 /\ listing = [what |-> "none", dir |-> 0] /\ loading = TRUE /\ failed = FALSE
  /\ selectedIndex = 0 /\ nameFilter = FALSE /\ showNameFilter = FALSE /\ showActions = FALSE
  /\ showFilterPanel = FALSE /\ dialogs = {} /\ fileToDelete = FALSE /\ itemToRename = "none"
  /\ flight = [i \in 1..MaxFlights |-> IF i = 1 THEN [at |-> "list", what |-> "browse", path |-> 1, select |-> "none"]
                                       ELSE NoFlight]
  /\ layout = activateArea(useAll(EmptyLayout(Area), Behind \cup {"path", "name-filter"} \cup
                                  (IF props.save THEN {"save-filename"} ELSE {}), "browser"), "list")
  /\ mounted = TRUE /\ browserEvents = 0
BrowserNext ==
  \/ ListUp \/ ListJump \/ ListRight \/ ListConfirm \/ ItemHover \/ ItemClick \/ Back \/ Selects \/ ActionsBack
  \/ DirectoryActionsMove \/ PathMoves \/ NameFilterMoves \/ SaveFileNameMoves
  \/ NameTyped \/ toggleNameFilter \/ openFilterPanel \/ closeFilterPanel \/ FilterSet
  \/ ShowDirectoryDialog \/ ShowRenameDirectory \/ ShowFileDialog \/ confirmLargeFileEdit \/ Cancel
  \/ openCustomFilterDialog \/ closeCustomFilterDialog \/ confirmCustomFilter
  \/ (\E what \in Operation : Confirm(what)) \/ OpenFile
  \/ \E i \in DOMAIN flight : Succeeds(i) \/ Refused(i) \/ Loaded(i) \/ Denied(i) \/ LoadFails(i)
  \/ (\E path \in Path : handleBreadcrumbNavigate(path)) \/ EditorUp

-----------------------------------------------------------------------------
(* When nothing is shown over the browser, the areas a dialog or the       *)
(* editor took from it are all back and the keyboard is in one of them --  *)
(* however the dialog was left: cancelled, confirmed, refused, thrown out  *)
(* of, cancelled while its request went on, or closed by the breadcrumb.   *)
AreasComeBack ==
  mounted /\ dialogs = {} =>
    /\ \A a \in Behind : layout.owner[a] = "browser"
    /\ layout.active # NoArea /\ layout.owner[layout.active] = "browser"

(* With no listing under way, the items are those of the path that is      *)
(* shown, or its parent entry when it could not be listed: answers that    *)
(* come in another order, refused listings that fall back on the parent    *)
(* and the reloads of late confirmations never leave one directory's items *)
(* under another's path.                                                   *)
ItemsOfPath ==
  (\A i \in DOMAIN flight : flight[i].at # "list") => listing.dir = currentPath /\ ~loading
=============================================================================
