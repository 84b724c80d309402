----------------------------- MODULE Navigation -----------------------------
(***************************************************************************)
(* Where the user is in the frontend: the path in the menu, the pages that *)
(* a page opens over itself, the breadcrumbs that name both, and the stack *)
(* of handlers Back goes to.  The breadcrumbs of the menu are computed     *)
(* anew whenever the path or the menu changes, those of the pages are      *)
(* pushed and popped.                                                      *)
(*                                                                         *)
(* Source: frontend/src/scripts/navigation.ts, focus.ts, subPage.svelte.ts *)
(* and the pages that import a LISH.                                       *)
(***************************************************************************)
EXTENDS Integers, Sequences, SequencesExt

CONSTANTS
    Depth,       \* how many pages the component shown embeds in each other
    MaxMoves     \* bound: how often the user or the backend does something

ASSUME NavigationAssumption == Depth \in Nat /\ MaxMoves \in Nat

\* The menu: a folder of components, a component that embeds pages, the form
\* that imports, an item that is chosen, the ways out.
Ids == {"downloads", "import", "exit", "select", "back", "quit"}
Submenu(at) ==
    CASE at = <<>> -> {"downloads", "exit"}
      [] at = <<"downloads">> -> {"import", "select", "back"}
      [] at = <<"exit">> -> {"quit", "back"}
      [] OTHER -> {}
Component == {<<"downloads", "import">>}

VARIABLES
    path,       \* pathIDs
    crumbs,     \* breadcrumbStore: the label and the source of each
    backStack,  \* the handlers of Back, the innermost last, by their level
    opened,     \* how many embedded pages are active, one over the other
    confirm,    \* the confirm dialog of restart, shutdown and quit
    importing,  \* an import waits for its answer
    moves       \* how much of MaxMoves is used

navigationVars == <<path, crumbs, backStack, opened, confirm, importing, moves>>

Crumb(label, source) == [label |-> label, source |-> source]

NavigationTypeOK ==
    /\ path \in Seq(Ids)
    /\ crumbs \in Seq([label : Ids \cup {"page", "custom"}, source : {"menu", "component"}])
    /\ backStack \in Seq(0 .. Depth)
    /\ opened \in 0 .. Depth
    /\ confirm \in BOOLEAN /\ importing \in BOOLEAN
    /\ moves \in 0 .. MaxMoves

NavigationInit ==
    /\ path = <<>> /\ crumbs = <<>> /\ backStack = <<>>
    /\ opened = 0 /\ confirm = FALSE /\ importing = FALSE
    /\ moves = 0

Moved ==
    /\ moves < MaxMoves
    /\ moves' = moves + 1

----------------------------------------------------------------------------
(* The breadcrumbs.                                                        *)

\* One label for every id of the path the menu knows; the others are gone.
setMenuBreadcrumb(at) == [i \in 1 .. Len(at) |-> Crumb(at[i], "menu")]

pushBreadcrumb(list, label) == Append(list, Crumb(label, "component"))

\* Mutant: a page that closes takes the last breadcrumb, whosever it is.
PopsAny(list) == IF list = <<>> THEN list ELSE Front(list)

popBreadcrumb(list) ==
    IF list # <<>> /\ Last(list).source = "component" THEN Front(list) ELSE list

\* The derived store: a new path is a new list.
Goes(at) == path' = at /\ crumbs' = setMenuBreadcrumb(at)

\* What embeds the pages over this level is gone: their handlers stay on the
\* stack, of no page that is shown (level 0).
Left == 0
Orphaned(level) ==
    [i \in 1 .. Len(backStack) |-> IF backStack[i] > level THEN Left ELSE backStack[i]]

\* The component leaves with its path.
LeavesPage(at) ==
    IF path \in Component /\ at # path
    THEN opened' = 0 /\ backStack' = Orphaned(0)
    ELSE UNCHANGED <<opened, backStack>>

----------------------------------------------------------------------------
(* The menu.                                                               *)

\* navigateBack(): up one level; from the top to the exit menu.
Up(at) == IF at = <<>> THEN <<"exit">> ELSE Front(at)

navigateBack ==
    /\ Goes(Up(path))
    /\ LeavesPage(Up(path))
    /\ UNCHANGED <<confirm, importing>>

\* exit() of an embedded page that is active.
ClosesPage(level) ==
    /\ opened' = level - 1
    /\ backStack' = RemoveFirst(Orphaned(level), level)
    /\ crumbs' = popBreadcrumb(crumbs)
    /\ UNCHANGED <<path, confirm, importing>>

\* The handler of a page that is not shown any more closes it all the same.
ClosesLeft ==
    /\ backStack' = Front(backStack)
    /\ crumbs' = popBreadcrumb(crumbs)
    /\ UNCHANGED <<path, opened, confirm, importing>>

\* executeBackHandler, or up in the menu.
GoesBack ==
    \/ backStack = <<>> /\ navigateBack
    \/ backStack # <<>> /\ Last(backStack) = Left /\ ClosesLeft
    \/ backStack # <<>> /\ Last(backStack) # Left /\ ClosesPage(Last(backStack))

onBack == Moved /\ GoesBack

\* The user picks an item of the menu shown.
navigateMenu(id, custom) ==
    /\ Moved
    /\ ~confirm
    /\ id \in Submenu(path)
    /\ CASE id \in {"back", "select"} -> GoesBack
         [] id = "quit" -> /\ confirm' = TRUE
                           /\ UNCHANGED <<path, crumbs, backStack, opened, importing>>
         [] OTHER ->
              LET at == Append(path, id)
                  named == setMenuBreadcrumb(at)
              IN /\ path' = at
                 /\ crumbs' = IF custom
                              THEN [named EXCEPT ![Len(at)] = Crumb("custom", "menu")]
                              ELSE named
                 /\ UNCHANGED <<backStack, opened, confirm, importing>>

hideConfirmDialog ==
    /\ confirm
    /\ confirm' = FALSE
    /\ UNCHANGED <<path, crumbs, backStack, opened, importing, moves>>

\* Storage and the form that creates a LISH go to a place at once.
navigateToAbsolute(at) ==
    /\ Moved
    /\ opened = 0
    /\ at # path
    /\ Goes(at)
    /\ LeavesPage(at)
    /\ UNCHANGED <<confirm, importing>>

\* The language or a setting changes: the menu is built anew, and so are the
\* breadcrumbs, without those of the embedded pages that are open.
MenuRebuilt ==
    /\ Moved
    /\ crumbs' = setMenuBreadcrumb(path)
    /\ UNCHANGED <<path, backStack, opened, confirm, importing>>

----------------------------------------------------------------------------
(* Embedded pages: createSubPage of the component and of what it embeds.   *)

\* The area of the page below pauses: only the innermost page opens another.
enter ==
    /\ Moved
    /\ path \in Component
    /\ opened < Depth
    /\ opened' = opened + 1
    /\ crumbs' = pushBreadcrumb(crumbs, "page")
    /\ backStack' = Append(backStack, opened + 1)
    /\ UNCHANGED <<path, confirm, importing>>

\* Its form is done: also when a page over it is still open.
exit(level) ==
    /\ Moved
    /\ level \in 1 .. opened
    /\ ClosesPage(level)

\* The import form asks the backend, and goes back twice when it has the
\* answer, wherever the user is by then.
Import ==
    /\ Moved
    /\ path \in Component
    /\ opened = 0
    /\ ~importing
    /\ importing' = TRUE
    /\ UNCHANGED <<path, crumbs, backStack, opened, confirm>>

Imported ==
    /\ importing
    /\ importing' = FALSE
    /\ \/ UNCHANGED <<path, crumbs, opened, backStack>>
       \/ Goes(Up(Up(path))) /\ LeavesPage(Up(Up(path)))
    /\ UNCHANGED <<confirm, moves>>

NavigationNext ==
    \/ onBack \/ hideConfirmDialog \/ MenuRebuilt \/ Import \/ Imported
    \/ \E id \in Ids, custom \in BOOLEAN : navigateMenu(id, custom)
    \/ \E at \in {<<"downloads">>, <<"downloads", "import">>} : navigateToAbsolute(at)
    \/ enter
    \/ \E level \in 1 .. Depth : exit(level)

NavigationSpec == NavigationInit /\ [][NavigationNext]_navigationVars

----------------------------------------------------------------------------

\* Where the user is: one breadcrumb for each level of the menu path, before
\* those of the embedded pages, however pages were opened and closed around a
\* menu that was built anew, an import that came late or a way taken at once
\* (navigation.ts popBreadcrumb: only pop component items).
CrumbsFollow ==
    /\ Len(path) <= Len(crumbs)
    /\ \A i \in 1 .. Len(crumbs) : crumbs[i].source = "menu" <=> i <= Len(path)
    /\ \A i \in 1 .. Len(path) : crumbs[i].label \in {path[i], "custom"}
=============================================================================
