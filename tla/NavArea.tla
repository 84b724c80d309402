------------------------------- MODULE NavArea -------------------------------
(***************************************************************************)
(* A page or dialog whose items lie on a grid (frontend                    *)
(* scripts/navArea.svelte.ts): the items come and go as components mount,  *)
(* one position is selected, and the keys move it (scripts/areas.ts emit). *)
(* The area is itself the active one or not.  No two items have the same   *)
(* position, but an item does not keep the one it has: it is asked of the  *)
(* component each time, and rows move when others come, go or are sorted.  *)
(* The selection is a position, and stays.  A row moves the others with    *)
(* the last of its items that goes.                                        *)
(***************************************************************************)
EXTENDS Integers, Sequences, FiniteSets

CONSTANTS Columns, Rows,    \* the grid is 0..Columns-1 by 0..Rows-1
          MaxItems,         \* bound: items registered at once
          PageSize          \* PAGE_SIZE

\* An area may start from the second column, and have a list of rows.
ASSUME NavAssumption == Columns \in Nat \ {0, 1} /\ Rows \in Nat \ {0} /\ MaxItems \in Nat /\ PageSize \in Nat

VARIABLES items, selectedPos, initialPosition, trap, listRange,
          isAreaActive, confirmActive, pressed,
          strayed   \* no item since rows moved under the selection, or it was set unseen (history)

navVars == <<items, selectedPos, initialPosition, trap, listRange, isAreaActive, confirmActive, pressed, strayed>>
Pos == (0..Columns - 1) \X (0..Rows - 1)
NoPos == <<>>
Positions(is) == {is[i] : i \in DOMAIN is}
NoRange == <<1, 0>>

NavTypeOK ==
  /\ items \in Seq(Pos) /\ Cardinality(Positions(items)) = Len(items) /\ Len(items) <= MaxItems
  /\ {selectedPos, initialPosition} \subseteq Pos \cup {NoPos}
  /\ listRange \in (0..Rows) \X (0..Rows)
  /\ \A b \in {trap, isAreaActive, confirmActive, pressed, strayed} : b \in BOOLEAN

Direction == {"up", "down", "left", "right"}
Distance(a, b) == IF a > b THEN a - b ELSE b - a
\* The items strictly in a direction: of the same row to the sides, of any column up and down.
Ahead(is, pos, direction) ==
  {i \in DOMAIN is :
     CASE direction = "left"  -> is[i][2] = pos[2] /\ is[i][1] < pos[1]
       [] direction = "right" -> is[i][2] = pos[2] /\ is[i][1] > pos[1]
       [] direction = "up"    -> is[i][2] < pos[2]
       [] direction = "down"  -> is[i][2] > pos[2]}
\* The nearest row, in it the nearest column, and of two as near the one that registered first.
Nearer(is, pos, i, j) ==
  LET dx(k) == Distance(is[k][1], pos[1])
      dy(k) == Distance(is[k][2], pos[2])
  IN \/ dy(i) < dy(j)
     \/ dy(i) = dy(j) /\ dx(i) < dx(j)
     \/ dy(i) = dy(j) /\ dx(i) = dx(j) /\ i <= j
SameColumn(is, pos, direction) ==
  LET ahead == {i \in Ahead(is, pos, direction) : direction \in {"left", "right"} \/ is[i][1] = pos[1]}
  IN IF ahead = {} THEN NoPos ELSE is[CHOOSE i \in ahead : \A j \in ahead : Nearer(is, pos, i, j)]
findItemInDirection(is, pos, direction) ==
  LET ahead == Ahead(is, pos, direction)
  IN IF ahead = {} THEN NoPos ELSE is[CHOOSE i \in ahead : \A j \in ahead : Nearer(is, pos, i, j)]

-----------------------------------------------------------------------------
(* Items and the area *)

\* What an area activated with nothing selected selects: the first of the first row.
First(is) == CHOOSE p \in Positions(is) : \A q \in Positions(is) : p[2] < q[2] \/ (p[2] = q[2] /\ p[1] <= q[1])
Strays(unseen) == strayed' = ((strayed \/ unseen) /\ selectedPos' \notin Positions(items'))
AreaKept == UNCHANGED <<initialPosition, trap, listRange, isAreaActive, confirmActive, pressed>>

\* Items whose rows are moved: those below a row that goes, or from one that comes on, or two exchanged.
Laid(is, rows) == [i \in DOMAIN is |-> <<is[i][1], rows[is[i][2]]>>]
DrawnUp(y) == [r \in 0..Rows - 1 |-> IF r > y THEN r - 1 ELSE r]
Parted(y) == [r \in 0..Rows - 1 |-> IF r >= y THEN r + 1 ELSE r]
Exchanged(a, b) == [r \in 0..Rows - 1 |-> IF r = a THEN b ELSE IF r = b THEN a ELSE r]
InRow(is, y) == {i \in DOMAIN is : is[i][2] = y}

register(pos) ==
  /\ Len(items) < MaxItems
  /\ \E parts \in BOOLEAN :
       LET others == IF parts THEN Laid(items, Parted(pos[2])) ELSE items IN
       /\ parts => InRow(items, Rows - 1) = {}
       /\ pos \notin Positions(others) /\ items' = Append(others, pos)
       /\ selectedPos' = IF items = <<>> /\ selectedPos = NoPos THEN pos ELSE selectedPos
       /\ Strays(parts)
  /\ AreaKept
Without(k) == [i \in 1..Len(items) - 1 |-> IF i < k THEN items[i] ELSE items[i + 1]]
\* The others have moved up already when the selection looks for a neighbour, or do so after.
RowsClose(k, draws) ==
  /\ draws => InRow(items, items[k][2]) = {k}
  /\ items' = IF draws THEN Laid(Without(k), DrawnUp(items[k][2])) ELSE Without(k)
UnregisterKeeps(k) ==
  /\ k \in DOMAIN items /\ UNCHANGED selectedPos /\ AreaKept
  /\ \E draws \in BOOLEAN : RowsClose(k, draws) /\ Strays(draws)
\* The selection of an item that goes moves to its neighbour: left, above, right, below, or any.
Neighbour(is, pos) ==
  LET next(d) == findItemInDirection(is, pos, d)
  IN IF next("left") # NoPos THEN next("left")
     ELSE IF next("up") # NoPos THEN next("up")
     ELSE IF next("right") # NoPos THEN next("right")
     ELSE IF next("down") # NoPos THEN next("down")
     ELSE is[1]
unregister(k) ==
  /\ k \in DOMAIN items /\ AreaKept
  /\ \E draws \in BOOLEAN :
       /\ RowsClose(k, draws)
       /\ \E left \in {items', Without(k)} :
            selectedPos' = IF selectedPos # items[k] THEN selectedPos
                           ELSE IF left = <<>> THEN NoPos ELSE Neighbour(left, selectedPos)
       /\ Strays(draws)
\* The rows are sorted anew.
Sorts == /\ \E a, b \in 0..Rows - 1 : a < b /\ items' = Laid(items, Exchanged(a, b))
         /\ UNCHANGED selectedPos /\ Strays(TRUE) /\ AreaKept
Activated ==
  /\ ~isAreaActive /\ isAreaActive' = TRUE
  /\ selectedPos' = IF selectedPos = NoPos /\ items # <<>> THEN First(items) ELSE selectedPos
  /\ UNCHANGED <<items, initialPosition, trap, listRange, confirmActive, pressed>> /\ Strays(FALSE)
Deactivated == /\ isAreaActive /\ isAreaActive' = FALSE
               /\ UNCHANGED <<items, selectedPos, initialPosition, trap, listRange, confirmActive, pressed, strayed>>
\* By the mouse an item's position; by a page any, whether there is an item or not.
select == /\ \E pos \in Pos : selectedPos' = pos
          /\ AreaKept /\ UNCHANGED items /\ Strays(TRUE)

-----------------------------------------------------------------------------
(* Keys *)

\* A direction or the way back ends a press first; on another area, of that area only.
Released == confirmActive' = FALSE /\ pressed' = (pressed /\ ~(confirmActive /\ isAreaActive))
navigate(direction) ==
  /\ isAreaActive /\ Released /\ UNCHANGED <<items, initialPosition, trap, listRange>>
  /\ LET next == IF selectedPos = NoPos THEN NoPos ELSE findItemInDirection(items, selectedPos, direction)
     IN IF next # NoPos THEN selectedPos' = next /\ UNCHANGED isAreaActive
        ELSE UNCHANGED selectedPos /\ isAreaActive' \in (IF trap THEN {TRUE} ELSE BOOLEAN)   \* areaNavigate
  /\ Strays(FALSE)
back == /\ isAreaActive /\ Released /\ isAreaActive' \in BOOLEAN
        /\ UNCHANGED <<items, selectedPos, initialPosition, trap, listRange, strayed>>
confirmDown == /\ confirmActive' = TRUE /\ pressed' = (pressed \/ isAreaActive)
               /\ UNCHANGED <<items, selectedPos, initialPosition, trap, listRange, isAreaActive, strayed>>
confirmUp == /\ confirmActive /\ confirmActive' = FALSE /\ pressed' = (pressed /\ ~isAreaActive)
             /\ UNCHANGED <<items, selectedPos, initialPosition, trap, listRange, isAreaActive, strayed>>

\* The column of the list the selection is in, from the top.  A range that shrinks
\* with the rows only takes keys away.
ListColumn ==
  IF selectedPos = NoPos \/ selectedPos[2] \notin listRange[1]..listRange[2] THEN {}
  ELSE {p \in Positions(items) : p[1] = selectedPos[1] /\ p[2] \in listRange[1]..listRange[2]}
Rank(p) == Cardinality({q \in ListColumn : q[2] < p[2]})
jumpBy(delta) ==
  /\ isAreaActive /\ selectedPos \in ListColumn
  /\ LET last == Cardinality(ListColumn) - 1
         wanted == Rank(selectedPos) + delta
         rank == IF wanted < 0 THEN 0 ELSE IF wanted > last THEN last ELSE wanted
     IN selectedPos' = CHOOSE p \in ListColumn : Rank(p) = rank
  /\ AreaKept /\ UNCHANGED items /\ Strays(FALSE)
jumpEdge(top) ==
  /\ isAreaActive /\ ListColumn # {}
  /\ selectedPos' = CHOOSE p \in ListColumn : \A q \in ListColumn : IF top THEN p[2] <= q[2] ELSE p[2] >= q[2]
  /\ AreaKept /\ UNCHANGED items /\ Strays(FALSE)

NavInit ==
  /\ items = <<>> /\ initialPosition \in {NoPos, <<1, 0>>} /\ selectedPos = initialPosition
  /\ trap \in BOOLEAN /\ listRange \in {NoRange, <<1, Rows>>}
  /\ isAreaActive \in BOOLEAN /\ confirmActive = FALSE /\ pressed = FALSE
  /\ strayed = (selectedPos # NoPos)
NavNext ==
  \/ \E pos \in Pos : register(pos)
  \/ \E k \in 1..MaxItems : unregister(k)
  \/ Sorts \/ Activated \/ Deactivated \/ select \/ back \/ confirmDown \/ confirmUp
  \/ \E direction \in Direction : navigate(direction)
  \/ (\E delta \in {0 - PageSize, PageSize} : jumpBy(delta)) \/ (\E top \in BOOLEAN : jumpEdge(top))

-----------------------------------------------------------------------------
(* Whatever items there are and in whatever order they came, the arrows    *)
(* lead from each to every other: no item can only be had with the mouse.  *)
Further(set) == set \cup ({findItemInDirection(items, q, d) : q \in set, d \in Direction} \ {NoPos})
ByArrows(from) ==
  LET reached[n \in 0..Len(items)] == IF n = 0 THEN {from} ELSE Further(reached[n - 1])
  IN reached[Len(items)]
EveryItemReached == \A p \in Positions(items) : ByArrows(p) = Positions(items)

(* The selection is one of the items while there are any -- items that go, *)
(* and pages that jump, included --, unless rows moved under it or it was  *)
(* set to a position nobody looked at; and from there an arrow leads back  *)
(* to an item.                                                             *)
SelectionIsThere ==
  items # <<>> =>
    \/ selectedPos \in Positions(items)
    \/ strayed /\ \E d \in Direction : findItemInDirection(items, selectedPos, d) # NoPos

-----------------------------------------------------------------------------
(* What the code does not guarantee (README, Divergences): the selection is *)
(* one of the items, or where the area was told to start.                  *)
SelectionIsAnItem == items # <<>> => selectedPos \in Positions(items) \cup {initialPosition}
=============================================================================
