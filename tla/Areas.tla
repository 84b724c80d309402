-------------------------------- MODULE Areas --------------------------------
(***************************************************************************)
(* The keyboard areas of the frontend (scripts/areas.ts): who registered   *)
(* the handlers of each area, and the one area that is active.  A layout   *)
(* is a record of the two; the modules of the pages keep one each.         *)
(***************************************************************************)

Nobody == "nobody"
NoArea == "no area"

\* clearLayout, for a set of areas.
EmptyLayout(areas) == [owner |-> [a \in areas |-> Nobody], active |-> NoArea]
Registered(layout, area) == layout.owner[area] # Nobody

\* useArea: the last to register an area has its handlers.
useArea(layout, area, who) == [layout EXCEPT !.owner[area] = who]
\* What it returns: removes the handlers only when they are still its own.
dropArea(layout, area, who) ==
  IF layout.owner[area] # who THEN layout
  ELSE [owner |-> [layout.owner EXCEPT ![area] = Nobody],
        active |-> IF layout.active = area THEN NoArea ELSE layout.active]
activateArea(layout, area) ==
  IF Registered(layout, area) THEN [layout EXCEPT !.active = area] ELSE layout

useAll(layout, areas, who) == [layout EXCEPT !.owner = [a \in DOMAIN @ |-> IF a \in areas THEN who ELSE @[a]]]
DropsAnyway(layout, areas, who) ==
  [owner |-> [a \in DOMAIN layout.owner |-> IF a \in areas THEN Nobody ELSE layout.owner[a]],
   active |-> IF layout.active \in areas THEN NoArea ELSE layout.active]
dropAll(layout, areas, who) ==
  [owner |-> [a \in DOMAIN layout.owner |-> IF a \in areas /\ layout.owner[a] = who THEN Nobody ELSE layout.owner[a]],
   active |-> IF layout.active \in areas /\ layout.owner[layout.active] = who THEN NoArea ELSE layout.active]

\* emit: a key goes to the handlers of the active area, and nowhere when there is none.
Emits(layout, area, who) == layout.active = area /\ layout.owner[area] = who
=============================================================================
