----------------------------- MODULE PlaceProofs -----------------------------
(***************************************************************************)
(* Where the user is, for all bounds: the devices that move the selection, *)
(* the trail of pages, the grid of items, and who owns the areas of the    *)
(* keyboard in the file browser and on the page of a download.             *)
(***************************************************************************)
EXTENDS MCClient, SequenceTheorems, FiniteSetTheorems, WellFoundedInduction, TLAPS

\* Numbers, if there are any, have a least one.
LEMMA LeastOf ==
  ASSUME NEW S \in SUBSET Nat, S # {}
  PROVE  \E x \in S : \A y \in S : x <= y
<1>1. OpToRel(<, Nat) = {ss \in Nat \X Nat : ss[1] < ss[2]}
  BY Zenon DEF OpToRel
<1>2. PICK x \in S : \A y \in S : <<y, x>> \notin {ss \in Nat \X Nat : ss[1] < ss[2]}
  <2>1. IsWellFoundedOn({ss \in Nat \X Nat : ss[1] < ss[2]}, Nat)
    BY NatLessThanWellFounded, <1>1, Zenon
  <2>2. QED
    BY <2>1, WFMin, Zenon
<1>3. ASSUME NEW y \in S PROVE x <= y
  <2>1. x \in Nat /\ y \in Nat
    OBVIOUS
  <2>2. ~(y < x)
    BY <1>2, <2>1, Zenon
  <2>3. QED
    BY <2>1, <2>2
<1>4. QED
  BY <1>3, Zenon


-----------------------------------------------------------------------------
(* The devices.  A confirmation the keyboard or the pad may end is one it  *)
(* began: the keyboard remembers the key that confirms, the pad the        *)
(* buttons of the last frame and which of them began as a shortcut.        *)

KeysType == [held : Arrows \cup Volumes \cup {NoKey}, repeat : {"off", "waiting", "on"}, confirm : BOOLEAN]
PadType == [on : BOOLEAN, polling : BOOLEAN, previous : SUBSET Pad,
            combined : SUBSET Pad, moving : BOOLEAN, volume : {"low", "high", NoKey}]
MouseType == [started : BOOLEAN, moved : BOOLEAN, visible : BOOLEAN, hiding : BOOLEAN,
              pending : HoverTarget \cup {NoTarget}, frame : BOOLEAN,
              item : HoverTarget \cup {NoTarget}, area : {"area1", "area2", NoTarget}]
ChosenType == [area : {"area1", "area2"}, item : HoverTarget \cup {NoTarget}]
PadsKept == gamepad \in [there : BOOLEAN, pressed : SUBSET Pad] /\ pad \in PadType
KeysAreKept == heldKeys \in SUBSET Keyboard /\ keys \in KeysType
OwedKept == owed \in [keyboard : BOOLEAN, pad : BOOLEAN]
MouseKept == mouse \in MouseType /\ chosen \in ChosenType
RestKept == /\ active \in BOOLEAN /\ fullscreen \in [locked : BOOLEAN, exited : BOOLEAN]
            /\ inputEvents \in 0 .. MaxInputEvents
Begun == /\ keys.confirm => owed.keyboard
         /\ "A" \in pad.previous /\ "A" \notin pad.combined => owed.pad
InputInv == PadsKept /\ KeysAreKept /\ OwedKept /\ MouseKept /\ RestKept /\ Begun
OnlyBegun == /\ "aUp" \in said' => owed.pad
             /\ "confirmUp by key" \in said' => owed.keyboard

LEMMA TouchesKept ==
  ASSUME RestKept, Touches \/ UNCHANGED inputEvents
  PROVE  inputEvents' \in 0 .. MaxInputEvents
<1>1. inputEvents \in 0 .. MaxInputEvents
  BY Zenon DEF RestKept
<1>2. CASE Touches
  BY <1>1, <1>2, InputAssumption DEF Touches
<1>3. CASE UNCHANGED inputEvents
  BY <1>1, <1>3
<1>4. QED
  BY <1>2, <1>3

LEMMA KeysIs ==
  ASSUME NEW k \in KeysType
  PROVE  /\ k.confirm \in BOOLEAN
         /\ \A key \in Arrows \cup Volumes :
              /\ [k EXCEPT !.held = key, !.repeat = "waiting"] \in KeysType
              /\ [k EXCEPT !.held = key, !.repeat = "waiting"].confirm = k.confirm
         /\ \A b \in BOOLEAN : [k EXCEPT !.confirm = b] \in KeysType /\ [k EXCEPT !.confirm = b].confirm = b
         /\ [k EXCEPT !.held = NoKey, !.repeat = "off"] \in KeysType
         /\ [k EXCEPT !.held = NoKey, !.repeat = "off"].confirm = k.confirm
         /\ [k EXCEPT !.repeat = "on"] \in KeysType /\ [k EXCEPT !.repeat = "on"].confirm = k.confirm
BY DEF KeysType

LEMMA MouseIs ==
  ASSUME NEW m \in MouseType
  PROVE  Hidden(m) \in MouseType /\ Seen(m) \in MouseType
BY DEF MouseType, Hidden, Seen

LEMMA OwedIs ==
  ASSUME OwedKept, NEW b
  PROVE  /\ owed.keyboard \in BOOLEAN /\ owed.pad \in BOOLEAN
         /\ b \in BOOLEAN => /\ [owed EXCEPT !.keyboard = b] \in [keyboard : BOOLEAN, pad : BOOLEAN]
                             /\ [owed EXCEPT !.pad = b] \in [keyboard : BOOLEAN, pad : BOOLEAN]
         /\ [owed EXCEPT !.keyboard = b].keyboard = b /\ [owed EXCEPT !.keyboard = b].pad = owed.pad
         /\ [owed EXCEPT !.pad = b].pad = b /\ [owed EXCEPT !.pad = b].keyboard = owed.keyboard
BY DEF OwedKept

LEMMA PressedIs ==
  ASSUME NEW key
  PROVE  /\ "aUp" \notin Pressed(key) /\ "confirmUp by key" \notin Pressed(key)
         /\ key \in Confirming /\ ~keys.confirm => "confirmDown" \in Pressed(key)
BY DEF Pressed, Arrows, Volumes, Confirming

LEMMA KeyDownKeeps ==
  ASSUME InputInv, NEW key \in Keyboard, NEW typing \in BOOLEAN, KeyDown(key, typing)
  PROVE  InputInv' /\ OnlyBegun
<1> USE DEF InputInv
<1>1. PadsKept' /\ RestKept' /\ UNCHANGED pad
  BY TouchesKept DEF KeyDown, PadsKept, RestKept
<1>2. MouseKept' /\ heldKeys' \in SUBSET Keyboard
  BY MouseIs DEF KeyDown, MouseKept, KeysAreKept
<1>3. OnlyBegun
  BY PressedIs DEF OnlyBegun, KeyDown, SaysNothing, Says
<1>4. CASE typing
  BY <1>1, <1>2, <1>3, <1>4 DEF KeyDown, KeysAreKept, OwedKept, Begun
<1>5. CASE ~typing
  <2> DEFINE begins == "confirmDown" \in Pressed(key)
             now == owed.keyboard \/ begins
  <2>1. now \in BOOLEAN /\ owed' = [owed EXCEPT !.keyboard = now]
    BY <1>5, Zenon DEF KeyDown
  <2>2. owed' \in [keyboard : BOOLEAN, pad : BOOLEAN] /\ owed'.keyboard = now /\ owed'.pad = owed.pad
    <3> HIDE DEF now
    <3>1. QED
      BY <2>1, OwedIs
  <2>3. \/ keys' \in KeysType /\ keys'.confirm = keys.confirm
        \/ key \in Confirming /\ keys' \in KeysType
    <3>1. keys \in KeysType
      BY DEF KeysAreKept
    <3>2. TRUE \in BOOLEAN
      OBVIOUS
    <3>3. \/ keys' = keys
          \/ key \in Arrows \cup Volumes /\ keys' = [keys EXCEPT !.held = key, !.repeat = "waiting"]
          \/ key \in Confirming /\ keys' = [keys EXCEPT !.confirm = TRUE]
      BY <1>5 DEF KeyDown, Holds
    <3>4. CASE keys' = keys
      BY <3>1, <3>4
    <3>5. CASE key \in Arrows \cup Volumes /\ keys' = [keys EXCEPT !.held = key, !.repeat = "waiting"]
      BY <3>1, <3>5, KeysIs
    <3>6. CASE key \in Confirming /\ keys' = [keys EXCEPT !.confirm = TRUE]
      BY <3>1, <3>2, <3>6, KeysIs
    <3>7. QED
      BY <3>3, <3>4, <3>5, <3>6
  <2>4. keys'.confirm => owed'.keyboard
    <3>1. CASE keys.confirm
      BY <2>2, <3>1 DEF Begun
    <3>2. CASE ~keys.confirm /\ key \in Confirming
      BY <2>2, <3>2, PressedIs
    <3>3. QED
      BY <2>3, <3>1, <3>2
  <2>5. Begun'
    BY <1>1, <2>2, <2>4 DEF Begun
  <2>6. QED
    BY <1>1, <1>2, <1>3, <2>2, <2>3, <2>5 DEF KeysAreKept, OwedKept
<1>6. QED
  BY <1>4, <1>5

LEMMA KeyUpKeeps ==
  ASSUME InputInv, NEW key \in Keyboard, KeyUp(key)
  PROVE  InputInv' /\ OnlyBegun
<1> USE DEF InputInv
<1> DEFINE ends == key \in Confirming /\ keys.confirm
           cleared == IF keys.held = key THEN [keys EXCEPT !.held = NoKey, !.repeat = "off"] ELSE keys
           confirms == cleared.confirm /\ ~ends
           owes == owed.keyboard /\ ~ends
<1>1. PadsKept' /\ RestKept' /\ MouseKept' /\ UNCHANGED pad
  BY DEF KeyUp, PadsKept, RestKept, MouseKept
<1>2. heldKeys' \in SUBSET Keyboard
  BY DEF KeyUp, KeysAreKept
<1>3. keys' = [cleared EXCEPT !.confirm = confirms] /\ owed' = [owed EXCEPT !.keyboard = owes]
      /\ said' = IF ends THEN {"confirmUp by key"} ELSE {}
  BY DEF KeyUp, Says
<1>4. confirms \in BOOLEAN /\ owes \in BOOLEAN
  BY Zenon
<1>5. keys \in KeysType /\ cleared \in KeysType /\ cleared.confirm = keys.confirm
  <2>1. keys \in KeysType
    BY DEF KeysAreKept
  <2>2. QED
    BY <2>1, KeysIs
<1>6. confirms => owes
  BY <1>5 DEF Begun
<1>7. ends => owed.keyboard
  BY DEF Begun
<1>8. OnlyBegun
  BY <1>3, <1>7 DEF OnlyBegun
<1> HIDE DEF confirms, owes, cleared
<1>9. keys' \in KeysType /\ keys'.confirm = confirms
  BY <1>3, <1>4, <1>5, KeysIs
<1>10. owed' \in [keyboard : BOOLEAN, pad : BOOLEAN] /\ owed'.keyboard = owes /\ owed'.pad = owed.pad
  BY <1>3, <1>4, OwedIs
<1>11. Begun'
  BY <1>1, <1>6, <1>9, <1>10 DEF Begun
<1>12. QED
  BY <1>1, <1>2, <1>8, <1>9, <1>10, <1>11 DEF KeysAreKept, OwedKept

LEMMA KeyboardKeeps ==
  ASSUME InputInv, RepeatStarts \/ Repeats \/ Fullscreen \/ FullscreenOver \/ \E key \in Keyboard : KeyUpUnseen(key)
  PROVE  InputInv' /\ OnlyBegun
<1> USE DEF InputInv
<1>1. PadsKept' /\ MouseKept' /\ OwedKept' /\ UNCHANGED <<pad, owed>>
  BY DEF RepeatStarts, Repeats, Fullscreen, FullscreenOver, KeyUpUnseen, PadsKept, MouseKept, OwedKept
<1>2. RestKept'
  <2>1. Touches \/ UNCHANGED inputEvents
    BY DEF RepeatStarts, Repeats, Fullscreen, FullscreenOver, KeyUpUnseen
  <2>2. active' = active
    BY DEF RepeatStarts, Repeats, Fullscreen, FullscreenOver, KeyUpUnseen
  <2>3. fullscreen' \in [locked : BOOLEAN, exited : BOOLEAN]
    <3>1. fullscreen' \in {fullscreen, [fullscreen EXCEPT !.locked = ~fullscreen.locked],
                           [locked |-> FALSE, exited |-> fullscreen.locked \/ fullscreen.exited],
                           [fullscreen EXCEPT !.exited = FALSE]}
      BY DEF RepeatStarts, Repeats, Fullscreen, FullscreenOver, KeyUpUnseen
    <3>2. ASSUME NEW f \in [locked : BOOLEAN, exited : BOOLEAN], NEW b \in BOOLEAN
          PROVE  /\ [f EXCEPT !.locked = b] \in [locked : BOOLEAN, exited : BOOLEAN]
                 /\ [f EXCEPT !.exited = b] \in [locked : BOOLEAN, exited : BOOLEAN]
                 /\ [locked |-> FALSE, exited |-> b] \in [locked : BOOLEAN, exited : BOOLEAN]
      OBVIOUS
    <3>3. fullscreen \in [locked : BOOLEAN, exited : BOOLEAN]
      BY DEF RestKept
    <3>4. (~fullscreen.locked) \in BOOLEAN
      BY Zenon
    <3>5. (fullscreen.locked \/ fullscreen.exited) \in BOOLEAN
      BY Zenon
    <3>6. FALSE \in BOOLEAN
      OBVIOUS
    <3>7. [fullscreen EXCEPT !.locked = ~fullscreen.locked] \in [locked : BOOLEAN, exited : BOOLEAN]
      BY <3>2, <3>3, <3>4
    <3>8. [locked |-> FALSE, exited |-> fullscreen.locked \/ fullscreen.exited] \in [locked : BOOLEAN, exited : BOOLEAN]
      BY <3>2, <3>3, <3>5
    <3>9. [fullscreen EXCEPT !.exited = FALSE] \in [locked : BOOLEAN, exited : BOOLEAN]
      BY <3>2, <3>3, <3>6
    <3>10. QED
      BY <3>1, <3>3, <3>7, <3>8, <3>9, Zenon
  <2>4. QED
    BY <2>1, <2>2, <2>3, TouchesKept DEF RestKept
<1>3. OnlyBegun
  BY PressedIs DEF RepeatStarts, Repeats, Fullscreen, FullscreenOver, KeyUpUnseen, SaysNothing, Says, OnlyBegun
<1>4. KeysAreKept' /\ keys'.confirm = keys.confirm
  <2>1. keys' = keys \/ keys' = [keys EXCEPT !.repeat = "on"]
    BY DEF RepeatStarts, Repeats, Fullscreen, FullscreenOver, KeyUpUnseen
  <2>2. heldKeys' \in SUBSET heldKeys
    BY DEF RepeatStarts, Repeats, Fullscreen, FullscreenOver, KeyUpUnseen
  <2>3. keys \in KeysType /\ heldKeys \in SUBSET Keyboard
    BY DEF KeysAreKept
  <2>4. keys' \in KeysType /\ keys'.confirm = keys.confirm
    <3>1. CASE keys' = keys
      BY <2>3, <3>1
    <3>2. CASE keys' = [keys EXCEPT !.repeat = "on"]
      BY <2>3, <3>2, KeysIs
    <3>3. QED
      BY <2>1, <3>1, <3>2
  <2>5. QED
    BY <2>2, <2>3, <2>4 DEF KeysAreKept
<1>5. QED
  BY <1>1, <1>2, <1>3, <1>4 DEF Begun

-----------------------------------------------------------------------------
(* The pad *)

LEMMA PadIs ==
  ASSUME NEW p \in PadType
  PROVE  /\ p.on \in BOOLEAN /\ p.polling \in BOOLEAN /\ p.moving \in BOOLEAN
         /\ p.previous \in SUBSET Pad /\ p.combined \in SUBSET Pad /\ p.volume \in {"low", "high", NoKey}
         /\ p = [on |-> p.on, polling |-> p.polling, previous |-> p.previous, combined |-> p.combined,
                 moving |-> p.moving, volume |-> p.volume]
BY DEF PadType

\* The button of the pad that confirms, as the pad manager last saw it.
Confirms(p) == "A" \in p.previous /\ "A" \notin p.combined

LEMMA PollKept ==
  ASSUME NEW p \in PadType, NEW due \in BOOLEAN, gamepad \in [there : BOOLEAN, pressed : SUBSET Pad]
  PROVE  /\ poll(p, due) \in PadType
         /\ "aUp" \in Polled(p, due) => Confirms(p)
         /\ Confirms(poll(p, due)) => "aUp" \notin Polled(p, due) /\ (Confirms(p) \/ "aDown" \in Polled(p, due))
         /\ "confirmUp by key" \notin Polled(p, due)
<1>1. /\ p.on \in BOOLEAN /\ p.polling \in BOOLEAN /\ p.moving \in BOOLEAN
      /\ p.previous \in SUBSET Pad /\ p.combined \in SUBSET Pad /\ p.volume \in {"low", "high", NoKey}
      /\ p = [on |-> p.on, polling |-> p.polling, previous |-> p.previous, combined |-> p.combined,
              moving |-> p.moving, volume |-> p.volume]
  BY PadIs
<1>2. gamepad.pressed \in SUBSET Pad
  OBVIOUS
<1>3. CASE ~p.on
  BY <1>3 DEF poll, Polled
<1>4. CASE p.on /\ ~gamepad.there
  <2>1. poll(p, due) = [on |-> FALSE, polling |-> FALSE, previous |-> p.previous, combined |-> p.combined,
                        moving |-> p.moving, volume |-> p.volume]
    BY <1>1, <1>4 DEF poll
  <2>2. poll(p, due) \in PadType
    BY <1>1, <2>1 DEF PadType
  <2>3. QED
    BY <1>4, <2>1, <2>2 DEF Polled, Confirms
<1>5. CASE p.on /\ gamepad.there
  <2> DEFINE combined == {b \in gamepad.pressed : IF New(p, b) THEN Combined ELSE b \in p.combined}
             moving == With("down") /\ (p.moving \/ due)
  <2>1. poll(p, due) = [on |-> p.on, polling |-> TRUE, previous |-> gamepad.pressed, combined |-> combined,
                        moving |-> moving, volume |-> VolumeButton]
    BY <1>1, <1>5 DEF poll
  <2>2. moving \in BOOLEAN /\ combined \in SUBSET Pad /\ VolumeButton \in {"low", "high", NoKey}
    <3>1. moving \in BOOLEAN
      BY Zenon
    <3>2. combined \in SUBSET Pad
      BY <1>2
    <3>3. VolumeButton \in {"low", "high", NoKey}
      BY DEF VolumeButton
    <3>4. QED
      BY <3>1, <3>2, <3>3
  <2>3. poll(p, due) \in PadType
    <3> HIDE DEF combined, moving
    <3>1. p.on \in BOOLEAN
      BY <1>1
    <3>2. QED
      BY <1>2, <2>1, <2>2, <3>1 DEF PadType
  <2>4. Polled(p, due) = handleButtons(p) \cup handleDirections(due) \cup handleVolume(p, due)
    BY <1>5 DEF Polled
  <2>5. \A a \in handleDirections(due) \cup handleVolume(p, due) : a = "down" \/ a = "volume"
    BY DEF handleDirections, handleVolume
  <2>6. /\ "aUp" \in handleButtons(p) => ~With("A") /\ Confirms(p)
        /\ New(p, "A") /\ ~Combined => "aDown" \in handleButtons(p)
        /\ "confirmUp by key" \notin handleButtons(p)
    BY DEF handleButtons, Confirms
  <2>7. ASSUME Confirms(poll(p, due)) PROVE With("A") /\ (Confirms(p) \/ "aDown" \in handleButtons(p))
    <3>1. "A" \in gamepad.pressed /\ "A" \notin combined
      BY <2>1, <2>7 DEF Confirms
    <3>2. CASE New(p, "A")
      BY <2>6, <3>1, <3>2 DEF With
    <3>3. CASE ~New(p, "A")
      BY <3>1, <3>3 DEF New, With, Confirms
    <3>4. QED
      BY <3>1, <3>2, <3>3 DEF With
  <2>8. QED
    BY <2>3, <2>4, <2>5, <2>6, <2>7
<1>6. QED
  BY <1>3, <1>4, <1>5

\* A frame is read and its actions are sent.
LEMMA ReadKeeps ==
  ASSUME InputInv, NEW p \in PadType, Confirms(p) => Confirms(pad), NEW due \in BOOLEAN,
         pad' = poll(p, due), Settles(Polled(p, due)), Says(Polled(p, due)), UNCHANGED <<keys, gamepad>>
  PROVE  PadsKept' /\ OwedKept' /\ Begun' /\ OnlyBegun
<1> USE DEF InputInv
<1> DEFINE sent == Polled(p, due)
           now == (owed.pad \/ "aDown" \in sent) /\ "aUp" \notin sent
<1>1. gamepad \in [there : BOOLEAN, pressed : SUBSET Pad]
  BY DEF PadsKept
<1>2. /\ pad' \in PadType
      /\ "aUp" \in sent => Confirms(p)
      /\ Confirms(pad') => "aUp" \notin sent /\ (Confirms(p) \/ "aDown" \in sent)
      /\ "confirmUp by key" \notin sent
  BY <1>1, PollKept
<1>3. now \in BOOLEAN /\ owed' = [owed EXCEPT !.pad = now] /\ said' = sent
  BY Zenon DEF Settles, Says
<1>4. Confirms(pad) => owed.pad
  BY DEF Begun, Confirms
<1>5. Confirms(pad') => now
  BY <1>2, <1>4
<1>6. OnlyBegun
  BY <1>2, <1>3, <1>4 DEF OnlyBegun
<1> HIDE DEF now
<1>7. owed' \in [keyboard : BOOLEAN, pad : BOOLEAN] /\ owed'.pad = now /\ owed'.keyboard = owed.keyboard
  BY <1>3, OwedIs
<1>8. Begun'
  BY <1>5, <1>7 DEF Begun, Confirms
<1>9. QED
  BY <1>1, <1>2, <1>6, <1>7, <1>8 DEF PadsKept, OwedKept

LEMMA StartKeepsPad ==
  ASSUME InputInv, NEW p \in PadType, Confirms(p) => Confirms(pad), startPolling(p), UNCHANGED <<keys, gamepad>>
  PROVE  PadsKept' /\ OwedKept' /\ Begun' /\ OnlyBegun
<1> USE DEF InputInv
<1>1. CASE p.polling
  <2>1. pad' = p /\ Settles({}) /\ Says({})
    BY <1>1 DEF startPolling
  <2>2. owed' = owed /\ said' = {}
    <3>1. owed' = [owed EXCEPT !.pad = owed.pad]
      <4>1. owed' = [owed EXCEPT !.pad = (owed.pad \/ FALSE) /\ TRUE]
        BY <2>1, Zenon DEF Settles
      <4>2. ((owed.pad \/ FALSE) /\ TRUE) = owed.pad
        <5>1. owed.pad \in BOOLEAN
          BY OwedIs
        <5>2. QED
          BY <5>1
      <4>3. QED
        BY <4>1, <4>2, Zenon
    <3>2. QED
      BY <2>1, <3>1 DEF Says, OwedKept
  <2>3. QED
    BY <2>1, <2>2 DEF PadsKept, OwedKept, Begun, OnlyBegun, Confirms
<1>2. CASE ~p.polling
  <2>1. PICK due \in BOOLEAN : pad' = poll(p, due) /\ Settles(Polled(p, due)) /\ Says(Polled(p, due))
    BY <1>2 DEF startPolling
  <2>2. QED
    BY <2>1, ReadKeeps
<1>3. QED
  BY <1>1, <1>2

LEMMA PadEndsKept ==
  ASSUME NEW p \in PadType
  PROVE  /\ stopPolling(p) \in PadType /\ ~Confirms(stopPolling(p))
         /\ [stopPolling(p) EXCEPT !.on = FALSE] \in PadType /\ ~Confirms([stopPolling(p) EXCEPT !.on = FALSE])
         /\ [p EXCEPT !.on = TRUE] \in PadType /\ (Confirms([p EXCEPT !.on = TRUE]) => Confirms(p))
<1>1. /\ stopPolling(p) \in PadType /\ [stopPolling(p) EXCEPT !.on = FALSE] \in PadType
      /\ [p EXCEPT !.on = TRUE] \in PadType
  BY DEF stopPolling, PadType
<1>2. stopPolling(p).previous = {} /\ [stopPolling(p) EXCEPT !.on = FALSE].previous = {}
  BY DEF stopPolling, PadType
<1>3. [p EXCEPT !.on = TRUE].previous = p.previous /\ [p EXCEPT !.on = TRUE].combined = p.combined
  BY DEF PadType
<1>4. QED
  BY <1>1, <1>2, <1>3 DEF Confirms

LEMMA PadKeeps ==
  ASSUME InputInv, Frame \/ handleConnect \/ WindowBack
  PROVE  InputInv' /\ OnlyBegun
<1> USE DEF InputInv
<1>1. KeysAreKept' /\ MouseKept' /\ UNCHANGED <<keys, gamepad, inputEvents, fullscreen>>
  BY DEF Frame, handleConnect, WindowBack, KeysAreKept, MouseKept
<1>2. RestKept'
  <2>1. active' \in BOOLEAN
    BY DEF Frame, handleConnect, WindowBack, RestKept
  <2>2. QED
    BY <1>1, <2>1 DEF RestKept
<1>3. pad \in PadType
  BY DEF PadsKept
<1>4. CASE UNCHANGED owed /\ SaysNothing /\ pad' \in PadType /\ (Confirms(pad') => Confirms(pad))
  BY <1>1, <1>2, <1>4 DEF PadsKept, OwedKept, Begun, OnlyBegun, Confirms, SaysNothing, Says
<1>5. CASE Frame
  <2>1. PICK due \in BOOLEAN : pad' = poll(pad, due) /\ Settles(Polled(pad, due)) /\ Says(Polled(pad, due))
    BY <1>5 DEF Frame
  <2>2. QED
    BY <1>1, <1>2, <1>3, <2>1, ReadKeeps
<1>6. CASE handleConnect
  <2> DEFINE p == [pad EXCEPT !.on = TRUE]
  <2>1. p \in PadType /\ (Confirms(p) => Confirms(pad))
    BY <1>3, PadEndsKept
  <2>2. startPolling(p) \/ (pad' = p /\ UNCHANGED owed /\ SaysNothing)
    BY <1>6 DEF handleConnect
  <2> HIDE DEF p
  <2>3. QED
    BY <1>1, <1>2, <1>4, <2>1, <2>2, StartKeepsPad
<1>7. CASE WindowBack
  <2>1. startPolling(pad) \/ (UNCHANGED <<pad, owed>> /\ SaysNothing)
    BY <1>7 DEF WindowBack
  <2>2. CASE startPolling(pad)
    BY <1>1, <1>2, <1>3, <2>2, StartKeepsPad
  <2>3. CASE UNCHANGED <<pad, owed>> /\ SaysNothing
    BY <1>3, <1>4, <2>3
  <2>4. QED
    BY <2>1, <2>2, <2>3
<1>8. QED
  BY <1>5, <1>6, <1>7

LEMMA PadRestKeeps ==
  ASSUME InputInv, PadPlugged \/ handleDisconnect \/ WindowLeft \/ \E button \in Pad : PadTouched(button)
  PROVE  InputInv' /\ OnlyBegun
<1> USE DEF InputInv
<1>1. KeysAreKept' /\ MouseKept' /\ OwedKept' /\ UNCHANGED <<keys, owed>>
  BY DEF PadPlugged, handleDisconnect, WindowLeft, PadTouched, KeysAreKept, MouseKept, OwedKept
<1>2. RestKept'
  <2>1. (Touches \/ UNCHANGED inputEvents) /\ UNCHANGED fullscreen
    BY DEF PadPlugged, handleDisconnect, WindowLeft, PadTouched
  <2>2. active' \in BOOLEAN
    BY DEF PadPlugged, handleDisconnect, WindowLeft, PadTouched, RestKept
  <2>3. QED
    BY <2>1, <2>2, TouchesKept DEF RestKept
<1>3. pad \in PadType
  BY DEF PadsKept
<1>4. pad' \in PadType /\ (Confirms(pad') => Confirms(pad))
  <2>1. pad' \in {pad, stopPolling(pad), [stopPolling(pad) EXCEPT !.on = FALSE]}
    BY DEF PadPlugged, handleDisconnect, WindowLeft, PadTouched
  <2>2. QED
    BY <1>3, <2>1, PadEndsKept
<1>5. gamepad' \in [there : BOOLEAN, pressed : SUBSET Pad]
  <2>1. gamepad \in [there : BOOLEAN, pressed : SUBSET Pad]
    BY DEF PadsKept
  <2>2. CASE PadPlugged
    BY <2>1, <2>2 DEF PadPlugged
  <2>3. CASE \E button \in Pad : PadTouched(button)
    <3>1. PICK s \in SUBSET Pad : gamepad' = [gamepad EXCEPT !.pressed = s]
      BY <2>1, <2>3 DEF PadTouched
    <3>2. QED
      BY <2>1, <3>1
  <2>4. CASE handleDisconnect \/ WindowLeft
    BY <2>1, <2>4 DEF handleDisconnect, WindowLeft
  <2>5. QED
    BY <2>2, <2>3, <2>4
<1>6. said' = {}
  BY DEF PadPlugged, handleDisconnect, WindowLeft, PadTouched, SaysNothing, Says
<1>7. QED
  BY <1>1, <1>2, <1>4, <1>5, <1>6 DEF PadsKept, Begun, OnlyBegun, Confirms

-----------------------------------------------------------------------------
(* The mouse, which begins and ends nothing *)

LEMMA MouseFields ==
  ASSUME NEW m \in MouseType
  PROVE  /\ \A target \in HoverTarget : [m EXCEPT !.pending = target, !.frame = TRUE] \in MouseType
         /\ [m EXCEPT !.pending = NoTarget, !.frame = FALSE] \in MouseType
         /\ \A t \in HoverTarget, a \in {"area1", "area2"} : [m EXCEPT !.item = t, !.area = a] \in MouseType
         /\ \A a \in {"area1", "area2"} : [m EXCEPT !.item = NoTarget, !.area = a] \in MouseType
         /\ [m EXCEPT !.item = NoTarget] \in MouseType
         /\ [m EXCEPT !.hiding = FALSE, !.moved = FALSE, !.visible = FALSE] \in MouseType
         /\ [m EXCEPT !.started = TRUE, !.hiding = TRUE] \in MouseType
BY DEF MouseType

LEMMA IdleMouseIs == IdleMouse \in MouseType
BY DEF IdleMouse, MouseType

LEMMA ChoosesKept ==
  ASSUME MouseKept, NEW target \in HoverTarget, Chooses(target)
  PROVE  chosen' \in ChosenType
<1>1. chosen.item \in HoverTarget \cup {NoTarget}
  BY DEF MouseKept, ChosenType
<1>2. InArea(target) \in {"area1", "area2"}
  BY DEF InArea
<1>3. QED
  BY <1>1, <1>2 DEF Chooses, ChosenType

MouseMoves ==
  \/ handleMouseMove \/ processHover \/ ContextMenu \/ CursorHides \/ MouseSupport
  \/ \E target \in HoverTarget : handleDelegatedMouseOver(target) \/ handleDelegatedClick(target)

LEMMA MouseMovesKept ==
  ASSUME InputInv, MouseMoves
  PROVE  MouseKept'
<1>1. mouse \in MouseType /\ chosen \in ChosenType
  BY DEF InputInv, MouseKept
<1>2. MouseKept
  BY DEF InputInv
<1>3. CASE handleMouseMove \/ ContextMenu \/ CursorHides \/ MouseSupport
  <2>1. chosen' = chosen /\ mouse' \in {Seen(mouse), IdleMouse, [mouse EXCEPT !.started = TRUE, !.hiding = TRUE],
                                        [mouse EXCEPT !.hiding = FALSE, !.moved = FALSE, !.visible = FALSE]}
    BY <1>3 DEF handleMouseMove, ContextMenu, CursorHides, MouseSupport
  <2>2. QED
    BY <1>1, <2>1, MouseIs, MouseFields, IdleMouseIs DEF MouseKept
<1>4. CASE processHover
  <2> DEFINE rest == [mouse EXCEPT !.pending = NoTarget, !.frame = FALSE]
             target == mouse.pending
  <2>1. rest \in MouseType
    BY <1>1, MouseFields
  <2> HIDE DEF rest
  <2>2. CASE mouse' = rest /\ chosen' = chosen
    BY <1>1, <2>1, <2>2 DEF MouseKept
  <2>3. CASE target \in {"item1", "item2"} /\ mouse' = [rest EXCEPT !.item = target, !.area = InArea(target)]
             /\ Chooses(target)
    <3>1. target \in HoverTarget /\ InArea(target) \in {"area1", "area2"}
      BY <2>3 DEF HoverTarget, InArea
    <3> HIDE DEF target
    <3>2. mouse' \in MouseType
      BY <2>1, <2>3, <3>1, MouseFields
    <3>3. chosen' \in ChosenType
      BY <1>2, <2>3, <3>1, ChoosesKept
    <3>4. QED
      BY <3>2, <3>3 DEF MouseKept
  <2>4. CASE target = "wrapper" /\ mouse' = [rest EXCEPT !.item = NoTarget, !.area = InArea(target)]
             /\ Chooses(target)
    <3>1. target \in HoverTarget /\ InArea(target) \in {"area1", "area2"}
      BY <2>4 DEF HoverTarget, InArea
    <3> HIDE DEF target
    <3>2. mouse' \in MouseType
      BY <2>1, <2>4, <3>1, MouseFields
    <3>3. chosen' \in ChosenType
      BY <1>2, <2>4, <3>1, ChoosesKept
    <3>4. QED
      BY <3>2, <3>3 DEF MouseKept
  <2>5. CASE mouse' = [rest EXCEPT !.item = NoTarget] /\ chosen' = chosen
    BY <1>1, <2>1, <2>5, MouseFields DEF MouseKept
  <2>6. QED
    BY <1>4, <2>2, <2>3, <2>4, <2>5 DEF processHover, rest
<1>5. CASE \E target \in HoverTarget : handleDelegatedMouseOver(target)
  <2>1. PICK target \in HoverTarget : mouse' = [mouse EXCEPT !.pending = target, !.frame = TRUE] /\ chosen' = chosen
    BY <1>5 DEF handleDelegatedMouseOver
  <2>2. QED
    BY <1>1, <2>1, MouseFields DEF MouseKept
<1>6. CASE \E target \in HoverTarget : handleDelegatedClick(target)
  <2>1. PICK target \in HoverTarget : mouse' = Seen(mouse) /\ (chosen' = chosen \/ Chooses(target))
    BY <1>6 DEF handleDelegatedClick
  <2>2. chosen' \in ChosenType
    BY <1>1, <1>2, <2>1, ChoosesKept
  <2>3. mouse' \in MouseType
    BY <1>1, <2>1, MouseIs
  <2>4. QED
    BY <2>2, <2>3 DEF MouseKept
<1>7. QED
  BY <1>3, <1>4, <1>5, <1>6 DEF MouseMoves

LEMMA MouseKeeps ==
  ASSUME InputInv, MouseMoves
  PROVE  InputInv' /\ OnlyBegun
<1> USE DEF InputInv
<1>1. UNCHANGED <<active, heldKeys, keys, fullscreen, gamepad, pad, owed>>
  BY DEF MouseMoves, handleMouseMove, processHover, ContextMenu, CursorHides, MouseSupport,
         handleDelegatedMouseOver, handleDelegatedClick
<1>2. Touches \/ UNCHANGED inputEvents
  BY DEF MouseMoves, handleMouseMove, processHover, ContextMenu, CursorHides, MouseSupport,
         handleDelegatedMouseOver, handleDelegatedClick
<1>3. said' \in {{}, {"back"}, {"onConfirm"}}
  BY DEF MouseMoves, handleMouseMove, processHover, ContextMenu, CursorHides, MouseSupport,
         handleDelegatedMouseOver, handleDelegatedClick, SaysNothing, Says
<1>4. RestKept'
  BY <1>1, <1>2, TouchesKept DEF RestKept
<1>5. OnlyBegun
  BY <1>3 DEF OnlyBegun
<1>6. MouseKept'
  BY MouseMovesKept
<1>7. PadsKept' /\ KeysAreKept' /\ OwedKept' /\ Begun'
  BY <1>1 DEF PadsKept, KeysAreKept, OwedKept, Begun
<1>8. QED
  BY <1>4, <1>5, <1>6, <1>7

LEMMA InputInitHolds == InputInit => InputInv
<1> SUFFICES ASSUME InputInit PROVE InputInv
  OBVIOUS
<1>1. IdleKeys \in KeysType /\ IdlePad \in PadType /\ ~IdleKeys.confirm /\ IdlePad.previous = {}
  BY DEF IdleKeys, IdlePad, KeysType, PadType
<1>2. [IdleMouse EXCEPT !.started = TRUE, !.hiding = TRUE] \in MouseType
  BY IdleMouseIs, MouseFields
<1>3. PadsKept /\ KeysAreKept /\ OwedKept /\ Begun
  BY <1>1 DEF InputInit, PadsKept, KeysAreKept, OwedKept, Begun
<1>4. MouseKept
  BY <1>2 DEF InputInit, MouseKept, ChosenType
<1>5. RestKept
  BY InputAssumption DEF InputInit, RestKept
<1>6. QED
  BY <1>3, <1>4, <1>5 DEF InputInv

LEMMA InputNextHolds == InputInv /\ [InputNext]_inputVars => InputInv' /\ [OnlyBegun]_inputVars
<1> SUFFICES ASSUME InputInv, [InputNext]_inputVars
             PROVE  InputInv' /\ [OnlyBegun]_inputVars
  OBVIOUS
<1>1. CASE UNCHANGED inputVars
  BY <1>1 DEF inputVars, InputInv, PadsKept, KeysAreKept, OwedKept, MouseKept, RestKept, Begun
<1>2. CASE InputNext
  BY <1>2, KeyDownKeeps, KeyUpKeeps, KeyboardKeeps, PadKeeps, PadRestKeeps, MouseKeeps DEF InputNext, MouseMoves
<1>3. QED
  BY <1>1, <1>2

LEMMA InputIsTyped == InputInv => InputTypeOK
BY DEF InputInv, PadsKept, KeysAreKept, OwedKept, MouseKept, RestKept, KeysType, PadType, MouseType, ChosenType, InputTypeOK

LEMMA InputMove == mcInit => InputInit
BY DEF mcInit

LEMMA InputStep == [mcNext]_allVars => [InputNext]_inputVars
<1>1. UNCHANGED allVars => UNCHANGED inputVars
  BY DEF allVars
<1>2. mcNext => InputNext \/ UNCHANGED inputVars
  BY DEF mcNext, Sameness
<1>3. QED
  BY <1>1, <1>2

(* A device ends a confirmation only if it began one, whatever keys are    *)
(* held together, frames are read in which window, and however often it    *)
(* loses the focus (keyboard.ts keyup, gamepad.ts handleButtons).          *)
THEOREM UpAfterDown == mcSpec => UpNeedsDown
<1>1. mcInit => InputInv
  BY InputMove, InputInitHolds
<1>2. InputInv /\ [mcNext]_allVars => InputInv' /\ [OnlyBegun]_inputVars
  BY InputStep, InputNextHolds
<1>3. [OnlyBegun]_inputVars <=> [/\ "aUp" \in said' => owed.pad
                                 /\ "confirmUp by key" \in said' => owed.keyboard]_inputVars
  BY DEF OnlyBegun
<1>4. QED
  BY <1>1, <1>2, <1>3, PTL DEF mcSpec, UpNeedsDown
-----------------------------------------------------------------------------
(***************************************************************************)
(* The menu.  A path is named anew at once with every move, and what pages *)
(* push and take lies behind the names of the path.                        *)
(***************************************************************************)

CrumbType == [label : Ids \cup {"page", "custom"}, source : {"menu", "component"}]
NavigationInv == NavigationTypeOK /\ CrumbsFollow

LEMMA FrontIs ==
  ASSUME NEW S, NEW s \in Seq(S), s # <<>>
  PROVE  /\ Len(s) \in Nat /\ Len(s) > 0 /\ Last(s) \in S
         /\ Front(s) \in Seq(S) /\ Len(Front(s)) = Len(s) - 1
         /\ \A i \in 1 .. Len(s) - 1 : Front(s)[i] = s[i]
<1>1. Len(s) \in Nat /\ Len(s) > 0
  BY EmptySeq, LenProperties
<1>2. \A i \in 1 .. Len(s) : s[i] \in S
  BY ElementOfSeq
<1>3. 1 \in Int /\ Len(s) - 1 \in Int /\ \A i \in 1 .. Len(s) - 1 : s[i] \in S
  BY <1>1, <1>2
<1> DEFINE n == Len(s) - 1
           t == SubSeq(s, 1, n)
<1>4. n \in Nat /\ 1 \in Int /\ \A i \in 1 .. n : s[i] \in S
  BY <1>1, <1>2
<1> HIDE DEF n
<1>5. t \in Seq(S) /\ Len(t) = (IF 1 <= n THEN n - 1 + 1 ELSE 0) /\ \A i \in 1 .. n - 1 + 1 : t[i] = s[1 + i - 1]
  BY <1>4, SubSeqProperties
<1> HIDE DEF t
<1>6. Len(t) = n /\ \A i \in 1 .. n : t[i] = s[i]
  BY <1>4, <1>5
<1>7. Last(s) \in S
  BY <1>1, <1>2 DEF Last
<1>8. Front(s) = t /\ n = Len(s) - 1
  BY DEF Front, t, n
<1>9. QED
  BY <1>1, <1>5, <1>6, <1>7, <1>8

LEMMA RemoveAtIs ==
  ASSUME NEW S, NEW s \in Seq(S), NEW k \in 1 .. Len(s)
  PROVE  RemoveAt(s, k) \in Seq(S)
<1>1. Len(s) \in Nat /\ \A i \in 1 .. Len(s) : s[i] \in S
  BY LenProperties, ElementOfSeq
<1>2. SubSeq(s, 1, k - 1) \in Seq(S)
  <2>1. 1 \in Int /\ k - 1 \in Int /\ \A i \in 1 .. k - 1 : s[i] \in S
    BY <1>1
  <2>2. QED
    BY <2>1, SubSeqProperties
<1>3. SubSeq(s, k + 1, Len(s)) \in Seq(S)
  <2>1. k + 1 \in Int /\ Len(s) \in Int /\ \A i \in k + 1 .. Len(s) : s[i] \in S
    BY <1>1
  <2>2. QED
    BY <2>1, SubSeqProperties
<1>4. QED
  BY <1>2, <1>3, ConcatProperties DEF RemoveAt

\* What was taken from a list of breadcrumbs, or put behind it, is of no level.
LEMMA CrumbsBehind ==
  ASSUME NavigationInv, path' = path, crumbs' \in Seq(CrumbType), Len(path) <= Len(crumbs'),
         \A i \in 1 .. Len(crumbs') : /\ i \in 1 .. Len(crumbs) => crumbs'[i] = crumbs[i]
                                      /\ i \in 1 .. Len(crumbs) \/ crumbs'[i].source = "component"
  PROVE  CrumbsFollow'
<1>1. Len(path) \in Nat /\ Len(crumbs) \in Nat /\ Len(crumbs') \in Nat /\ Len(path) <= Len(crumbs)
  BY DEF NavigationInv, NavigationTypeOK, CrumbType, CrumbsFollow
<1>2. ASSUME NEW i \in 1 .. Len(crumbs')
      PROVE  crumbs'[i].source = "menu" <=> i <= Len(path)
  <2>1. CASE i \in 1 .. Len(crumbs)
    BY <2>1 DEF NavigationInv, CrumbsFollow
  <2>2. CASE i \notin 1 .. Len(crumbs)
    BY <1>1, <2>2
  <2>3. QED
    BY <2>1, <2>2
<1>3. ASSUME NEW i \in 1 .. Len(path)
      PROVE  crumbs'[i].label \in {path[i], "custom"}
  <2>1. i \in 1 .. Len(crumbs) /\ i \in 1 .. Len(crumbs')
    BY <1>1
  <2>2. QED
    BY <2>1 DEF NavigationInv, CrumbsFollow
<1>4. QED
  BY <1>2, <1>3 DEF CrumbsFollow

LEMMA CrumbIs ==
  /\ \A id \in Ids : Crumb(id, "menu") \in CrumbType /\ Crumb(id, "menu").source = "menu" /\ Crumb(id, "menu").label = id
  /\ Crumb("page", "component") \in CrumbType /\ Crumb("page", "component").source = "component"
  /\ Crumb("custom", "menu") \in CrumbType /\ Crumb("custom", "menu").source = "menu"
     /\ Crumb("custom", "menu").label = "custom"
  BY DEF Crumb, CrumbType

LEMMA NamedIs ==
  ASSUME NEW at \in Seq(Ids)
  PROVE  /\ setMenuBreadcrumb(at) \in Seq(CrumbType) /\ Len(setMenuBreadcrumb(at)) = Len(at) /\ Len(at) \in Nat
         /\ \A i \in 1 .. Len(at) : setMenuBreadcrumb(at)[i] = Crumb(at[i], "menu")
<1>1. \A i \in 1 .. Len(at) : Crumb(at[i], "menu") \in CrumbType
  BY CrumbIs
<1>2. QED
  BY <1>1 DEF setMenuBreadcrumb

LEMMA GoesTo ==
  ASSUME NEW at \in Seq(Ids), path' = at, crumbs' = setMenuBreadcrumb(at)
  PROVE  path' \in Seq(Ids) /\ crumbs' \in Seq(CrumbType) /\ CrumbsFollow'
<1>1. \A i \in 1 .. Len(at) : at[i] \in Ids
  OBVIOUS
<1>2. QED
  BY <1>1, NamedIs, CrumbIs DEF CrumbsFollow

LEMMA UpIs ==
  ASSUME NEW at \in Seq(Ids)
  PROVE  Up(at) \in Seq(Ids)
<1>1. "exit" \in Ids /\ <<"exit">> \in Seq(Ids)
  BY DEF Ids
<1>2. CASE at # <<>>
  BY <1>2, FrontIs DEF Up
<1>3. QED
  BY <1>1, <1>2 DEF Up

LEMMA PopIs ==
  ASSUME NavigationInv
  PROVE  /\ popBreadcrumb(crumbs) \in Seq(CrumbType) /\ Len(path) <= Len(popBreadcrumb(crumbs))
         /\ \A i \in 1 .. Len(popBreadcrumb(crumbs)) : i \in 1 .. Len(crumbs) /\ popBreadcrumb(crumbs)[i] = crumbs[i]
<1>1. crumbs \in Seq(CrumbType) /\ Len(crumbs) \in Nat /\ Len(path) \in Nat /\ Len(path) <= Len(crumbs)
  BY DEF NavigationInv, NavigationTypeOK, CrumbType, CrumbsFollow
<1>2. CASE crumbs # <<>> /\ Last(crumbs).source = "component"
  <2>1. Len(crumbs) \in 1 .. Len(crumbs) /\ crumbs[Len(crumbs)].source = "component"
    BY <1>1, <1>2 DEF Last
  <2>2. Len(path) < Len(crumbs)
    BY <1>1, <2>1 DEF NavigationInv, CrumbsFollow
  <2>3. /\ Front(crumbs) \in Seq(CrumbType) /\ Len(Front(crumbs)) = Len(crumbs) - 1
        /\ \A i \in 1 .. Len(crumbs) - 1 : Front(crumbs)[i] = crumbs[i]
    BY <1>1, <1>2, FrontIs
  <2>4. QED
    BY <1>1, <1>2, <2>2, <2>3 DEF popBreadcrumb
<1>3. CASE ~(crumbs # <<>> /\ Last(crumbs).source = "component")
  BY <1>1, <1>3 DEF popBreadcrumb
<1>4. QED
  BY <1>2, <1>3

\* The stack of handlers.
LEMMA StackIs ==
  ASSUME backStack \in Seq(0 .. Depth), NEW level \in 0 .. Depth
  PROVE  /\ Orphaned(level) \in Seq(0 .. Depth)
         /\ RemoveFirst(Orphaned(level), level) \in Seq(0 .. Depth)
         /\ Append(backStack, level) \in Seq(0 .. Depth)
         /\ backStack # <<>> => Front(backStack) \in Seq(0 .. Depth) /\ Last(backStack) \in 0 .. Depth
<1>1. Len(backStack) \in Nat /\ \A i \in 1 .. Len(backStack) : backStack[i] \in 0 .. Depth
  BY LenProperties, ElementOfSeq
<1>2. 0 \in 0 .. Depth /\ Left = 0
  BY NavigationAssumption DEF Left
<1>3. Orphaned(level) \in Seq(0 .. Depth)
  <2>1. \A i \in 1 .. Len(backStack) : (IF backStack[i] > level THEN Left ELSE backStack[i]) \in 0 .. Depth
    BY <1>1, <1>2
  <2>2. QED
    BY <1>1, <2>1 DEF Orphaned
<1> DEFINE s == Orphaned(level)
<1> HIDE DEF s
<1>4. s \in Seq(0 .. Depth) /\ Len(s) \in Nat
  BY <1>3 DEF s
<1>5. RemoveFirst(s, level) \in Seq(0 .. Depth)
  <2>1. ASSUME NEW i \in 1 .. Len(s)
        PROVE  RemoveAt(s, i) \in Seq(0 .. Depth)
    BY <1>4, RemoveAtIs
  <2>2. CASE \E i \in 1 .. Len(s) : s[i] = level
    <3> DEFINE I == {i \in 1 .. Len(s) : s[i] = level}
    <3>1. PICK k \in I : \A j \in I : k <= j
      <4>1. I \in SUBSET Nat /\ I # {}
        BY <1>4, <2>2
      <4>2. QED
        BY <4>1, LeastOf
    <3>2. Min(I) \in I
      BY <3>1, Zenon DEF Min
    <3>3. SelectInSeq(s, LAMBDA v : v = level) = Min(I)
      BY <3>2, Zenon DEF SelectInSeq
    <3>4. QED
      BY <2>1, <2>2, <3>2, <3>3 DEF RemoveFirst
  <2>3. CASE ~\E i \in 1 .. Len(s) : s[i] = level
    BY <1>4, <2>3 DEF RemoveFirst
  <2>4. QED
    BY <2>2, <2>3
<1>6. backStack # <<>> => Front(backStack) \in Seq(0 .. Depth) /\ Last(backStack) \in 0 .. Depth
  BY FrontIs
<1>7. QED
  BY <1>3, <1>5, <1>6 DEF s

LEMMA NavigationIs ==
  ASSUME NavigationInv
  PROVE  /\ path \in Seq(Ids) /\ crumbs \in Seq(CrumbType) /\ CrumbsFollow
         /\ backStack \in Seq(0 .. Depth) /\ opened \in 0 .. Depth
         /\ confirm \in BOOLEAN /\ importing \in BOOLEAN /\ moves \in 0 .. MaxMoves
  BY DEF NavigationInv, NavigationTypeOK, CrumbType

LEMMA NavigationMade ==
  ASSUME path' \in Seq(Ids), crumbs' \in Seq(CrumbType), CrumbsFollow',
         backStack' \in Seq(0 .. Depth), opened' \in 0 .. Depth,
         confirm' \in BOOLEAN, importing' \in BOOLEAN, moves' \in 0 .. MaxMoves
  PROVE  NavigationInv'
  BY DEF NavigationInv, NavigationTypeOK, CrumbType

LEMMA MovesCount ==
  ASSUME moves \in 0 .. MaxMoves, Moved
  PROVE  moves' \in 0 .. MaxMoves
  BY NavigationAssumption DEF Moved

\* The path, its names, the pages and the handlers: what a move of any kind leaves of them.
Led == /\ path' \in Seq(Ids) /\ crumbs' \in Seq(CrumbType) /\ CrumbsFollow'
       /\ backStack' \in Seq(0 .. Depth) /\ opened' \in 0 .. Depth

LEMMA LeavesLed ==
  ASSUME NavigationInv, NEW at \in Seq(Ids), Goes(at), LeavesPage(at)
  PROVE  Led
<1>1. path' \in Seq(Ids) /\ crumbs' \in Seq(CrumbType) /\ CrumbsFollow'
  BY GoesTo DEF Goes
<1>2. 0 \in 0 .. Depth
  BY NavigationAssumption
<1>3. opened' \in 0 .. Depth /\ backStack' \in Seq(0 .. Depth)
  BY <1>2, NavigationIs, StackIs DEF LeavesPage
<1>4. QED
  BY <1>1, <1>3 DEF Led

LEMMA PopLed ==
  ASSUME NavigationInv, path' = path, crumbs' = popBreadcrumb(crumbs),
         backStack' \in Seq(0 .. Depth), opened' \in 0 .. Depth
  PROVE  Led
<1>1. crumbs' \in Seq(CrumbType) /\ CrumbsFollow'
  BY PopIs, CrumbsBehind
<1>2. QED
  BY <1>1, NavigationIs DEF Led

LEMMA ClosesLed ==
  ASSUME NavigationInv, NEW level \in 1 .. Depth, ClosesPage(level)
  PROVE  Led /\ UNCHANGED <<confirm, importing>>
<1>1. level \in 0 .. Depth /\ level - 1 \in 0 .. Depth
  BY NavigationAssumption
<1>2. backStack' \in Seq(0 .. Depth) /\ opened' \in 0 .. Depth
  BY <1>1, NavigationIs, StackIs DEF ClosesPage
<1>3. QED
  BY <1>2, PopLed DEF ClosesPage

LEMMA BackLed ==
  ASSUME NavigationInv, GoesBack
  PROVE  Led /\ UNCHANGED <<confirm, importing>>
<1>1. CASE navigateBack
  <2>1. Up(path) \in Seq(Ids)
    BY NavigationIs, UpIs
  <2>2. QED
    BY <1>1, <2>1, LeavesLed DEF navigateBack
<1>2. CASE backStack # <<>> /\ ClosesLeft
  <2>1. backStack' \in Seq(0 .. Depth) /\ opened' \in 0 .. Depth
    BY <1>2, NavigationIs, FrontIs DEF ClosesLeft
  <2>2. QED
    BY <1>2, <2>1, PopLed DEF ClosesLeft
<1>3. CASE backStack # <<>> /\ Last(backStack) # Left /\ ClosesPage(Last(backStack))
  <2>1. Last(backStack) \in 0 .. Depth
    BY <1>3, NavigationIs, FrontIs
  <2>2. Last(backStack) \in 1 .. Depth
    BY <1>3, <2>1, NavigationAssumption DEF Left
  <2>3. QED
    BY <1>3, <2>2, ClosesLed
<1>4. QED
  BY <1>1, <1>2, <1>3 DEF GoesBack

\* A way into the menu, with a name of its own for the item or not.
LEMMA IntoLed ==
  ASSUME NavigationInv, NEW id \in Ids, NEW custom \in BOOLEAN, path' = Append(path, id),
         crumbs' = IF custom THEN [setMenuBreadcrumb(path') EXCEPT ![Len(path')] = Crumb("custom", "menu")]
                   ELSE setMenuBreadcrumb(path'),
         UNCHANGED <<backStack, opened>>
  PROVE  Led
<1> DEFINE at == Append(path, id)
           named == setMenuBreadcrumb(at)
<1>1. at \in Seq(Ids) /\ Len(at) \in Nat /\ Len(at) \in 1 .. Len(at)
  BY NavigationIs
<1> HIDE DEF at
<1>2. /\ named \in Seq(CrumbType) /\ Len(named) = Len(at)
      /\ \A i \in 1 .. Len(at) : named[i] = Crumb(at[i], "menu")
  BY <1>1, NamedIs
<1>3. path' = at
  BY DEF at
<1>4. CASE custom
  <2> HIDE DEF named
  <2>1. crumbs' = [named EXCEPT ![Len(at)] = Crumb("custom", "menu")]
    BY <1>3, <1>4 DEF named
  <2>2. /\ crumbs' \in Seq(CrumbType) /\ Len(crumbs') = Len(at)
        /\ \A i \in 1 .. Len(at) : crumbs'[i] = IF i = Len(at) THEN Crumb("custom", "menu") ELSE named[i]
    <3> DEFINE c == Crumb("custom", "menu")
    <3>1. c \in CrumbType /\ Len(at) \in 1 .. Len(named)
      BY <1>1, <1>2, CrumbIs
    <3> HIDE DEF c
    <3>2. /\ [named EXCEPT ![Len(at)] = c] \in Seq(CrumbType)
          /\ Len([named EXCEPT ![Len(at)] = c]) = Len(named)
          /\ \A j \in 1 .. Len(named) : [named EXCEPT ![Len(at)] = c][j] = IF j = Len(at) THEN c ELSE named[j]
      BY <1>2, <3>1, ExceptSeq
    <3>3. QED
      BY <1>2, <2>1, <3>2, Zenon DEF c
  <2>3. ASSUME NEW i \in 1 .. Len(at)
        PROVE  crumbs'[i].source = "menu" /\ crumbs'[i].label \in {at[i], "custom"}
    <3>1. at[i] \in Ids
      BY <1>1, ElementOfSeq
    <3>2. QED
      BY <1>2, <2>2, <3>1, CrumbIs
  <2>4. QED
    BY <1>1, <1>3, <2>2, <2>3, NavigationIs DEF Led, CrumbsFollow
<1>5. CASE ~custom
  BY <1>1, <1>3, <1>5, GoesTo, NavigationIs DEF Led
<1>6. QED
  BY <1>4, <1>5

LEMMA MenuLed ==
  ASSUME NavigationInv, NEW id \in Ids, NEW custom \in BOOLEAN, navigateMenu(id, custom)
  PROVE  Led /\ confirm' \in BOOLEAN /\ UNCHANGED importing
<1>1. CASE id \in {"back", "select"}
  <2>1. GoesBack
    BY <1>1 DEF navigateMenu
  <2>2. QED
    BY <2>1, BackLed, NavigationIs
<1>2. CASE id = "quit"
  <2>1. confirm' = TRUE /\ UNCHANGED <<path, crumbs, backStack, opened, importing>>
    BY <1>2 DEF navigateMenu
  <2>2. QED
    BY <2>1, NavigationIs DEF Led, CrumbsFollow
<1>3. CASE id \notin {"back", "select", "quit"}
  <2>1. /\ path' = Append(path, id) /\ UNCHANGED <<backStack, opened, confirm, importing>>
        /\ crumbs' = IF custom THEN [setMenuBreadcrumb(path') EXCEPT ![Len(path')] = Crumb("custom", "menu")]
                     ELSE setMenuBreadcrumb(path')
    BY <1>3 DEF navigateMenu
  <2>2. QED
    BY <2>1, IntoLed, NavigationIs
<1>4. QED
  BY <1>1, <1>2, <1>3

LEMMA EnterLed ==
  ASSUME NavigationInv, enter
  PROVE  Led /\ UNCHANGED <<confirm, importing>>
<1> DEFINE c == Crumb("page", "component")
<1>1. c \in CrumbType /\ c.source = "component"
  BY CrumbIs
<1> HIDE DEF c
<1>2. crumbs' = Append(crumbs, c) /\ opened' = opened + 1 /\ backStack' = Append(backStack, opened + 1)
      /\ UNCHANGED <<path, confirm, importing>> /\ opened < Depth
  BY DEF enter, pushBreadcrumb, c
<1>3. opened + 1 \in 0 .. Depth
  BY <1>2, NavigationAssumption, NavigationIs
<1>4. backStack' \in Seq(0 .. Depth)
  BY <1>2, <1>3, NavigationIs, StackIs
<1>5. /\ crumbs' \in Seq(CrumbType) /\ Len(crumbs') = Len(crumbs) + 1 /\ Len(crumbs) \in Nat
      /\ \A i \in 1 .. Len(crumbs) : crumbs'[i] = crumbs[i]
      /\ crumbs'[Len(crumbs) + 1] = c
  BY <1>1, <1>2, NavigationIs
<1>6. Len(path) <= Len(crumbs') /\ Len(path) \in Nat
  BY <1>5, NavigationIs DEF CrumbsFollow
<1>7. ASSUME NEW i \in 1 .. Len(crumbs')
      PROVE  /\ i \in 1 .. Len(crumbs) => crumbs'[i] = crumbs[i]
             /\ i \in 1 .. Len(crumbs) \/ crumbs'[i].source = "component"
  <2>1. i \in 1 .. Len(crumbs) \/ i = Len(crumbs) + 1
    BY <1>5
  <2>2. QED
    BY <1>1, <1>5, <2>1
<1>8. CrumbsFollow'
  BY <1>2, <1>5, <1>6, <1>7, CrumbsBehind
<1>9. QED
  BY <1>2, <1>3, <1>4, <1>5, <1>8, NavigationIs DEF Led

LEMMA NavigationInitHolds == NavigationInit => NavigationInv
<1> SUFFICES ASSUME NavigationInit
             PROVE  NavigationInv
  OBVIOUS
<1>1. /\ path = <<>> /\ crumbs = <<>> /\ backStack = <<>> /\ opened = 0 /\ confirm = FALSE
      /\ importing = FALSE /\ moves = 0
  BY DEF NavigationInit
<1>2. path \in Seq(Ids) /\ crumbs \in Seq(CrumbType) /\ backStack \in Seq(0 .. Depth)
  BY <1>1
<1>3. opened \in 0 .. Depth /\ moves \in 0 .. MaxMoves
  BY <1>1, NavigationAssumption
<1>4. CrumbsFollow
  BY <1>1 DEF CrumbsFollow
<1>5. QED
  BY <1>1, <1>2, <1>3, <1>4 DEF NavigationInv, NavigationTypeOK, CrumbType

LEMMA NavigationNextHolds == NavigationInv /\ [NavigationNext]_navigationVars => NavigationInv'
<1> SUFFICES ASSUME NavigationInv, [NavigationNext]_navigationVars
             PROVE  NavigationInv'
  OBVIOUS
<1>1. CASE onBack
  <2>1. Led /\ UNCHANGED <<confirm, importing>> /\ Moved
    BY <1>1, BackLed DEF onBack
  <2>2. QED
    BY <2>1, NavigationIs, NavigationMade, MovesCount DEF Led
<1>2. CASE hideConfirmDialog
  <2>1. confirm' = FALSE /\ UNCHANGED <<path, crumbs, backStack, opened, importing, moves>>
    BY <1>2 DEF hideConfirmDialog
  <2>2. CrumbsFollow'
    BY <2>1, NavigationIs DEF CrumbsFollow
  <2>3. QED
    BY <2>1, <2>2, NavigationIs, NavigationMade
<1>3. CASE MenuRebuilt
  <2>1. crumbs' = setMenuBreadcrumb(path) /\ UNCHANGED <<path, backStack, opened, confirm, importing>> /\ Moved
    BY <1>3 DEF MenuRebuilt
  <2>2. crumbs' \in Seq(CrumbType) /\ CrumbsFollow'
    BY <2>1, NavigationIs, GoesTo
  <2>3. QED
    BY <2>1, <2>2, NavigationIs, NavigationMade, MovesCount
<1>4. CASE Import
  <2>1. importing' = TRUE /\ UNCHANGED <<path, crumbs, backStack, opened, confirm>> /\ Moved
    BY <1>4 DEF Import
  <2>2. CrumbsFollow'
    BY <2>1, NavigationIs DEF CrumbsFollow
  <2>3. QED
    BY <2>1, <2>2, NavigationIs, NavigationMade, MovesCount
<1>5. CASE Imported
  <2>1. importing' = FALSE /\ UNCHANGED <<confirm, moves>>
    BY <1>5 DEF Imported
  <2>2. CASE UNCHANGED <<path, crumbs, opened, backStack>>
    <3>1. CrumbsFollow'
      BY <2>2, NavigationIs DEF CrumbsFollow
    <3>2. QED
      BY <2>1, <2>2, <3>1, NavigationIs, NavigationMade
  <2>3. CASE Goes(Up(Up(path))) /\ LeavesPage(Up(Up(path)))
    <3>1. Up(Up(path)) \in Seq(Ids)
      BY NavigationIs, UpIs
    <3>2. Led
      BY <2>3, <3>1, LeavesLed
    <3>3. QED
      BY <2>1, <3>2, NavigationIs, NavigationMade DEF Led
  <2>4. QED
    BY <1>5, <2>2, <2>3 DEF Imported
<1>6. ASSUME NEW id \in Ids, NEW custom \in BOOLEAN, navigateMenu(id, custom)
      PROVE  NavigationInv'
  <2>1. Moved
    BY <1>6 DEF navigateMenu
  <2>2. Led /\ confirm' \in BOOLEAN /\ UNCHANGED importing
    BY <1>6, MenuLed
  <2>3. QED
    BY <2>1, <2>2, NavigationIs, NavigationMade, MovesCount DEF Led
<1>7. ASSUME NEW at \in {<<"downloads">>, <<"downloads", "import">>}, navigateToAbsolute(at)
      PROVE  NavigationInv'
  <2>1. at \in Seq(Ids)
    <3>1. "downloads" \in Ids /\ "import" \in Ids
      BY DEF Ids
    <3>2. <<"downloads">> \in Seq(Ids) /\ <<"downloads", "import">> \in Seq(Ids)
      BY <3>1
    <3>3. QED
      BY <1>7, <3>2
  <2>2. Moved /\ Goes(at) /\ LeavesPage(at) /\ UNCHANGED <<confirm, importing>>
    BY <1>7 DEF navigateToAbsolute
  <2>3. Led
    BY <2>1, <2>2, LeavesLed
  <2>4. QED
    BY <2>2, <2>3, NavigationIs, NavigationMade, MovesCount DEF Led
<1>8. CASE enter
  <2>1. Moved
    BY <1>8 DEF enter
  <2>2. Led /\ UNCHANGED <<confirm, importing>>
    BY <1>8, EnterLed
  <2>3. QED
    BY <2>1, <2>2, NavigationIs, NavigationMade, MovesCount DEF Led
<1>9. ASSUME NEW level \in 1 .. Depth, exit(level)
      PROVE  NavigationInv'
  <2>1. Moved /\ ClosesPage(level)
    BY <1>9 DEF exit
  <2>2. Led /\ UNCHANGED <<confirm, importing>>
    BY <2>1, ClosesLed
  <2>3. QED
    BY <2>1, <2>2, NavigationIs, NavigationMade, MovesCount DEF Led
<1>10. CASE UNCHANGED navigationVars
  <2>1. UNCHANGED <<path, crumbs, backStack, opened, confirm, importing, moves>>
    BY <1>10 DEF navigationVars
  <2>2. CrumbsFollow'
    BY <2>1, NavigationIs DEF CrumbsFollow
  <2>3. QED
    BY <2>1, <2>2, NavigationIs, NavigationMade
<1>11. QED
  BY <1>1, <1>2, <1>3, <1>4, <1>5, <1>6, <1>7, <1>8, <1>9, <1>10 DEF NavigationNext

-----------------------------------------------------------------------------
(***************************************************************************)
(* The grid of an area.  The arrows lead from an item to the nearest of    *)
(* those they point at; who never finds an item by them would leave one    *)
(* that is nearer, and so on without end.                                  *)
(***************************************************************************)

LEMMA PosIs ==
  /\ NoPos \notin Pos
  /\ \A p \in Pos : p[1] \in 0 .. Columns - 1 /\ p[2] \in 0 .. Rows - 1 /\ p[1] \in Nat /\ p[2] \in Nat
  /\ \A p, q \in Pos : p[1] = q[1] /\ p[2] = q[2] => p = q
<1>1. NoPos \notin Pos
  BY DEF NoPos, Pos
<1>2. 0 .. Columns - 1 \subseteq Nat /\ 0 .. Rows - 1 \subseteq Nat
  BY NavAssumption
<1>3. QED
  BY <1>1, <1>2 DEF Pos

LEMMA DistanceIs ==
  ASSUME NEW a \in Nat, NEW b \in Nat
  PROVE  Distance(a, b) \in Nat /\ (a <= b => Distance(a, b) = b - a) /\ (b <= a => Distance(a, b) = a - b)
  BY DEF Distance

\* Of the items ahead one is the nearest: by rows, by columns, and by who came first.
LEMMA NearestIs ==
  ASSUME NEW is \in Seq(Pos), NEW pos \in Pos, NEW ahead \in SUBSET (DOMAIN is), ahead # {}
  PROVE  (CHOOSE i \in ahead : \A j \in ahead : Nearer(is, pos, i, j)) \in
             {i \in ahead : \A j \in ahead : Nearer(is, pos, i, j)}
<1> DEFINE dx(k) == Distance(is[k][1], pos[1])
           dy(k) == Distance(is[k][2], pos[2])
<1>1. ahead \in SUBSET Nat
  BY LenProperties
<1>2. \A k \in ahead : dx(k) \in Nat /\ dy(k) \in Nat
  <2>1. \A k \in DOMAIN is : is[k] \in Pos
    BY LenProperties, ElementOfSeq
  <2>2. QED
    BY <2>1, PosIs, DistanceIs
<1>3. ASSUME NEW i \in ahead, NEW j \in ahead,
             \/ dy(i) < dy(j)
             \/ dy(i) = dy(j) /\ dx(i) < dx(j)
             \/ dy(i) = dy(j) /\ dx(i) = dx(j) /\ i <= j
      PROVE  Nearer(is, pos, i, j)
  BY <1>3 DEF Nearer
<1> HIDE DEF dx, dy
<1>4. PICK y \in ahead : \A j \in ahead : dy(y) <= dy(j)
  <2> DEFINE S == {dy(k) : k \in ahead}
  <2>1. S \in SUBSET Nat /\ S # {}
    BY <1>2
  <2>2. PICK n \in S : \A m \in S : n <= m
    BY <2>1, LeastOf
  <2>3. QED
    BY <2>2
<1> DEFINE row1 == {k \in ahead : dy(k) = dy(y)}
<1>5. PICK x \in row1 : \A j \in row1 : dx(x) <= dx(j)
  <2> DEFINE S == {dx(k) : k \in row1}
  <2>1. S \in SUBSET Nat /\ S # {}
    BY <1>2, <1>4
  <2>2. PICK n \in S : \A m \in S : n <= m
    BY <2>1, LeastOf
  <2>3. QED
    BY <2>2
<1> DEFINE near == {k \in row1 : dx(k) = dx(x)}
<1>6. PICK i \in near : \A j \in near : i <= j
  <2>1. near \in SUBSET Nat /\ near # {}
    BY <1>1, <1>5
  <2>2. QED
    BY <2>1, LeastOf
<1>7. ASSUME NEW j \in ahead
      PROVE  Nearer(is, pos, i, j)
  <2>1. i \in ahead /\ dy(i) = dy(y) /\ dx(i) = dx(x) /\ dy(i) <= dy(j)
    BY <1>4, <1>6
  <2>2. CASE dy(i) < dy(j)
    BY <1>3, <2>1, <2>2
  <2>3. CASE dy(i) = dy(j) /\ dx(i) < dx(j)
    BY <1>3, <2>1, <2>3
  <2>4. CASE dy(i) = dy(j) /\ ~(dx(i) < dx(j))
    <3>1. j \in row1 /\ dx(j) = dx(x)
      BY <1>2, <1>5, <2>1, <2>4
    <3>2. i <= j
      BY <1>6, <3>1
    <3>3. QED
      BY <1>3, <2>1, <2>4, <3>1, <3>2
  <2>5. QED
    BY <1>2, <2>1, <2>2, <2>3, <2>4
<1>8. i \in ahead
  BY <1>6
<1>9. QED
  BY <1>7, <1>8, Zenon

\* Where an arrow leads: to one of the items it points at that none is nearer than.
LEMMA NextIs ==
  ASSUME NEW is \in Seq(Pos), NEW pos \in Pos, NEW d \in Direction, Ahead(is, pos, d) # {}
  PROVE  \E i \in Ahead(is, pos, d) :
           /\ findItemInDirection(is, pos, d) = is[i]
           /\ \A j \in Ahead(is, pos, d) : Nearer(is, pos, i, j)
<1>1. Ahead(is, pos, d) \in SUBSET (DOMAIN is)
  BY DEF Ahead
<1> DEFINE ahead == Ahead(is, pos, d)
<1> HIDE DEF ahead
<1>2. (CHOOSE i \in ahead : \A j \in ahead : Nearer(is, pos, i, j)) \in
             {i \in ahead : \A j \in ahead : Nearer(is, pos, i, j)}
  BY <1>1, NearestIs DEF ahead
<1>3. findItemInDirection(is, pos, d) = is[CHOOSE i \in ahead : \A j \in ahead : Nearer(is, pos, i, j)]
  BY Zenon DEF findItemInDirection, ahead
<1>4. QED
  BY <1>2, <1>3, Zenon DEF ahead

LEMMA NextThere ==
  ASSUME NEW is \in Seq(Pos), NEW pos \in Pos, NEW d \in Direction
  PROVE  findItemInDirection(is, pos, d) \in Positions(is) \cup {NoPos}
<1>1. CASE Ahead(is, pos, d) = {}
  BY <1>1 DEF findItemInDirection
<1>2. CASE Ahead(is, pos, d) # {}
  <2>1. PICK i \in Ahead(is, pos, d) : findItemInDirection(is, pos, d) = is[i]
    BY <1>2, NextIs
  <2>2. i \in DOMAIN is
    BY DEF Ahead
  <2>3. QED
    BY <2>1, <2>2 DEF Positions
<1>3. QED
  BY <1>1, <1>2

\* A set of items no arrow leads out of.
NoneLeaves(is, set) == \A q \in set, d \in Direction : findItemInDirection(is, q, d) \in set \cup {NoPos}

\* One that is ahead is never passed by.
LEMMA NotPassed ==
  ASSUME NEW is \in Seq(Pos), NEW set \in SUBSET Positions(is), NoneLeaves(is, set),
         NEW p \in set, NEW q \in Positions(is), NEW d \in Direction,
         \E j \in Ahead(is, p, d) : is[j] = q
  PROVE  \E r \in set : /\ \E i \in Ahead(is, p, d) : is[i] = r
                        /\ \/ Distance(r[2], p[2]) < Distance(q[2], p[2])
                           \/ /\ Distance(r[2], p[2]) = Distance(q[2], p[2])
                              /\ Distance(r[1], p[1]) <= Distance(q[1], p[1])
<1>1. \A k \in DOMAIN is : is[k] \in Pos
  BY LenProperties, ElementOfSeq
<1>2. p \in Pos /\ q \in Pos
  BY <1>1 DEF Positions
<1>3. PICK j \in Ahead(is, p, d) : is[j] = q
  OBVIOUS
<1>4. PICK i \in Ahead(is, p, d) : findItemInDirection(is, p, d) = is[i] /\ Nearer(is, p, i, j)
  BY <1>2, <1>3, NextIs
<1>5. is[i] \in set /\ is[i] \in Pos
  <2>1. is[i] \in Pos
    BY <1>1 DEF Ahead
  <2>2. is[i] \in set \cup {NoPos}
    BY <1>4 DEF NoneLeaves
  <2>3. QED
    BY <2>1, <2>2, PosIs
<1>6. \/ Distance(is[i][2], p[2]) < Distance(q[2], p[2])
      \/ /\ Distance(is[i][2], p[2]) = Distance(q[2], p[2])
         /\ Distance(is[i][1], p[1]) <= Distance(q[1], p[1])
  <2>1. \A a \in Pos : /\ Distance(a[1], p[1]) \in Nat
                       /\ Distance(a[2], p[2]) \in Nat
    BY <1>2, PosIs, DistanceIs
  <2>2. Nearer(is, p, i, j)
    BY <1>4
  <2>3. \/ Distance(is[i][2], p[2]) < Distance(is[j][2], p[2])
        \/ /\ Distance(is[i][2], p[2]) = Distance(is[j][2], p[2])
           /\ Distance(is[i][1], p[1]) < Distance(is[j][1], p[1])
        \/ /\ Distance(is[i][2], p[2]) = Distance(is[j][2], p[2])
           /\ Distance(is[i][1], p[1]) = Distance(is[j][1], p[1])
    BY <2>2 DEF Nearer
  <2>4. Distance(is[i][1], p[1]) \in Nat /\ Distance(q[1], p[1]) \in Nat
    BY <1>2, <1>5, <2>1
  <2>5. QED
    BY <1>3, <2>3, <2>4
<1>7. QED
  BY <1>5, <1>6

\* It has the whole of every row it has something of,
LEMMA WholeRows ==
  ASSUME NEW is \in Seq(Pos), NEW set \in SUBSET Positions(is), NoneLeaves(is, set)
  PROVE  \A p \in set, q \in Positions(is) : p[2] = q[2] => q \in set
<1>1. \A p \in Positions(is) : p \in Pos /\ p[1] \in Nat /\ p[2] \in Nat /\ \E j \in DOMAIN is : is[j] = p
  <2>1. \A k \in DOMAIN is : is[k] \in Pos
    BY LenProperties, ElementOfSeq
  <2>2. QED
    BY <2>1, PosIs DEF Positions
<1> DEFINE far == {n \in Nat : \E p \in set, q \in Positions(is) \ set : p[2] = q[2] /\ Distance(p[1], q[1]) = n}
<1>2. CASE far = {}
  <2>1. \A p \in set, q \in Positions(is) : Distance(p[1], q[1]) \in Nat
    BY <1>1, DistanceIs
  <2>2. QED
    BY <1>2, <2>1
<1>3. CASE far # {}
  <2>1. PICK n \in far : \A m \in far : n <= m
    BY <1>3, LeastOf
  <2>2. PICK p \in set : \E q \in Positions(is) \ set : p[2] = q[2] /\ Distance(p[1], q[1]) = n
    BY <2>1
  <2>3. PICK q \in Positions(is) \ set : p[2] = q[2] /\ Distance(p[1], q[1]) = n
    BY <2>2
  <2>4. p \in Pos /\ q \in Pos /\ p[1] \in Nat /\ q[1] \in Nat /\ p[2] \in Nat /\ p[1] # q[1]
    BY <1>1, <2>3, PosIs
  <2>5. ASSUME NEW r \in set, r[2] = q[2], r[1] \in Nat
        PROVE  n <= Distance(r[1], q[1])
    <3>1. Distance(r[1], q[1]) \in far
      BY <2>3, <2>4, <2>5, DistanceIs
    <3>2. QED
      BY <2>1, <3>1
  <2>6. PICK j \in DOMAIN is : is[j] = q
    BY <1>1
  <2>7. CASE p[1] < q[1]
    <3>1. "right" \in Direction /\ j \in Ahead(is, p, "right")
      BY <2>3, <2>6, <2>7 DEF Direction, Ahead
    <3>2. PICK r \in set : /\ \E i \in Ahead(is, p, "right") : is[i] = r
                           /\ \/ Distance(r[2], p[2]) < Distance(q[2], p[2])
                              \/ /\ Distance(r[2], p[2]) = Distance(q[2], p[2])
                                 /\ Distance(r[1], p[1]) <= Distance(q[1], p[1])
      BY <2>6, <3>1, NotPassed
    <3>3. r[2] = p[2] /\ r[1] > p[1] /\ r[1] \in Nat
      BY <1>1, <3>2 DEF Ahead
    <3>4. Distance(r[2], p[2]) = 0 /\ Distance(q[2], p[2]) = 0
      BY <2>3, <2>4, <3>3 DEF Distance
    <3>5. r[1] <= q[1]
      BY <2>4, <2>7, <3>2, <3>3, <3>4 DEF Distance
    <3>6. n = q[1] - p[1] /\ Distance(r[1], q[1]) = q[1] - r[1]
      BY <2>3, <2>4, <2>7, <3>3, <3>5 DEF Distance
    <3>7. n <= q[1] - r[1]
      BY <2>3, <2>5, <3>3, <3>6
    <3>8. QED
      BY <2>4, <3>3, <3>6, <3>7
  <2>8. CASE q[1] < p[1]
    <3>1. "left" \in Direction /\ j \in Ahead(is, p, "left")
      BY <2>3, <2>6, <2>8 DEF Direction, Ahead
    <3>2. PICK r \in set : /\ \E i \in Ahead(is, p, "left") : is[i] = r
                           /\ \/ Distance(r[2], p[2]) < Distance(q[2], p[2])
                              \/ /\ Distance(r[2], p[2]) = Distance(q[2], p[2])
                                 /\ Distance(r[1], p[1]) <= Distance(q[1], p[1])
      BY <2>6, <3>1, NotPassed
    <3>3. r[2] = p[2] /\ r[1] < p[1] /\ r[1] \in Nat
      BY <1>1, <3>2 DEF Ahead
    <3>4. Distance(r[2], p[2]) = 0 /\ Distance(q[2], p[2]) = 0
      BY <2>3, <2>4, <3>3 DEF Distance
    <3>5. q[1] <= r[1]
      BY <2>4, <2>8, <3>2, <3>3, <3>4 DEF Distance
    <3>6. n = p[1] - q[1] /\ Distance(r[1], q[1]) = r[1] - q[1]
      BY <2>3, <2>4, <2>8, <3>3, <3>5 DEF Distance
    <3>7. n <= r[1] - q[1]
      BY <2>3, <2>5, <3>3, <3>6
    <3>8. QED
      BY <2>4, <3>3, <3>6, <3>7
  <2>9. QED
    BY <2>4, <2>7, <2>8
<1>4. QED
  BY <1>2, <1>3

\* and something of every row.
LEMMA EveryRow ==
  ASSUME NEW is \in Seq(Pos), NEW set \in SUBSET Positions(is), NoneLeaves(is, set), set # {}
  PROVE  set = Positions(is)
<1>1. \A p \in Positions(is) : p \in Pos /\ p[1] \in Nat /\ p[2] \in Nat /\ \E j \in DOMAIN is : is[j] = p
  <2>1. \A k \in DOMAIN is : is[k] \in Pos
    BY LenProperties, ElementOfSeq
  <2>2. QED
    BY <2>1, PosIs DEF Positions
<1> DEFINE far == {n \in Nat : \E p \in set, q \in Positions(is) \ set : Distance(p[2], q[2]) = n}
<1>2. CASE far = {}
  <2>1. \A p \in set, q \in Positions(is) : Distance(p[2], q[2]) \in Nat
    BY <1>1, DistanceIs
  <2>2. QED
    BY <1>2, <2>1
<1>3. CASE far # {}
  <2>1. PICK n \in far : \A m \in far : n <= m
    BY <1>3, LeastOf
  <2>2. PICK p \in set : \E q \in Positions(is) \ set : Distance(p[2], q[2]) = n
    BY <2>1
  <2>3. PICK q \in Positions(is) \ set : Distance(p[2], q[2]) = n
    BY <2>2
  <2>4. p[2] \in Nat /\ q[2] \in Nat /\ p[2] # q[2]
    BY <1>1, <2>3, WholeRows
  <2>5. ASSUME NEW r \in set
        PROVE  r[2] \in Nat /\ n <= Distance(r[2], q[2])
    <3>1. r[2] \in Nat
      BY <1>1
    <3>2. Distance(r[2], q[2]) \in far
      BY <2>3, <2>4, <3>1, DistanceIs
    <3>3. QED
      BY <2>1, <3>1, <3>2
  <2>6. PICK j \in DOMAIN is : is[j] = q
    BY <1>1
  <2>7. CASE p[2] < q[2]
    <3>1. "down" \in Direction /\ j \in Ahead(is, p, "down")
      BY <2>3, <2>6, <2>7 DEF Direction, Ahead
    <3>2. PICK r \in set : /\ \E i \in Ahead(is, p, "down") : is[i] = r
                           /\ \/ Distance(r[2], p[2]) < Distance(q[2], p[2])
                              \/ /\ Distance(r[2], p[2]) = Distance(q[2], p[2])
                                 /\ Distance(r[1], p[1]) <= Distance(q[1], p[1])
      BY <2>6, <3>1, NotPassed
    <3>3. r[2] > p[2] /\ r[2] \in Nat
      BY <1>1, <3>2 DEF Ahead
    <3>4. Distance(r[2], p[2]) = r[2] - p[2] /\ Distance(q[2], p[2]) = q[2] - p[2] /\ n = q[2] - p[2]
      BY <2>3, <2>4, <2>7, <3>3 DEF Distance
    <3>5. r[2] <= q[2]
      BY <2>4, <3>2, <3>3, <3>4
    <3>6. Distance(r[2], q[2]) = q[2] - r[2]
      BY <2>4, <3>3, <3>5, DistanceIs
    <3>7. n <= q[2] - r[2]
      BY <2>5, <3>6
    <3>8. QED
      BY <2>4, <3>3, <3>4, <3>7
  <2>8. CASE q[2] < p[2]
    <3>1. "up" \in Direction /\ j \in Ahead(is, p, "up")
      BY <2>3, <2>6, <2>8 DEF Direction, Ahead
    <3>2. PICK r \in set : /\ \E i \in Ahead(is, p, "up") : is[i] = r
                           /\ \/ Distance(r[2], p[2]) < Distance(q[2], p[2])
                              \/ /\ Distance(r[2], p[2]) = Distance(q[2], p[2])
                                 /\ Distance(r[1], p[1]) <= Distance(q[1], p[1])
      BY <2>6, <3>1, NotPassed
    <3>3. r[2] < p[2] /\ r[2] \in Nat
      BY <1>1, <3>2 DEF Ahead
    <3>4. Distance(r[2], p[2]) = p[2] - r[2] /\ Distance(q[2], p[2]) = p[2] - q[2] /\ n = p[2] - q[2]
      BY <2>3, <2>4, <2>8, <3>3 DEF Distance
    <3>5. q[2] <= r[2]
      BY <2>4, <3>2, <3>3, <3>4
    <3>6. Distance(r[2], q[2]) = r[2] - q[2]
      BY <2>4, <3>3, <3>5, DistanceIs
    <3>7. n <= r[2] - q[2]
      BY <2>5, <3>6
    <3>8. QED
      BY <2>4, <3>3, <3>4, <3>7
  <2>9. QED
    BY <2>4, <2>7, <2>8
<1>4. QED
  BY <1>2, <1>3

\* Who is reached by n steps of the arrows.
Reaching(h, n, from) == IF n = 0 THEN {from} ELSE Further(h[n - 1])
ReachedUpTo(k, from, h) == h = [n \in 0 .. k |-> Reaching(h, n, from)]

LEMMA ReachedExists ==
  ASSUME NEW from, NEW last \in Nat
  PROVE  \E h : ReachedUpTo(last, from, h)
<1> DEFINE bad == {k \in Nat : ~ \E h : ReachedUpTo(k, from, h)}
<1>1. CASE bad = {}
  BY <1>1
<1>2. CASE bad # {}
  <2>1. PICK k \in bad : \A j \in bad : k <= j
    BY <1>2, LeastOf
  <2>2. CASE k = 0
    <3> DEFINE g == [n \in 0 .. 0 |-> {from}]
    <3>1. g = [n \in 0 .. 0 |-> Reaching(g, n, from)]
      BY DEF Reaching
    <3>2. ReachedUpTo(0, from, g)
      BY <3>1, Zenon DEF ReachedUpTo
    <3>3. QED
      BY <2>1, <2>2, <3>2
  <2>3. CASE k # 0
    <3>1. k - 1 \in Nat /\ ~(k <= k - 1)
      BY <2>1, <2>3
    <3>2. k - 1 \notin bad
      BY <2>1, <3>1
    <3>3. PICK h : ReachedUpTo(k - 1, from, h)
      BY <3>1, <3>2
    <3> DEFINE g == [n \in 0 .. k |-> IF n = k THEN Further(h[k - 1]) ELSE h[n]]
    <3>4. ASSUME NEW n \in 0 .. k
          PROVE  g[n] = Reaching(g, n, from)
      <4>1. CASE n = k
        <5>1. k - 1 \in 0 .. k /\ k - 1 # k /\ g[k - 1] = h[k - 1] /\ g[n] = Further(h[k - 1])
          BY <2>3, <3>1, <4>1
        <5>2. Reaching(g, n, from) = Further(g[k - 1])
          BY <2>3, <4>1 DEF Reaching
        <5>3. QED
          BY <5>1, <5>2
      <4>2. CASE n # k
        <5>1. n \in 0 .. k - 1 /\ g[n] = h[n]
          BY <3>1, <4>2
        <5>2. h[n] = Reaching(h, n, from)
          <6>1. h = [i \in 0 .. k - 1 |-> Reaching(h, i, from)]
            BY <3>3, Zenon DEF ReachedUpTo
          <6>2. QED
            BY <5>1, <6>1, Zenon
        <5>3. Reaching(g, n, from) = Reaching(h, n, from)
          <6>1. n # 0 => n - 1 \in 0 .. k /\ n - 1 # k
            BY <3>1, <5>1
          <6>2. n # 0 => g[n - 1] = h[n - 1]
            BY <6>1
          <6> HIDE DEF g
          <6>3. QED
            BY <6>2 DEF Reaching
        <5>4. QED
          BY <5>1, <5>2, <5>3
      <4>3. QED
        BY <4>1, <4>2
    <3>5. g = [n \in 0 .. k |-> g[n]]
      OBVIOUS
    <3> HIDE DEF g
    <3>6. ReachedUpTo(k, from, g)
      BY <3>4, <3>5 DEF ReachedUpTo
    <3>7. QED
      BY <2>1, <3>6
  <2>4. QED
    BY <2>2, <2>3
<1>3. QED
  BY <1>1, <1>2

LEMMA ArrowsAre ==
  ASSUME NEW from, Len(items) \in Nat
  PROVE  \E h : ReachedUpTo(Len(items), from, h) /\ ByArrows(from) = h[Len(items)]
<1> DEFINE h == CHOOSE g : ReachedUpTo(Len(items), from, g)
<1>1. ReachedUpTo(Len(items), from, h)
  BY ReachedExists, Zenon
<1>2. ByArrows(from) = h[Len(items)]
  BY Zenon DEF ByArrows, ReachedUpTo, Reaching
<1>3. QED
  BY <1>1, <1>2, Zenon

LEMMA PositionsAre ==
  ASSUME items \in Seq(Pos)
  PROVE  Positions(items) \in SUBSET Pos /\ IsFiniteSet(Positions(items)) /\ Len(items) \in Nat
<1>1. Positions(items) \in SUBSET Pos
  BY LenProperties, ElementOfSeq DEF Positions
<1>2. IsFiniteSet(Pos)
  <2>1. IsFiniteSet(0 .. Columns - 1) /\ IsFiniteSet(0 .. Rows - 1)
    BY FS_Interval, NavAssumption
  <2>2. QED
    BY <2>1, FS_Product DEF Pos
<1>3. QED
  BY <1>1, <1>2, FS_Subset, LenProperties

LEMMA FurtherIs ==
  ASSUME items \in Seq(Pos), NEW set \in SUBSET Positions(items)
  PROVE  /\ Further(set) \in SUBSET Positions(items) /\ set \subseteq Further(set)
         /\ NoneLeaves(items, set) => Further(set) = set
         /\ ~NoneLeaves(items, set) => \E r \in Further(set) : r \notin set
<1>1. \A q \in set, d \in Direction : findItemInDirection(items, q, d) \in Positions(items) \cup {NoPos}
  BY PositionsAre, NextThere
<1>2. QED
  BY <1>1 DEF Further, NoneLeaves

LEMMA ReachesAll ==
  ASSUME items \in Seq(Pos), Cardinality(Positions(items)) = Len(items), NEW from \in Positions(items)
  PROVE  ByArrows(from) = Positions(items)
<1> DEFINE all == Positions(items)
           last == Len(items)
<1>1. all \in SUBSET Pos /\ IsFiniteSet(all) /\ last \in Nat /\ Cardinality(all) = last
  BY PositionsAre
<1>2. PICK h : ReachedUpTo(last, from, h) /\ ByArrows(from) = h[last]
  BY <1>1, ArrowsAre
<1>3. \A n \in 0 .. last : h[n] = Reaching(h, n, from)
  <2>1. h = [n \in 0 .. last |-> Reaching(h, n, from)]
    BY <1>2, Zenon DEF ReachedUpTo
  <2>2. QED
    BY <2>1, Zenon
<1> DEFINE Good(n) == /\ h[n] \in SUBSET all /\ h[n] # {}
                      /\ NoneLeaves(items, h[n]) \/ Cardinality(h[n]) >= n + 1
           bad == {n \in 0 .. last : ~Good(n)}
<1>4. CASE bad # {}
  <2>1. PICK k \in bad : \A j \in bad : k <= j
    <3>1. bad \in SUBSET Nat
      BY <1>1
    <3>2. QED
      BY <1>4, <3>1, LeastOf
  <2>2. k \in 0 .. last /\ ~Good(k)
    BY <2>1
  <2>3. CASE k = 0
    <3>1. h[0] = {from}
      BY <1>1, <1>3, <2>2, <2>3 DEF Reaching
    <3>2. Cardinality({from}) = 1
      BY FS_Singleton
    <3>3. QED
      BY <2>2, <2>3, <3>1, <3>2
  <2>4. CASE k # 0
    <3>1. k - 1 \in 0 .. last /\ ~(k <= k - 1) /\ k \in Nat
      BY <1>1, <2>2, <2>4
    <3>2. Good(k - 1)
      BY <2>1, <3>1
    <3> DEFINE set == h[k - 1]
    <3>3. set \in SUBSET all /\ set # {} /\ (NoneLeaves(items, set) \/ Cardinality(set) >= k)
      BY <3>1, <3>2
    <3>4. h[k] = Further(set)
      BY <1>3, <2>2, <2>4 DEF Reaching
    <3> HIDE DEF set, all
    <3>5. /\ Further(set) \in SUBSET all /\ set \subseteq Further(set)
          /\ NoneLeaves(items, set) => Further(set) = set
          /\ ~NoneLeaves(items, set) => \E r \in Further(set) : r \notin set
      BY <3>3, FurtherIs DEF all
    <3>6. CASE NoneLeaves(items, set)
      BY <2>2, <3>3, <3>4, <3>5, <3>6
    <3>7. CASE ~NoneLeaves(items, set)
      <4>1. PICK r \in Further(set) : r \notin set
        BY <3>5, <3>7
      <4>2. IsFiniteSet(set) /\ IsFiniteSet(Further(set))
        BY <1>1, <3>3, <3>5, FS_Subset
      <4>3. Cardinality(set \cup {r}) = Cardinality(set) + 1
        BY <4>1, <4>2, FS_AddElement
      <4>4. Cardinality(set \cup {r}) <= Cardinality(Further(set))
        BY <3>5, <4>1, <4>2, FS_Subset
      <4>5. Cardinality(set) \in Nat /\ Cardinality(Further(set)) \in Nat /\ Cardinality(set \cup {r}) \in Nat
        BY <4>2, <4>3, FS_CardinalityType
      <4>6. Cardinality(Further(set)) >= k + 1
        BY <3>1, <3>3, <3>7, <4>3, <4>4, <4>5
      <4>7. QED
        BY <2>2, <3>3, <3>4, <3>5, <4>6
    <3>8. QED
      BY <3>6, <3>7
  <2>5. QED
    BY <2>3, <2>4
<1>5. CASE bad = {}
  <2>1. last \in 0 .. last
    BY <1>1
  <2>2. Good(last)
    BY <1>5, <2>1
  <2>3. Cardinality(h[last]) \in Nat /\ Cardinality(h[last]) <= last
    BY <1>1, <2>2, FS_Subset, FS_CardinalityType
  <2>4. NoneLeaves(items, h[last])
    BY <1>1, <2>2, <2>3
  <2>5. QED
    BY <1>2, <2>2, <2>4, EveryRow
<1>6. QED
  BY <1>4, <1>5

\* Of a column, who has how many above it.
Below(set, p) == {q \in set : q[2] < p[2]}
Column(set) == /\ IsFiniteSet(set) /\ \A p \in set : p[2] \in Nat
               /\ \A p, q \in set : p[2] = q[2] => p = q

LEMMA LeastRow ==
  ASSUME NEW set, \A p \in set : p[2] \in Nat, set # {}
  PROVE  \E p \in set : \A q \in set : p[2] <= q[2]
<1> DEFINE S == {p[2] : p \in set}
<1>1. S \in SUBSET Nat /\ S # {}
  OBVIOUS
<1>2. PICK n \in S : \A m \in S : n <= m
  BY <1>1, LeastOf
<1>3. QED
  BY <1>2

LEMMA RankReached ==
  ASSUME NEW set, Column(set), NEW r \in 0 .. Cardinality(set) - 1
  PROVE  \E p \in set : Cardinality(Below(set, p)) = r
<1> DEFINE bad == {n \in 0 .. Cardinality(set) - 1 : ~ \E p \in set : Cardinality(Below(set, p)) = n}
<1>1. Cardinality(set) \in Nat
  BY FS_CardinalityType DEF Column
<1>2. CASE bad = {}
  BY <1>2
<1>3. CASE bad # {}
  <2>1. PICK k \in bad : \A j \in bad : k <= j
    <3>1. bad \in SUBSET Nat
      BY <1>1
    <3>2. QED
      BY <1>3, <3>1, LeastOf
  <2>2. k \in 0 .. Cardinality(set) - 1 /\ ~ \E p \in set : Cardinality(Below(set, p)) = k
    BY <2>1
  <2>3. CASE k = 0
    <3>1. set # {}
      BY <1>1, <2>2, FS_EmptySet
    <3>2. PICK p \in set : \A q \in set : p[2] <= q[2]
      BY <3>1, LeastRow DEF Column
    <3>3. Below(set, p) = {}
      BY <3>2 DEF Below, Column
    <3>4. QED
      BY <2>2, <2>3, <3>3, FS_EmptySet
  <2>4. CASE k # 0
    <3>1. k - 1 \in 0 .. Cardinality(set) - 1 /\ ~(k <= k - 1) /\ k \in Nat
      BY <1>1, <2>2, <2>4
    <3>2. k - 1 \notin bad
      BY <2>1, <3>1
    <3>3. PICK p \in set : Cardinality(Below(set, p)) = k - 1
      BY <3>1, <3>2
    <3> DEFINE lower == Below(set, p)
    <3>4. IsFiniteSet(lower) /\ p \notin lower /\ lower \subseteq set
      <4>1. lower \in SUBSET set /\ p \notin lower
        BY DEF Below, Column
      <4>2. QED
        BY <4>1, FS_Subset DEF Column
    <3>5. Cardinality(lower \cup {p}) = k
      <4>1. Cardinality(lower) = k - 1
        BY <3>3
      <4> HIDE DEF lower
      <4>2. Cardinality(lower \cup {p}) = Cardinality(lower) + 1
        BY <3>4, FS_AddElement
      <4>3. QED
        BY <3>1, <4>1, <4>2
    <3> DEFINE upper == {q \in set : q[2] > p[2]}
    <3>6. upper # {}
      <4> SUFFICES ASSUME upper = {}
                   PROVE  FALSE
        OBVIOUS
      <4>1. \A q \in set : q = p \/ q[2] < p[2]
        BY DEF Column
      <4>2. set = lower \cup {p}
        BY <4>1 DEF Below
      <4>3. Cardinality(set) = k
        BY <3>5, <4>2
      <4>4. QED
        BY <2>2, <3>1, <4>3
    <3>7. PICK q \in upper : \A u \in upper : q[2] <= u[2]
      <4>1. \A u \in upper : u[2] \in Nat
        BY DEF Column
      <4>2. QED
        BY <3>6, <4>1, LeastRow
    <3>8. Below(set, q) = lower \cup {p}
      <4>1. ASSUME NEW u \in set
            PROVE  u[2] < q[2] <=> u = p \/ u[2] < p[2]
        <5>1. u[2] \in Nat /\ p[2] \in Nat /\ q[2] \in Nat /\ q[2] > p[2]
          BY <3>7 DEF Column
        <5>2. u[2] > p[2] => q[2] <= u[2]
          BY <3>7
        <5>3. u[2] = p[2] => u = p
          BY DEF Column
        <5>4. QED
          BY <5>1, <5>2, <5>3
      <4>2. QED
        BY <4>1 DEF Below
    <3>9. QED
      BY <2>2, <3>5, <3>7, <3>8
  <2>5. QED
    BY <2>3, <2>4
<1>4. QED
  BY <1>2, <1>3

LEMMA ListColumnIs ==
  ASSUME items \in Seq(Pos)
  PROVE  Column(ListColumn) /\ ListColumn \in SUBSET Positions(items)
<1>1. ListColumn \in SUBSET Positions(items) /\ \A p, q \in ListColumn : p[1] = q[1]
  BY DEF ListColumn
<1>2. IsFiniteSet(ListColumn) /\ \A p \in ListColumn : p \in Pos
  BY <1>1, PositionsAre, FS_Subset
<1>3. QED
  BY <1>1, <1>2, PosIs DEF Column

LEMMA JumpsInColumn ==
  ASSUME items \in Seq(Pos), NEW delta \in Int, jumpBy(delta)
  PROVE  selectedPos' \in Positions(items)
<1> DEFINE last == Cardinality(ListColumn) - 1
           aim == Rank(selectedPos) + delta
           rank == IF aim < 0 THEN 0 ELSE IF aim > last THEN last ELSE aim
<1>1. Column(ListColumn) /\ ListColumn \in SUBSET Positions(items) /\ selectedPos \in ListColumn
  BY ListColumnIs DEF jumpBy
<1>2. last \in Nat
  BY <1>1, FS_EmptySet, FS_CardinalityType DEF Column
<1>3. Rank(selectedPos) \in Nat
  <2> DEFINE lower == {q \in ListColumn : q[2] < selectedPos[2]}
  <2>1. lower \in SUBSET ListColumn
    OBVIOUS
  <2>2. Cardinality(lower) \in Nat
    BY <1>1, <2>1, FS_Subset, FS_CardinalityType DEF Column
  <2>3. QED
    BY <2>2 DEF Rank
<1>4. rank \in 0 .. last
  <2> HIDE DEF last
  <2>1. aim \in Int
    BY <1>3
  <2> HIDE DEF aim
  <2>2. QED
    BY <1>2, <2>1
<1>5. selectedPos' = CHOOSE p \in ListColumn : Rank(p) = rank
  BY Zenon DEF jumpBy
<1> HIDE DEF rank
<1>6. \E p \in ListColumn : Rank(p) = rank
  BY <1>1, <1>4, RankReached DEF Rank, Below
<1>7. QED
  BY <1>1, <1>5, <1>6, Zenon

LEMMA EdgeInColumn ==
  ASSUME items \in Seq(Pos), NEW top \in BOOLEAN, jumpEdge(top)
  PROVE  selectedPos' \in Positions(items)
<1>1. Column(ListColumn) /\ ListColumn \in SUBSET Positions(items) /\ ListColumn # {}
  BY ListColumnIs DEF jumpEdge
<1>2. selectedPos' = CHOOSE p \in ListColumn : \A q \in ListColumn : IF top THEN p[2] <= q[2] ELSE p[2] >= q[2]
  BY Zenon DEF jumpEdge
<1>3. \E p \in ListColumn : \A q \in ListColumn : IF top THEN p[2] <= q[2] ELSE p[2] >= q[2]
  <2>1. CASE top
    <3>1. PICK p \in ListColumn : \A q \in ListColumn : p[2] <= q[2]
      BY <1>1, LeastRow DEF Column
    <3>2. QED
      BY <2>1, <3>1
  <2>2. CASE ~top
    <3> DEFINE S == {Rows - p[2] : p \in ListColumn}
    <3>1. \A p \in ListColumn : p[2] \in 0 .. Rows - 1
      BY <1>1, PositionsAre, PosIs
    <3>2. S \in SUBSET Nat /\ S # {}
      BY <1>1, <3>1, NavAssumption
    <3>3. PICK n \in S : \A m \in S : n <= m
      BY <3>2, LeastOf
    <3>4. PICK p \in ListColumn : n = Rows - p[2]
      BY <3>3
    <3>5. ASSUME NEW q \in ListColumn
          PROVE  p[2] >= q[2]
      <4>1. Rows - p[2] <= Rows - q[2]
        BY <3>3, <3>4
      <4>2. p[2] \in Int /\ q[2] \in Int /\ Rows \in Int
        BY <3>1, NavAssumption
      <4>3. QED
        BY <4>1, <4>2
    <3>6. QED
      BY <2>2, <3>5
  <2>3. QED
    BY <2>1, <2>2
<1>4. QED
  BY <1>1, <1>2, <1>3, Zenon

\* The first item of the first row.
LEMMA FirstIs ==
  ASSUME items \in Seq(Pos), items # <<>>
  PROVE  First(items) \in Positions(items)
<1>1. Positions(items) \in SUBSET Pos /\ Positions(items) # {}
  <2>1. 1 \in DOMAIN items
    BY EmptySeq, LenProperties
  <2>2. QED
    BY <2>1, PositionsAre DEF Positions
<1>2. \A p \in Positions(items) : p[1] \in Nat /\ p[2] \in Nat
  BY <1>1, PosIs
<1>3. PICK y \in Positions(items) : \A q \in Positions(items) : y[2] <= q[2]
  BY <1>1, <1>2, LeastRow
<1> DEFINE S == {p[1] : p \in {q \in Positions(items) : q[2] = y[2]}}
<1>4. S \in SUBSET Nat /\ S # {}
  BY <1>2, <1>3
<1>5. PICK n \in S : \A m \in S : n <= m
  BY <1>4, LeastOf
<1>6. PICK p \in Positions(items) : p[2] = y[2] /\ p[1] = n
  BY <1>5
<1>7. ASSUME NEW q \in Positions(items)
      PROVE  p[2] < q[2] \/ (p[2] = q[2] /\ p[1] <= q[1])
  <2>1. CASE q[2] = y[2]
    <3>1. q[1] \in S
      BY <2>1
    <3>2. QED
      BY <1>5, <1>6, <2>1, <3>1
  <2>2. CASE q[2] # y[2]
    BY <1>2, <1>3, <1>6, <2>2
  <2>3. QED
    BY <2>1, <2>2
<1>8. QED
  BY <1>6, <1>7, Zenon DEF First

\* No two items have the same position.
Apart(is) == is \in Seq(Pos) /\ \A i, j \in 1 .. Len(is) : is[i] = is[j] => i = j
ItemsKept == Apart(items) /\ Len(items) <= MaxItems
\* Nothing is selected only while others are no items; what has not strayed is an item.
SelectionKept ==
  /\ selectedPos \in Pos \cup {NoPos} /\ (items # <<>> => selectedPos # NoPos)
  /\ ~strayed => IF items = <<>> THEN selectedPos = NoPos ELSE selectedPos \in Positions(items)
GridKept == /\ initialPosition \in Pos \cup {NoPos} /\ listRange \in (0 .. Rows) \X (0 .. Rows)
            /\ trap \in BOOLEAN /\ isAreaActive \in BOOLEAN /\ confirmActive \in BOOLEAN /\ pressed \in BOOLEAN
NavInv == ItemsKept /\ SelectionKept /\ GridKept /\ strayed \in BOOLEAN

LEMMA ApartIs ==
  ASSUME NEW is, Apart(is)
  PROVE  /\ Len(is) \in Nat /\ DOMAIN is = 1 .. Len(is) /\ \A i \in 1 .. Len(is) : is[i] \in Pos
         /\ Positions(is) \in SUBSET Pos /\ Cardinality(Positions(is)) = Len(is)
         /\ (is = <<>> <=> Len(is) = 0) /\ (is # <<>> => is[1] \in Positions(is))
<1>1. /\ is \in Seq(Pos) /\ Len(is) \in Nat /\ DOMAIN is = 1 .. Len(is)
      /\ \A i \in 1 .. Len(is) : is[i] \in Pos
  BY LenProperties, ElementOfSeq DEF Apart
<1>2. is = <<>> <=> Len(is) = 0
  BY <1>1, EmptySeq
<1>3. Positions(is) \in SUBSET Pos /\ (is # <<>> => is[1] \in Positions(is))
  BY <1>1, <1>2 DEF Positions
<1>4. Cardinality(Positions(is)) = Len(is)
  <2> DEFINE f == [i \in 1 .. Len(is) |-> is[i]]
  <2>1. f \in [1 .. Len(is) -> Positions(is)]
    BY <1>1 DEF Positions
  <2>2. \A i, j \in 1 .. Len(is) : f[i] = f[j] => i = j
    BY DEF Apart
  <2>3. \A p \in Positions(is) : \E i \in 1 .. Len(is) : f[i] = p
    BY <1>1 DEF Positions
  <2> HIDE DEF f
  <2>4. f \in Bijection(1 .. Len(is), Positions(is))
    BY <2>1, <2>2, <2>3 DEF Bijection, Injection, Surjection, IsInjective
  <2>5. ExistsBijection(1 .. Len(is), Positions(is))
    BY <2>4 DEF ExistsBijection
  <2>6. QED
    BY <1>1, <2>5, FS_CountingElements
<1>5. QED
  BY <1>1, <1>2, <1>3, <1>4

\* An arrow leads to an item from wherever others is none.
LEMMA ArrowBack ==
  ASSUME NEW is, Apart(is), is # <<>>, NEW pos \in Pos, pos \notin Positions(is)
  PROVE  \E d \in Direction : findItemInDirection(is, pos, d) # NoPos
<1>1. is[1] \in Pos /\ is[1] # pos /\ 1 \in DOMAIN is
  BY ApartIs
<1>2. /\ is[1][1] \in Nat /\ is[1][2] \in Nat /\ pos[1] \in Nat /\ pos[2] \in Nat
      /\ is[1][1] # pos[1] \/ is[1][2] # pos[2]
  BY <1>1, PosIs
<1>3. PICK d \in Direction : 1 \in Ahead(is, pos, d)
  <2>1. CASE is[1][2] < pos[2]
    BY <1>1, <2>1 DEF Ahead, Direction
  <2>2. CASE is[1][2] > pos[2]
    BY <1>1, <2>2 DEF Ahead, Direction
  <2>3. CASE is[1][2] = pos[2] /\ is[1][1] < pos[1]
    BY <1>1, <2>3 DEF Ahead, Direction
  <2>4. CASE is[1][2] = pos[2] /\ is[1][1] > pos[1]
    BY <1>1, <2>4 DEF Ahead, Direction
  <2>5. QED
    BY <1>2, <2>1, <2>2, <2>3, <2>4
<1>4. is \in Seq(Pos) /\ Ahead(is, pos, d) # {}
  BY <1>3 DEF Apart
<1>5. PICK i \in Ahead(is, pos, d) : findItemInDirection(is, pos, d) = is[i]
  BY <1>4, NextIs
<1>6. is[i] \in Pos
  BY <1>5, ApartIs DEF Ahead
<1>7. QED
  BY <1>5, <1>6, PosIs

LEMMA NavIsFine == NavInv => NavTypeOK /\ SelectionIsThere /\ EveryItemReached
<1> SUFFICES ASSUME NavInv
             PROVE  NavTypeOK /\ SelectionIsThere /\ EveryItemReached
  OBVIOUS
<1>1. Apart(items) /\ items \in Seq(Pos) /\ Len(items) <= MaxItems
  BY DEF NavInv, ItemsKept, Apart
<1>2. Cardinality(Positions(items)) = Len(items)
  BY <1>1, ApartIs
<1>3. NavTypeOK
  BY <1>1, <1>2 DEF NavInv, SelectionKept, GridKept, NavTypeOK
<1>4. SelectionIsThere
  <2>1. ASSUME items # <<>>, selectedPos \notin Positions(items)
        PROVE  strayed /\ \E d \in Direction : findItemInDirection(items, selectedPos, d) # NoPos
    <3>1. strayed /\ selectedPos \in Pos
      BY <2>1 DEF NavInv, SelectionKept
    <3>2. QED
      BY <1>1, <2>1, <3>1, ArrowBack
  <2>2. QED
    BY <2>1 DEF SelectionIsThere
<1>5. EveryItemReached
  BY <1>1, <1>2, ReachesAll DEF EveryItemReached
<1>6. QED
  BY <1>3, <1>4, <1>5

\* Rows that are moved, none onto another.
LEMMA LaidIs ==
  ASSUME NEW is, Apart(is), NEW rows, \A i \in 1 .. Len(is) : rows[is[i][2]] \in 0 .. Rows - 1,
         \A i, j \in 1 .. Len(is) : rows[is[i][2]] = rows[is[j][2]] => is[i][2] = is[j][2]
  PROVE  Apart(Laid(is, rows)) /\ Len(Laid(is, rows)) = Len(is)
<1> DEFINE new == Laid(is, rows)
<1>1. /\ Len(is) \in Nat /\ DOMAIN is = 1 .. Len(is) /\ \A i \in 1 .. Len(is) : is[i] \in Pos
  BY ApartIs
<1>2. \A i \in 1 .. Len(is) : is[i][1] \in 0 .. Columns - 1
  BY <1>1, PosIs
<1>3. new = [i \in 1 .. Len(is) |-> <<is[i][1], rows[is[i][2]]>>]
  BY <1>1 DEF Laid
<1>4. \A i \in 1 .. Len(is) : new[i] = <<is[i][1], rows[is[i][2]]>> /\ new[i] \in Pos
  BY <1>2, <1>3 DEF Pos
<1>5. new \in [1 .. Len(is) -> Pos]
  BY <1>3, <1>4
<1>6. new \in Seq(Pos) /\ Len(new) = Len(is)
  <2> HIDE DEF new
  <2>1. new \in Seq(Pos)
    <3>1. \A i \in 1 .. Len(is) : new[i] \in Pos
      BY <1>5
    <3>2. [i \in 1 .. Len(is) |-> new[i]] \in Seq(Pos)
      BY <1>1, <3>1, SMT
    <3>3. new = [i \in 1 .. Len(is) |-> new[i]]
      BY <1>5
    <3>4. QED
      BY <3>2, <3>3
  <2>2. QED
    BY <1>1, <1>5, <2>1, LenProperties
<1>7. ASSUME NEW i \in 1 .. Len(is), NEW j \in 1 .. Len(is), new[i] = new[j]
      PROVE  i = j
  <2>1. is[i][1] = is[j][1] /\ rows[is[i][2]] = rows[is[j][2]]
    BY <1>4, <1>7
  <2>2. is[i] = is[j]
    BY <1>1, <2>1, PosIs
  <2>3. QED
    BY <2>2 DEF Apart
<1> HIDE DEF new
<1>8. Apart(new) /\ Len(new) = Len(is)
  BY <1>6, <1>7 DEF Apart
<1>9. QED
  BY <1>8 DEF new

LEMMA WithoutIs ==
  ASSUME NEW k, k \in DOMAIN items, Apart(items)
  PROVE  /\ Apart(Without(k)) /\ Len(Without(k)) = Len(items) - 1
         /\ \A j \in 1 .. Len(items) : j # k => items[j] \in Positions(Without(k))
         /\ \A i \in 1 .. Len(Without(k)) : \E j \in 1 .. Len(items) : j # k /\ Without(k)[i] = items[j]
<1> DEFINE new == Without(k)
<1>1. /\ Len(items) \in Nat /\ DOMAIN items = 1 .. Len(items) /\ \A i \in 1 .. Len(items) : items[i] \in Pos
  BY ApartIs
<1>2. k \in 1 .. Len(items) /\ Len(items) - 1 \in Nat
  BY <1>1
<1>3. /\ new \in Seq(Pos) /\ Len(new) = Len(items) - 1 /\ DOMAIN new = 1 .. Len(items) - 1
      /\ \A i \in 1 .. Len(items) - 1 : new[i] = IF i < k THEN items[i] ELSE items[i + 1]
  <2>1. \A i \in 1 .. Len(items) - 1 : (IF i < k THEN items[i] ELSE items[i + 1]) \in Pos
    BY <1>1, <1>2
  <2>2. QED
    BY <1>2, <2>1 DEF Without
<1> HIDE DEF new
<1>4. \A j \in 1 .. Len(items) : j # k => items[j] \in Positions(new)
  <2> SUFFICES ASSUME NEW j \in 1 .. Len(items), j # k
               PROVE  items[j] \in Positions(new)
    OBVIOUS
  <2>1. CASE j < k
    <3>1. j \in 1 .. Len(items) - 1
      BY <1>1, <1>2, <2>1
    <3>2. QED
      BY <1>3, <2>1, <3>1 DEF Positions
  <2>2. CASE j > k
    <3>1. j - 1 \in 1 .. Len(items) - 1 /\ ~(j - 1 < k) /\ j - 1 + 1 = j
      BY <1>1, <1>2, <2>2
    <3>2. new[j - 1] = items[j]
      BY <1>3, <3>1
    <3>3. QED
      BY <1>3, <3>1, <3>2 DEF Positions
  <2>3. QED
    BY <1>1, <1>2, <2>1, <2>2
<1>5. \A i \in 1 .. Len(new) : \E j \in 1 .. Len(items) : j # k /\ new[i] = items[j]
  <2> SUFFICES ASSUME NEW i \in 1 .. Len(items) - 1
               PROVE  \E j \in 1 .. Len(items) : j # k /\ new[i] = items[j]
    BY <1>3
  <2>1. CASE i < k
    BY <1>1, <1>3, <2>1
  <2>2. CASE ~(i < k)
    <3>1. i + 1 \in 1 .. Len(items) /\ i + 1 # k
      BY <1>1, <1>2, <2>2
    <3>2. QED
      BY <1>3, <2>2, <3>1
  <2>3. QED
    BY <2>1, <2>2
<1>6. \A i, j \in 1 .. Len(new) : new[i] = new[j] => i = j
  <2> SUFFICES ASSUME NEW i \in 1 .. Len(new), NEW j \in 1 .. Len(new), new[i] = new[j]
               PROVE  i = j
    OBVIOUS
  <2> DEFINE a == IF i < k THEN i ELSE i + 1
             b == IF j < k THEN j ELSE j + 1
  <2>1. a \in 1 .. Len(items) /\ b \in 1 .. Len(items) /\ (a = b => i = j)
    BY <1>1, <1>2, <1>3
  <2>2. new[i] = items[a] /\ new[j] = items[b]
    BY <1>3
  <2> HIDE DEF a, b
  <2>3. QED
    BY <2>1, <2>2 DEF Apart
<1>7. Apart(new)
  BY <1>3, <1>6 DEF Apart
<1>8. QED
  BY <1>3, <1>4, <1>5, <1>7 DEF new

\* Wherever the selection is put, it is an item or has strayed.
LEMMA StraysKept ==
  ASSUME selectedPos' \in Pos \cup {NoPos}, items' # <<>> => selectedPos' # NoPos, items' = <<>> => Positions(items') = {},
         NEW unseen \in BOOLEAN, strayed \in BOOLEAN, Strays(unseen),
         ~unseen /\ ~strayed => IF items' = <<>> THEN selectedPos' = NoPos ELSE selectedPos' \in Positions(items')
  PROVE  SelectionKept' /\ strayed' \in BOOLEAN
<1>1. strayed' = ((strayed \/ unseen) /\ selectedPos' \notin Positions(items')) /\ strayed' \in BOOLEAN
  BY DEF Strays
<1>2. Positions(items)' = Positions(items')
  BY DEF Positions
<1>3. ~strayed' => IF items' = <<>> THEN selectedPos' = NoPos ELSE selectedPos' \in Positions(items')
  <2>1. CASE unseen \/ strayed
    BY <1>1, <2>1
  <2>2. CASE ~unseen /\ ~strayed
    BY <2>2
  <2>3. QED
    BY <2>1, <2>2
<1>4. QED
  BY <1>1, <1>2, <1>3 DEF SelectionKept

LEMMA AreaIs == GridKept /\ AreaKept => GridKept'
BY DEF GridKept, AreaKept

LEMMA ApartPrimes == Apart(items)' <=> Apart(items')
BY DEF Apart

LEMMA RegisterKeeps ==
  ASSUME NavInv, NEW pos \in Pos, register(pos)
  PROVE  NavInv'
<1>1. PICK parts \in BOOLEAN :
        LET others == IF parts THEN Laid(items, Parted(pos[2])) ELSE items IN
        /\ parts => InRow(items, Rows - 1) = {}
        /\ pos \notin Positions(others) /\ items' = Append(others, pos)
        /\ selectedPos' = IF items = <<>> /\ selectedPos = NoPos THEN pos ELSE selectedPos
        /\ Strays(parts)
  BY DEF register
<1> DEFINE others == IF parts THEN Laid(items, Parted(pos[2])) ELSE items
<1>2. /\ Apart(items) /\ Len(items) \in Nat /\ MaxItems \in Nat /\ Len(items) < MaxItems /\ strayed \in BOOLEAN
      /\ \A i \in 1 .. Len(items) : items[i] \in Pos
  BY ApartIs, NavAssumption DEF NavInv, ItemsKept, register
<1>3. Apart(others) /\ Len(others) = Len(items)
  <2>1. CASE parts
    <3> DEFINE rows == Parted(pos[2])
    <3>1. \A r \in 0 .. Rows - 1 : rows[r] = IF r >= pos[2] THEN r + 1 ELSE r
      BY DEF Parted
    <3>2. \A i \in 1 .. Len(items) : items[i][2] \in 0 .. Rows - 1 /\ items[i][2] # Rows - 1
      BY <1>1, <1>2, <2>1, PosIs, ApartIs DEF InRow
    <3>3. Rows \in Nat /\ pos[2] \in Nat
      BY NavAssumption, PosIs
    <3> HIDE DEF rows
    <3>4. \A i \in 1 .. Len(items) : rows[items[i][2]] \in 0 .. Rows - 1
      BY <3>1, <3>2, <3>3
    <3>5. \A i, j \in 1 .. Len(items) : rows[items[i][2]] = rows[items[j][2]] => items[i][2] = items[j][2]
      BY <3>1, <3>2, <3>3
    <3>6. Apart(Laid(items, rows)) /\ Len(Laid(items, rows)) = Len(items)
      BY <1>2, <3>4, <3>5, LaidIs
    <3>7. QED
      BY <2>1, <3>6 DEF rows
  <2>2. CASE ~parts
    BY <1>2, <2>2
  <2>3. QED
    BY <2>1, <2>2
<1>4. pos \notin Positions(others) /\ items' = Append(others, pos)
  BY <1>1
<1> HIDE DEF others
<1>5. /\ items' \in Seq(Pos) /\ Len(items') = Len(items) + 1 /\ items'[Len(items) + 1] = pos
      /\ \A i \in 1 .. Len(items) : items'[i] = others[i]
      /\ DOMAIN items' = 1 .. Len(items) + 1 /\ items' # <<>>
  BY <1>2, <1>3, <1>4, AppendProperties DEF Apart
<1>6. Apart(items')
  <2>1. \A i \in 1 .. Len(items) : others[i] # pos
    BY <1>3, <1>4, ApartIs DEF Positions
  <2>2. \A i \in 1 .. Len(items') : i \in 1 .. Len(items) \/ i = Len(items) + 1
    BY <1>2, <1>5
  <2>3. QED
    BY <1>3, <1>5, <2>1, <2>2 DEF Apart
<1>7. ItemsKept'
  BY <1>2, <1>5, <1>6, ApartPrimes DEF ItemsKept
<1>8. pos \in Positions(items') /\ pos # NoPos
  BY <1>2, <1>5, PosIs DEF Positions
<1>9. selectedPos' = IF items = <<>> /\ selectedPos = NoPos THEN pos ELSE selectedPos
  BY <1>1
<1>10. selectedPos' \in Pos \cup {NoPos} /\ selectedPos' # NoPos
  BY <1>8, <1>9 DEF NavInv, SelectionKept
<1>11. ~parts /\ ~strayed => selectedPos' \in Positions(items')
  <2> SUFFICES ASSUME ~parts, ~strayed
               PROVE  selectedPos' \in Positions(items')
    OBVIOUS
  <2>1. CASE items = <<>>
    BY <1>8, <1>9, <2>1 DEF NavInv, SelectionKept
  <2>2. CASE items # <<>>
    <3>1. selectedPos' = selectedPos /\ selectedPos \in Positions(items) /\ others = items
      BY <1>9, <2>2 DEF NavInv, SelectionKept, others
    <3>2. PICK i \in 1 .. Len(items) : selectedPos = items[i]
      BY <1>2, <3>1, ApartIs DEF Positions
    <3>3. i \in DOMAIN items' /\ items'[i] = items[i]
      BY <1>2, <1>5, <3>1
    <3>4. QED
      BY <3>1, <3>2, <3>3 DEF Positions
  <2>3. QED
    BY <2>1, <2>2
<1>12. SelectionKept' /\ strayed' \in BOOLEAN
  BY <1>1, <1>2, <1>5, <1>10, <1>11, StraysKept
<1>13. GridKept'
  BY AreaIs DEF register, NavInv
<1>14. QED
  BY <1>7, <1>12, <1>13 DEF NavInv

LEMMA NeighbourIs ==
  ASSUME NEW is, Apart(is), is # <<>>, NEW pos \in Pos
  PROVE  Neighbour(is, pos) \in Positions(is)
<1> DEFINE next(d) == findItemInDirection(is, pos, d)
<1>1. \A d \in Direction : next(d) \in Positions(is) \cup {NoPos}
  BY NextThere DEF Apart
<1>2. is[1] \in Positions(is)
  BY ApartIs
<1>3. Neighbour(is, pos) = IF next("left") # NoPos THEN next("left")
                           ELSE IF next("up") # NoPos THEN next("up")
                           ELSE IF next("right") # NoPos THEN next("right")
                           ELSE IF next("down") # NoPos THEN next("down")
                           ELSE is[1]
  BY DEF Neighbour
<1> HIDE DEF next
<1>4. QED
  BY <1>1, <1>2, <1>3 DEF Direction

LEMMA UnregisterFine ==
  ASSUME NavInv, NEW k \in 1 .. MaxItems, unregister(k)
  PROVE  NavInv'
<1>1. PICK draws \in BOOLEAN :
        /\ RowsClose(k, draws)
        /\ \E left \in {items', Without(k)} :
             selectedPos' = IF selectedPos # items[k] THEN selectedPos
                            ELSE IF left = <<>> THEN NoPos ELSE Neighbour(left, selectedPos)
        /\ Strays(draws)
  BY DEF unregister
<1>2. PICK left \in {items', Without(k)} :
        selectedPos' = IF selectedPos # items[k] THEN selectedPos
                       ELSE IF left = <<>> THEN NoPos ELSE Neighbour(left, selectedPos)
  BY <1>1
<1>3. /\ k \in DOMAIN items /\ Apart(items) /\ Len(items) \in Nat /\ MaxItems \in Nat /\ Len(items) <= MaxItems
      /\ DOMAIN items = 1 .. Len(items) /\ strayed \in BOOLEAN /\ items # <<>>
      /\ \A i \in 1 .. Len(items) : items[i] \in Pos
  BY ApartIs, NavAssumption DEF NavInv, ItemsKept, unregister
<1>4. /\ Apart(Without(k)) /\ Len(Without(k)) = Len(items) - 1
      /\ \A j \in 1 .. Len(items) : j # k => items[j] \in Positions(Without(k))
      /\ \A i \in 1 .. Len(Without(k)) : \E j \in 1 .. Len(items) : j # k /\ Without(k)[i] = items[j]
  BY <1>3, WithoutIs
<1>5. Apart(items') /\ Len(items') = Len(items) - 1 /\ (~draws => items' = Without(k))
  <2>1. CASE draws
    <3> DEFINE y == items[k][2]
               rows == DrawnUp(y)
               less == Without(k)
    <3>1. items' = Laid(less, rows) /\ InRow(items, y) = {k}
      BY <1>1, <2>1 DEF RowsClose
    <3>2. \A r \in 0 .. Rows - 1 : rows[r] = IF r > y THEN r - 1 ELSE r
      BY DEF DrawnUp
    <3>3. y \in 0 .. Rows - 1 /\ Rows \in Nat
      BY <1>3, NavAssumption, PosIs
    <3>4. Apart(less) /\ Len(less) = Len(items) - 1
      BY <1>4
    <3>5. \A i \in 1 .. Len(less) : less[i][2] \in 0 .. Rows - 1 /\ less[i][2] # y
      BY <1>3, <1>4, <3>1, PosIs DEF InRow
    <3> HIDE DEF rows, less, y
    <3>6. \A i \in 1 .. Len(less) : rows[less[i][2]] \in 0 .. Rows - 1
      BY <3>2, <3>3, <3>5
    <3>10. \A r, s \in 0 .. Rows - 1 : r # y /\ s # y /\ rows[r] = rows[s] => r = s
      BY <3>2, <3>3
    <3>7. \A i, j \in 1 .. Len(less) : rows[less[i][2]] = rows[less[j][2]] => less[i][2] = less[j][2]
      BY <3>5, <3>10
    <3>8. Apart(Laid(less, rows)) /\ Len(Laid(less, rows)) = Len(less)
      BY <3>4, <3>6, <3>7, LaidIs
    <3>9. QED
      BY <2>1, <3>1, <3>4, <3>8
  <2>2. CASE ~draws
    BY <1>1, <1>4, <2>2 DEF RowsClose
  <2>3. QED
    BY <2>1, <2>2
<1>6. ItemsKept'
  BY <1>3, <1>5, ApartPrimes DEF ItemsKept
<1>7. Apart(left) /\ (left = <<>> <=> items' = <<>>) /\ (~draws => left = items')
  BY <1>3, <1>4, <1>5, ApartIs
<1>8. selectedPos \in Pos
  BY <1>3 DEF NavInv, SelectionKept
<1>9. left # <<>> => Neighbour(left, selectedPos) \in Positions(left) /\ Neighbour(left, selectedPos) \in Pos
  BY <1>7, <1>8, NeighbourIs, ApartIs
<1>10. selectedPos' \in Pos \cup {NoPos} /\ (items' # <<>> => selectedPos' # NoPos)
  BY <1>2, <1>7, <1>8, <1>9, PosIs
<1>11. ~draws /\ ~strayed => IF items' = <<>> THEN selectedPos' = NoPos ELSE selectedPos' \in Positions(items')
  <2> SUFFICES ASSUME ~draws, ~strayed
               PROVE  IF items' = <<>> THEN selectedPos' = NoPos ELSE selectedPos' \in Positions(items')
    OBVIOUS
  <2>1. CASE selectedPos = items[k]
    BY <1>2, <1>7, <1>9, <2>1
  <2>2. CASE selectedPos # items[k]
    <3>1. selectedPos \in Positions(items)
      BY <1>3 DEF NavInv, SelectionKept
    <3>2. PICK j \in 1 .. Len(items) : selectedPos = items[j]
      BY <1>3, <3>1 DEF Positions
    <3>3. selectedPos \in Positions(items')
      BY <1>4, <1>5, <2>2, <3>2
    <3>4. items' # <<>>
      BY <3>3 DEF Positions
    <3>5. QED
      BY <1>2, <2>2, <3>3, <3>4
  <2>3. QED
    BY <2>1, <2>2
<1>12. items' = <<>> => Positions(items') = {}
  BY DEF Positions
<1>13. SelectionKept' /\ strayed' \in BOOLEAN
  BY <1>1, <1>3, <1>10, <1>11, <1>12, StraysKept
<1>14. GridKept'
  BY AreaIs DEF unregister, NavInv
<1>15. QED
  BY <1>6, <1>13, <1>14 DEF NavInv

LEMMA SortsKeeps ==
  ASSUME NavInv, Sorts
  PROVE  NavInv'
<1>1. PICK a \in 0 .. Rows - 1, b \in 0 .. Rows - 1 : a < b /\ items' = Laid(items, Exchanged(a, b))
  BY DEF Sorts
<1> DEFINE rows == Exchanged(a, b)
<1>2. \A r \in 0 .. Rows - 1 : rows[r] = IF r = a THEN b ELSE IF r = b THEN a ELSE r
  BY DEF Exchanged
<1>3. Apart(items) /\ Len(items) <= MaxItems /\ strayed \in BOOLEAN
  BY DEF NavInv, ItemsKept
<1>4. \A i \in 1 .. Len(items) : items[i][2] \in 0 .. Rows - 1
  BY <1>3, ApartIs, PosIs
<1>5. items' = Laid(items, rows)
  BY <1>1
<1> HIDE DEF rows
<1>6. /\ \A i \in 1 .. Len(items) : rows[items[i][2]] \in 0 .. Rows - 1
      /\ \A i, j \in 1 .. Len(items) : rows[items[i][2]] = rows[items[j][2]] => items[i][2] = items[j][2]
  BY <1>2, <1>4
<1>7. Apart(items') /\ Len(items') = Len(items)
  BY <1>3, <1>5, <1>6, LaidIs
<1>8. ItemsKept'
  BY <1>3, <1>7, ApartPrimes DEF ItemsKept
<1>9. selectedPos' = selectedPos /\ Strays(TRUE)
  BY DEF Sorts
<1>10. selectedPos' \in Pos \cup {NoPos} /\ (items' # <<>> => selectedPos' # NoPos)
  BY <1>3, <1>7, <1>9, ApartIs DEF NavInv, SelectionKept
<1>11. items' = <<>> => Positions(items') = {}
  BY DEF Positions
<1>12. SelectionKept' /\ strayed' \in BOOLEAN
  BY <1>3, <1>9, <1>10, <1>11, StraysKept
<1>13. GridKept'
  BY AreaIs DEF Sorts, NavInv
<1>14. QED
  BY <1>8, <1>12, <1>13 DEF NavInv

\* Whatever else happens selects one of the items, or nothing else; or a page selects what it likes.
LEMMA SelectsKeeps ==
  ASSUME NavInv, UNCHANGED <<items, initialPosition, trap, listRange>>,
         isAreaActive' \in BOOLEAN, confirmActive' \in BOOLEAN, pressed' \in BOOLEAN,
         \/ selectedPos' \in Positions(items) \cup {selectedPos} /\ Strays(FALSE)
         \/ selectedPos' \in Pos /\ Strays(TRUE)
         \/ UNCHANGED <<selectedPos, strayed>>
  PROVE  NavInv'
<1>1. ItemsKept'
  BY ApartPrimes DEF NavInv, ItemsKept
<1>2. GridKept'
  BY DEF NavInv, GridKept
<1>3. /\ Positions(items') = Positions(items) /\ (items = <<>> => Positions(items) = {})
      /\ Positions(items) \in SUBSET Pos
  <2>1. items' = items /\ Apart(items)
    BY DEF NavInv, ItemsKept
  <2>2. items = <<>> => Positions(items) = {}
    BY DEF Positions
  <2>3. QED
    BY <2>1, <2>2, ApartIs
<1>4. SelectionKept' /\ strayed' \in BOOLEAN
  <2>1. CASE selectedPos' \in Positions(items) \cup {selectedPos} /\ Strays(FALSE)
    <3>1. selectedPos' \in Pos \cup {NoPos} /\ (items' # <<>> => selectedPos' # NoPos)
      BY <1>3, <2>1, PosIs DEF NavInv, SelectionKept
    <3>2. ~strayed => IF items' = <<>> THEN selectedPos' = NoPos ELSE selectedPos' \in Positions(items')
      BY <1>3, <2>1 DEF NavInv, SelectionKept
    <3>3. QED
      BY <1>3, <2>1, <3>1, <3>2, StraysKept DEF NavInv
  <2>2. CASE selectedPos' \in Pos /\ Strays(TRUE)
    BY <1>3, <2>2, StraysKept, PosIs DEF NavInv
  <2>3. CASE UNCHANGED <<selectedPos, strayed>>
    BY <2>3 DEF NavInv, SelectionKept, Positions
  <2>4. QED
    BY <2>1, <2>2, <2>3
<1>5. QED
  BY <1>1, <1>2, <1>4 DEF NavInv

LEMMA NavInitHolds == NavInit => NavInv
<1> SUFFICES ASSUME NavInit
             PROVE  NavInv
  OBVIOUS
<1>1. items = <<>> /\ initialPosition \in {NoPos, <<1, 0>>} /\ selectedPos = initialPosition
      /\ listRange \in {NoRange, <<1, Rows>>} /\ strayed = (selectedPos # NoPos)
      /\ trap \in BOOLEAN /\ isAreaActive \in BOOLEAN /\ confirmActive = FALSE /\ pressed = FALSE
  BY DEF NavInit
<1>2. items \in Seq(Pos) /\ Len(items) = 0
  BY <1>1
<1>3. ItemsKept
  BY <1>2, NavAssumption DEF ItemsKept, Apart
<1>4. initialPosition \in Pos \cup {NoPos}
  <2>1. 1 \in 0 .. Columns - 1 /\ 0 \in 0 .. Rows - 1
    BY NavAssumption
  <2>2. <<1, 0>> \in Pos
    BY <2>1 DEF Pos
  <2>3. QED
    BY <1>1, <2>2
<1>5. listRange \in (0 .. Rows) \X (0 .. Rows)
  <2>1. 0 \in 0 .. Rows /\ 1 \in 0 .. Rows /\ Rows \in 0 .. Rows
    BY NavAssumption
  <2>2. QED
    BY <1>1, <2>1 DEF NoRange
<1>6. SelectionKept
  BY <1>1, <1>4 DEF SelectionKept
<1>7. QED
  BY <1>1, <1>3, <1>4, <1>5, <1>6 DEF NavInv, GridKept

LEMMA NavNextHolds == NavInv /\ [NavNext]_navVars => NavInv'
<1> SUFFICES ASSUME NavInv, [NavNext]_navVars
             PROVE  NavInv'
  OBVIOUS
<1>1. /\ items \in Seq(Pos) /\ trap \in BOOLEAN /\ isAreaActive \in BOOLEAN
      /\ confirmActive \in BOOLEAN /\ pressed \in BOOLEAN
  BY DEF NavInv, ItemsKept, Apart, GridKept
<1>2. ASSUME Released PROVE confirmActive' \in BOOLEAN /\ pressed' \in BOOLEAN
  BY <1>2 DEF Released
<1>3. ASSUME NEW pos \in Pos, register(pos) PROVE NavInv'
  BY <1>3, RegisterKeeps
<1>4. ASSUME NEW k \in 1 .. MaxItems, unregister(k) PROVE NavInv'
  BY <1>4, UnregisterFine
<1>5. CASE Activated
  <2>1. selectedPos' \in Positions(items) \cup {selectedPos}
    BY <1>1, <1>5, FirstIs DEF Activated
  <2>2. QED
    BY <1>1, <1>5, <2>1, SelectsKeeps DEF Activated
<1>6. CASE Deactivated
  BY <1>1, <1>6, SelectsKeeps DEF Deactivated
<1>7. CASE select
  BY <1>1, <1>7, SelectsKeeps DEF select, AreaKept
<1>8. CASE back
  BY <1>1, <1>2, <1>8, SelectsKeeps DEF back
<1>9. CASE confirmDown
  <2>1. pressed' \in BOOLEAN
    BY <1>9 DEF confirmDown
  <2>2. QED
    BY <1>1, <1>9, <2>1, SelectsKeeps DEF confirmDown
<1>10. CASE confirmUp
  <2>1. pressed' \in BOOLEAN
    BY <1>10 DEF confirmUp
  <2>2. QED
    BY <1>1, <1>10, <2>1, SelectsKeeps DEF confirmUp
<1>11. ASSUME NEW d \in Direction, navigate(d) PROVE NavInv'
  <2> DEFINE next == IF selectedPos = NoPos THEN NoPos ELSE findItemInDirection(items, selectedPos, d)
  <2>1. next \in Positions(items) \cup {NoPos}
    <3>1. selectedPos \in Pos \cup {NoPos}
      BY DEF NavInv, SelectionKept
    <3>2. QED
      BY <1>1, <3>1, NextThere
  <2>2. /\ Released /\ UNCHANGED <<items, initialPosition, trap, listRange>> /\ Strays(FALSE)
        /\ \/ next # NoPos /\ selectedPos' = next /\ isAreaActive' = isAreaActive
           \/ selectedPos' = selectedPos /\ isAreaActive' \in (IF trap THEN {TRUE} ELSE BOOLEAN)
    BY <1>11 DEF navigate
  <2> HIDE DEF next
  <2>3. isAreaActive' \in BOOLEAN /\ selectedPos' \in Positions(items) \cup {selectedPos}
    BY <1>1, <2>1, <2>2
  <2>4. QED
    BY <1>2, <2>2, <2>3, SelectsKeeps
<1>12. ASSUME NEW delta \in {0 - PageSize, PageSize}, jumpBy(delta) PROVE NavInv'
  <2>1. delta \in Int
    BY NavAssumption
  <2>2. selectedPos' \in Positions(items)
    BY <1>1, <1>12, <2>1, JumpsInColumn
  <2>3. UNCHANGED <<items, initialPosition, trap, listRange, isAreaActive, confirmActive, pressed>> /\ Strays(FALSE)
    BY <1>12 DEF jumpBy, AreaKept
  <2>4. QED
    BY <1>1, <2>2, <2>3, SelectsKeeps
<1>13. ASSUME NEW top \in BOOLEAN, jumpEdge(top) PROVE NavInv'
  <2>1. selectedPos' \in Positions(items)
    BY <1>1, <1>13, EdgeInColumn
  <2>2. UNCHANGED <<items, initialPosition, trap, listRange, isAreaActive, confirmActive, pressed>> /\ Strays(FALSE)
    BY <1>13 DEF jumpEdge, AreaKept
  <2>3. QED
    BY <1>1, <2>1, <2>2, SelectsKeeps
<1>14. CASE UNCHANGED navVars
  <2>1. UNCHANGED <<items, selectedPos, initialPosition, trap, listRange, isAreaActive, confirmActive, pressed, strayed>>
    BY <1>14 DEF navVars
  <2>2. QED
    BY <1>1, <2>1, SelectsKeeps
<1>15. CASE Sorts
  BY <1>15, SortsKeeps
<1>16. QED
  BY <1>3, <1>4, <1>5, <1>6, <1>7, <1>8, <1>9, <1>10, <1>11, <1>12, <1>13, <1>14, <1>15 DEF NavNext

-----------------------------------------------------------------------------
(* The keyboard areas: what each operation on a layout does to the owners  *)
(* and to the active area.                                                 *)

LayoutsOf(S, W) == [owner : [S -> W], active : S \cup {NoArea}]

LEMMA ActivateIs ==
  ASSUME NEW S, NEW W, NEW l \in LayoutsOf(S, W), NEW a \in S
  PROVE  /\ activateArea(l, a) \in LayoutsOf(S, W)
         /\ activateArea(l, a).owner = l.owner
         /\ activateArea(l, a).active = IF l.owner[a] # Nobody THEN a ELSE l.active
BY DEF LayoutsOf, activateArea, Registered

LEMMA UseIs ==
  ASSUME NEW S, NEW W, NEW l \in LayoutsOf(S, W), NEW a \in S, NEW w \in W
  PROVE  /\ useArea(l, a, w) \in LayoutsOf(S, W)
         /\ useArea(l, a, w).active = l.active
         /\ \A x \in S : useArea(l, a, w).owner[x] = IF x = a THEN w ELSE l.owner[x]
<1> DEFINE r == [owner |-> [l.owner EXCEPT ![a] = w], active |-> l.active]
<1>1. useArea(l, a, w) = r
  BY DEF LayoutsOf, useArea
<1>2. r \in LayoutsOf(S, W)
  BY DEF LayoutsOf
<1>3. r.active = l.active /\ \A x \in S : r.owner[x] = IF x = a THEN w ELSE l.owner[x]
  BY DEF LayoutsOf
<1> HIDE DEF r
<1>4. QED
  BY <1>1, <1>2, <1>3

LEMMA DropIs ==
  ASSUME NEW S, NEW W, Nobody \in W, NEW l \in LayoutsOf(S, W), NEW a \in S, NEW w \in W
  PROVE  /\ dropArea(l, a, w) \in LayoutsOf(S, W)
         /\ dropArea(l, a, w).active = IF l.active = a /\ l.owner[a] = w THEN NoArea ELSE l.active
         /\ \A x \in S : dropArea(l, a, w).owner[x] = IF x = a /\ l.owner[a] = w THEN Nobody ELSE l.owner[x]
<1>1. CASE l.owner[a] # w
  BY <1>1 DEF dropArea
<1>2. CASE l.owner[a] = w
  <2> DEFINE r == [owner |-> [l.owner EXCEPT ![a] = Nobody], active |-> IF l.active = a THEN NoArea ELSE l.active]
  <2>1. dropArea(l, a, w) = r
    BY <1>2 DEF dropArea
  <2>2. r \in LayoutsOf(S, W)
    BY DEF LayoutsOf
  <2>3. /\ r.active = IF l.active = a /\ l.owner[a] = w THEN NoArea ELSE l.active
        /\ \A x \in S : r.owner[x] = IF x = a /\ l.owner[a] = w THEN Nobody ELSE l.owner[x]
    BY <1>2 DEF LayoutsOf
  <2> HIDE DEF r
  <2>4. QED
    BY <2>1, <2>2, <2>3
<1>3. QED
  BY <1>1, <1>2

LEMMA UseAllIs ==
  ASSUME NEW S, NEW W, NEW l \in LayoutsOf(S, W), NEW zone \in SUBSET S, NEW w \in W
  PROVE  /\ useAll(l, zone, w) \in LayoutsOf(S, W)
         /\ useAll(l, zone, w).active = l.active
         /\ \A x \in S : useAll(l, zone, w).owner[x] = IF x \in zone THEN w ELSE l.owner[x]
<1> DEFINE r == [owner |-> [x \in S |-> IF x \in zone THEN w ELSE l.owner[x]], active |-> l.active]
<1>1. useAll(l, zone, w) = r
  <2>1. l.owner \in [S -> W] /\ l = [owner |-> l.owner, active |-> l.active]
    BY DEF LayoutsOf
  <2>2. DOMAIN l.owner = S
    BY <2>1
  <2> DEFINE o == [x \in DOMAIN l.owner |-> IF x \in zone THEN w ELSE l.owner[x]]
  <2>3. useAll(l, zone, w) = [l EXCEPT !.owner = o]
    BY Zenon DEF useAll
  <2> HIDE DEF o
  <2>4. [l EXCEPT !.owner = o] = [owner |-> o, active |-> l.active]
    BY <2>1
  <2>5. QED
    BY <2>2, <2>3, <2>4 DEF o
<1>2. r \in LayoutsOf(S, W)
  BY DEF LayoutsOf
<1>3. r.active = l.active /\ \A x \in S : r.owner[x] = IF x \in zone THEN w ELSE l.owner[x]
  OBVIOUS
<1> HIDE DEF r
<1>4. QED
  BY <1>1, <1>2, <1>3

LEMMA DropAllIs ==
  ASSUME NEW S, NEW W, Nobody \in W, NEW l \in LayoutsOf(S, W), NEW zone \in SUBSET S, NEW w \in W
  PROVE  /\ dropAll(l, zone, w) \in LayoutsOf(S, W)
         /\ dropAll(l, zone, w).active = IF l.active \in zone /\ l.owner[l.active] = w THEN NoArea ELSE l.active
         /\ \A x \in S : dropAll(l, zone, w).owner[x] = IF x \in zone /\ l.owner[x] = w THEN Nobody ELSE l.owner[x]
<1>1. DOMAIN l.owner = S /\ l.owner \in [S -> W] /\ l.active \in S \cup {NoArea}
  BY DEF LayoutsOf
<1> DEFINE r == [owner |-> [x \in S |-> IF x \in zone /\ l.owner[x] = w THEN Nobody ELSE l.owner[x]],
                 active |-> IF l.active \in zone /\ l.owner[l.active] = w THEN NoArea ELSE l.active]
<1>2. dropAll(l, zone, w) = r
  BY <1>1 DEF dropAll
<1>3. r \in LayoutsOf(S, W)
  BY <1>1 DEF LayoutsOf
<1>4. /\ r.active = IF l.active \in zone /\ l.owner[l.active] = w THEN NoArea ELSE l.active
      /\ \A x \in S : r.owner[x] = IF x \in zone /\ l.owner[x] = w THEN Nobody ELSE l.owner[x]
  OBVIOUS
<1> HIDE DEF r
<1>5. QED
  BY <1>2, <1>3, <1>4

-----------------------------------------------------------------------------
(* The file browser: who may own its areas with which dialogs shown.       *)

BrowserLayouts == LayoutsOf(Area, {Nobody, "browser"} \cup Dialog)
\* A dialog that is not shown owns nothing.
OwnersShown(l, ds) == \A a \in Area : l.owner[a] \in Dialog => l.owner[a] \in ds
BehindIsBack(l) == \A a \in Behind : l.owner[a] = "browser"
\* The input of a filter covers the panel alone.
LayoutOK(l, ds, onPage) ==
  /\ l \in BrowserLayouts /\ OwnersShown(l, ds)
  /\ onPage /\ ds \in SUBSET {"customFilter"} => BehindIsBack(l)
  /\ onPage /\ ds = {} => l.active \in Area /\ l.owner[l.active] = "browser"

LEMMA OwnersAre == /\ Nobody \notin Dialog /\ "browser" \notin Dialog /\ Nobody # "browser" /\ NoArea \notin Area
                   /\ Nobody \in {Nobody, "browser"} \cup Dialog
BY DEF Nobody, NoArea, Area, Behind, Dialog, Confirmed, Entered, AreaOf
LEMMA AreasAre == /\ Behind \in SUBSET Area /\ "filter" \notin Behind
                  /\ {"path", "name-filter", "save-filename", "filter", "editor-toolbar"} \in SUBSET Area
BY DEF Area, Behind, Dialog, Confirmed, Entered, AreaOf
LEMMA DialogsAre == /\ "customFilter" \in Dialog /\ "editor" \in Dialog
                    /\ \A d \in Dialog : AreaOf(d) \in Area /\ AreaOf(d) \notin Behind
BY DEF Area, Behind, Dialog, Confirmed, Entered, AreaOf

LEMMA ActivatedOK ==
  ASSUME NEW l, NEW ds, NEW onPage \in BOOLEAN, LayoutOK(l, ds, onPage), NEW a \in Area
  PROVE  LayoutOK(activateArea(l, a), ds, onPage)
<1> DEFINE r == activateArea(l, a)
<1>1. l \in BrowserLayouts
  BY DEF LayoutOK
<1>2. r \in BrowserLayouts /\ r.owner = l.owner /\ r.active = IF l.owner[a] # Nobody THEN a ELSE l.active
  BY <1>1, ActivateIs DEF BrowserLayouts
<1>3. l.owner[a] \in {Nobody, "browser"} \cup Dialog
  BY <1>1 DEF BrowserLayouts, LayoutsOf
<1> HIDE DEF r
<1>4. LayoutOK(r, ds, onPage)
  BY <1>2, <1>3, OwnersAre, AreasAre DEF LayoutOK, OwnersShown, BehindIsBack
<1>5. QED
  BY <1>4 DEF r

LEMMA UsedOK ==
  ASSUME NEW l, NEW ds, NEW onPage \in BOOLEAN, LayoutOK(l, ds, onPage), NEW a \in Area
  PROVE  LayoutOK(useArea(l, a, "browser"), ds, onPage)
<1> DEFINE r == useArea(l, a, "browser")
<1>1. l \in BrowserLayouts
  BY DEF LayoutOK
<1>2. r \in BrowserLayouts /\ r.active = l.active
      /\ \A x \in Area : r.owner[x] = IF x = a THEN "browser" ELSE l.owner[x]
  BY <1>1, UseIs DEF BrowserLayouts
<1> HIDE DEF r
<1>3. LayoutOK(r, ds, onPage)
  BY <1>2, OwnersAre, AreasAre DEF LayoutOK, OwnersShown, BehindIsBack
<1>4. QED
  BY <1>3 DEF r

LEMMA DroppedIs ==
  ASSUME NEW l \in BrowserLayouts, NEW ds, OwnersShown(l, ds)
  PROVE  /\ dropArea(l, "filter", "browser") \in BrowserLayouts
         /\ OwnersShown(dropArea(l, "filter", "browser"), ds)
         /\ \A a \in Behind : dropArea(l, "filter", "browser").owner[a] = l.owner[a]
<1> DEFINE r == dropArea(l, "filter", "browser")
<1>1. r \in BrowserLayouts
      /\ \A x \in Area : r.owner[x] = IF x = "filter" /\ l.owner["filter"] = "browser" THEN Nobody ELSE l.owner[x]
  BY OwnersAre, AreasAre, DropIs DEF BrowserLayouts
<1> HIDE DEF r
<1>2. OwnersShown(r, ds) /\ \A a \in Behind : r.owner[a] = l.owner[a]
  BY <1>1, OwnersAre, AreasAre DEF OwnersShown
<1>3. QED
  BY <1>1, <1>2 DEF r

LEMMA FilterClosedOK ==
  ASSUME NEW l, NEW ds, NEW onPage \in BOOLEAN, LayoutOK(l, ds, onPage)
  PROVE  /\ LayoutOK(FilterClosed(l), ds, onPage)
         /\ onPage /\ ds \in SUBSET {"customFilter"} =>
              FilterClosed(l).active = "directory-actions"
<1> DEFINE d == dropArea(l, "filter", "browser")
           r == activateArea(d, "directory-actions")
<1>1. d \in BrowserLayouts /\ OwnersShown(d, ds) /\ \A a \in Behind : d.owner[a] = l.owner[a]
  BY DroppedIs DEF LayoutOK
<1>2. "directory-actions" \in Behind /\ "directory-actions" \in Area
  BY OwnersAre, AreasAre DEF Behind
<1>3. /\ r \in BrowserLayouts /\ r.owner = d.owner
      /\ r.active = IF d.owner["directory-actions"] # Nobody THEN "directory-actions" ELSE d.active
  BY <1>1, <1>2, ActivateIs DEF BrowserLayouts
<1>4. FilterClosed(l) = r
  BY DEF FilterClosed
<1> HIDE DEF d, r
<1>5. r \in BrowserLayouts /\ OwnersShown(r, ds)
  BY <1>1, <1>3 DEF OwnersShown
<1>6. ASSUME onPage, ds \in SUBSET {"customFilter"}
      PROVE  BehindIsBack(r) /\ r.active = "directory-actions" /\ r.owner[r.active] = "browser"
  <2>1. \A a \in Behind : d.owner[a] = "browser"
    BY <1>1, <1>6 DEF LayoutOK, BehindIsBack
  <2>2. QED
    BY <1>2, <1>3, <2>1, OwnersAre, AreasAre DEF BehindIsBack
<1>7. ds = {} => ds \in SUBSET {"customFilter"}
  OBVIOUS
<1>8. QED
  BY <1>2, <1>4, <1>5, <1>6, <1>7 DEF LayoutOK

\* What is dropped, mounted and unmounted leaves no other owner.
LEMMA AllDroppedIs ==
  ASSUME NEW l \in BrowserLayouts, NEW ds, OwnersShown(l, ds), NEW zone \in SUBSET Area
  PROVE  dropAll(l, zone, "browser") \in BrowserLayouts /\ OwnersShown(dropAll(l, zone, "browser"), ds)
<1>1. /\ dropAll(l, zone, "browser") \in BrowserLayouts
      /\ \A x \in Area : dropAll(l, zone, "browser").owner[x] =
                          IF x \in zone /\ l.owner[x] = "browser" THEN Nobody ELSE l.owner[x]
  BY OwnersAre, DropAllIs DEF BrowserLayouts
<1>2. QED
  BY <1>1, OwnersAre DEF OwnersShown

LEMMA MountsIs ==
  ASSUME NEW l \in BrowserLayouts, NEW ds, OwnersShown(l, ds), NEW d \in Dialog, d \in dialogs => d \in ds
  PROVE  /\ Mounts(l, d) \in BrowserLayouts /\ OwnersShown(Mounts(l, d), ds \cup {d})
         /\ \A a \in Behind : Mounts(l, d).owner[a] = l.owner[a]
<1>1. CASE d \in dialogs
  BY <1>1 DEF Mounts, OwnersShown
<1>2. CASE d \notin dialogs
  <2> DEFINE u == useArea(l, AreaOf(d), d)
             r == activateArea(u, AreaOf(d))
  <2>1. u \in BrowserLayouts /\ \A x \in Area : u.owner[x] = IF x = AreaOf(d) THEN d ELSE l.owner[x]
    BY DialogsAre, UseIs DEF BrowserLayouts
  <2>2. Mounts(l, d) = r
    BY <1>2 DEF Mounts
  <2> HIDE DEF u
  <2>3. r \in BrowserLayouts /\ r.owner = u.owner
    BY <2>1, DialogsAre, ActivateIs DEF BrowserLayouts
  <2> HIDE DEF r
  <2>4. \A x \in Area : r.owner[x] = IF x = AreaOf(d) THEN d ELSE l.owner[x]
    BY <2>1, <2>3
  <2>5. QED
    BY <2>2, <2>3, <2>4, DialogsAre, AreasAre DEF OwnersShown
<1>3. QED
  BY <1>1, <1>2

LEMMA UnmountsIs ==
  ASSUME NEW l \in BrowserLayouts, NEW ds, OwnersShown(l, ds), NEW es \in SUBSET Dialog
  PROVE  /\ Unmounts(l, es) \in BrowserLayouts /\ OwnersShown(Unmounts(l, es), ds \ es)
         /\ \A a \in Area : Unmounts(l, es).owner[a] = IF l.owner[a] \in es THEN Nobody ELSE l.owner[a]
         /\ l.active \in Area /\ l.owner[l.active] = "browser" =>
              Unmounts(l, es).active = l.active
<1> DEFINE r == Unmounts(l, es)
<1>1. l.owner \in [Area -> {Nobody, "browser"} \cup Dialog] /\ l.active \in Area \cup {NoArea}
  BY DEF BrowserLayouts, LayoutsOf
<1>2. r \in BrowserLayouts
  BY <1>1 DEF BrowserLayouts, LayoutsOf, Unmounts
<1>3. \A a \in Area : r.owner[a] = IF l.owner[a] \in es THEN Nobody ELSE l.owner[a]
  BY DEF Unmounts
<1>4. l.active \in Area /\ l.owner[l.active] = "browser" => r.active = l.active
  BY OwnersAre, AreasAre DEF Unmounts
<1> HIDE DEF r
<1>5. OwnersShown(r, ds \ es)
  BY <1>3, OwnersAre, AreasAre DEF OwnersShown
<1>6. QED
  BY <1>2, <1>3, <1>4, <1>5 DEF r

LEMMA BackIs ==
  ASSUME NEW l \in BrowserLayouts, NEW ds, OwnersShown(l, ds)
  PROVE  LET r == useAll(l, Behind, "browser") IN
         /\ r \in BrowserLayouts /\ OwnersShown(r, ds) /\ BehindIsBack(r) /\ r.active = l.active
         /\ \A a \in Area : l.owner[a] = "browser" => r.owner[a] = "browser"
<1> DEFINE r == useAll(l, Behind, "browser")
<1>1. r \in BrowserLayouts /\ r.active = l.active
      /\ \A x \in Area : r.owner[x] = IF x \in Behind THEN "browser" ELSE l.owner[x]
  BY AreasAre, UseAllIs DEF BrowserLayouts
<1> HIDE DEF r
<1>2. OwnersShown(r, ds) /\ BehindIsBack(r)
  BY <1>1, OwnersAre, AreasAre DEF OwnersShown, BehindIsBack
<1>3. QED
  BY <1>1, <1>2 DEF r

-----------------------------------------------------------------------------
(* The rows of the browser, and its requests.                              *)

Names == {"none", "file", "directory"}
FlightType == [at : {"none", "operation", "list"}, what : Operation \cup {"none", "browse", "open"},
               path : Path, select : Names]
FlightsKept == flight \in [1 .. MaxFlights -> FlightType]
ListedKept == /\ currentPath \in Path /\ listing \in [what : {"all", "up", "none"}, dir : Path] /\ selectedIndex \in 0 .. 2
              /\ loading \in BOOLEAN /\ failed \in BOOLEAN /\ nameFilter \in BOOLEAN
PlainKept ==
  /\ props \in [directoriesOnly : BOOLEAN, save : BOOLEAN] /\ dialogs \in SUBSET Dialog
  /\ showNameFilter \in BOOLEAN /\ showActions \in BOOLEAN /\ showFilterPanel \in BOOLEAN
  /\ fileToDelete \in BOOLEAN /\ mounted \in BOOLEAN /\ itemToRename \in Names
  /\ browserEvents \in 0 .. MaxBrowserEvents
PlacesKept == LayoutOK(layout, dialogs, mounted)
BrowserKept == FlightsKept /\ ListedKept /\ PlainKept /\ PlacesKept

LEMMA BrowserIsFine == BrowserKept => BrowserTypeOK /\ AreasComeBack
<1> SUFFICES ASSUME BrowserKept
             PROVE  BrowserTypeOK /\ AreasComeBack
  OBVIOUS
<1>1. layout \in [owner : [Area -> {Nobody, "browser"} \cup Dialog], active : Area \cup {NoArea}]
  BY DEF BrowserKept, PlacesKept, LayoutOK, BrowserLayouts, LayoutsOf
<1>2. \A b \in {loading, failed, nameFilter, showNameFilter, showActions, showFilterPanel, fileToDelete, mounted} :
        b \in BOOLEAN
  BY DEF BrowserKept, ListedKept, PlainKept
<1>3. flight \in [1 .. MaxFlights -> [at : {"none", "operation", "list"}, what : Operation \cup {"none", "browse", "open"},
                                      path : Path, select : {"none", "file", "directory"}]]
  BY DEF BrowserKept, FlightsKept, FlightType, Names
<1>4. BrowserTypeOK
  BY <1>1, <1>2, <1>3 DEF BrowserKept, ListedKept, PlainKept, Names, BrowserTypeOK
<1>5. AreasComeBack
  <2>1. dialogs = {} => dialogs \in SUBSET {"customFilter"}
    OBVIOUS
  <2>2. QED
    BY <2>1, OwnersAre DEF AreasComeBack, BrowserKept, PlacesKept, LayoutOK, BehindIsBack
<1>6. QED
  BY <1>4, <1>5

LEMMA OneRow ==
  ASSUME NEW S, NEW x \in S
  PROVE  <<x>> \in Seq(S) /\ Len(<<x>>) <= 1
OBVIOUS

\* A list has three rows at most, and each of them leads where it may.
LEMMA ThreeRows ==
  ASSUME NEW S, NEW r1 \in Seq(S), NEW r2 \in Seq(S), NEW r3 \in Seq(S), Len(r1) <= 1, Len(r2) <= 1, Len(r3) <= 1
  PROVE  r1 \o r2 \o r3 \in Seq(S) /\ Len(r1 \o r2 \o r3) <= 3
<1> DEFINE r == r1 \o r2
<1>1. r \in Seq(S) /\ Len(r) = Len(r1) + Len(r2)
  BY ConcatProperties
<1> HIDE DEF r
<1>2. r \o r3 \in Seq(S) /\ Len(r \o r3) = Len(r) + Len(r3)
  BY <1>1, ConcatProperties
<1>3. Len(r1) \in Nat /\ Len(r2) \in Nat /\ Len(r3) \in Nat
  BY LenProperties
<1>4. Len(r \o r3) <= 3
  BY <1>1, <1>2, <1>3
<1>5. QED
  BY <1>2, <1>4 DEF r

HeldItems == {item \in {"..", "directory", "file"} : Held(item)}
LEMMA ItemsAre ==
  ASSUME NEW names
  PROVE  ItemsAmong(names) \in Seq(HeldItems) /\ Len(ItemsAmong(names)) \in 0 .. 3
<1>1. ASSUME NEW item \in {"..", "directory", "file"}
      PROVE  Row(item, names) \in Seq(HeldItems) /\ Len(Row(item, names)) <= 1
  <2>1. CASE item \in names /\ Held(item)
    <3>1. item \in HeldItems /\ Row(item, names) = <<item>>
      BY <2>1 DEF HeldItems, Row
    <3>2. QED
      BY <3>1, OneRow
  <2>2. CASE ~(item \in names /\ Held(item))
    <3>1. Row(item, names) = <<>>
      BY <2>2 DEF Row
    <3>2. <<>> \in Seq(HeldItems) /\ Len(<<>>) <= 1
      OBVIOUS
    <3>3. QED
      BY <3>1, <3>2
  <2>3. QED
    BY <2>1, <2>2
<1>2. ItemsAmong(names) \in Seq(HeldItems) /\ Len(ItemsAmong(names)) <= 3
  BY <1>1, ThreeRows DEF ItemsAmong
<1> DEFINE rows == ItemsAmong(names)
<1> HIDE DEF rows
<1>3. rows \in Seq(HeldItems) /\ Len(rows) <= 3
  BY <1>2 DEF rows
<1>4. Len(rows) \in 0 .. 3
  <2>1. Len(rows) \in Nat
    BY <1>3, LenProperties
  <2> DEFINE n == Len(rows)
  <2> HIDE DEF n
  <2>2. n \in Nat /\ n <= 3 => n \in 0 .. 3
    OBVIOUS
  <2>3. QED
    BY <1>3, <2>1, <2>2 DEF n
<1>5. QED
  BY <1>3, <1>4 DEF rows

LEMMA FilteredAre ==
  ASSUME ListedKept
  PROVE  /\ Len(filteredItems) \in 0 .. 3
         /\ \A i \in 1 .. Len(filteredItems) : filteredItems[i] \in HeldItems
         /\ selectedItem \in HeldItems \cup {"none"}
<1>1. filteredItems \in Seq(HeldItems) /\ Len(filteredItems) \in 0 .. 3
  BY ItemsAre DEF filteredItems, Items
<1>2. \A i \in 1 .. Len(filteredItems) : filteredItems[i] \in HeldItems
  BY <1>1, ElementOfSeq
<1>3. selectedItem \in HeldItems \cup {"none"}
  <2>1. selectedIndex \in Nat
    BY DEF ListedKept
  <2>2. selectedIndex < Len(filteredItems) => selectedIndex + 1 \in 1 .. Len(filteredItems)
    BY <1>1, <2>1
  <2>3. QED
    BY <1>2, <2>2 DEF selectedItem
<1>4. QED
  BY <1>1, <1>2, <1>3

LEMMA TargetIs ==
  ASSUME ListedKept, NEW item \in HeldItems, item \in {"..", "directory"}
  PROVE  Target(item) \in Path /\ CameFrom(item) \in Names
<1>1. listing.dir \in Path /\ MaxDepth \in Nat
  BY BrowserAssumption DEF ListedKept
<1>2. item = ".." => listing.dir > 0
  BY DEF HeldItems, Held
<1>3. item = "directory" => listing.dir < MaxDepth
  BY DEF HeldItems, Held
<1>4. QED
  BY <1>1, <1>2, <1>3 DEF Target, CameFrom, Path, Names

\* Where an answer puts the selection.
LEMMA IndexIs ==
  ASSUME NEW name
  PROVE  IndexOf(name, Items') \in 0 .. 2
<1>1. ASSUME NEW item \in {"..", "directory", "file"}, NEW names
      PROVE  Row(item, names)' \in Seq({"..", "directory", "file"}) /\ Len(Row(item, names)') <= 1
  <2>1. Row(item, names)' = <<item>> \/ Row(item, names)' = <<>>
    BY DEF Row
  <2>2. <<>> \in Seq({"..", "directory", "file"}) /\ Len(<<>>) <= 1
    OBVIOUS
  <2>3. <<item>> \in Seq({"..", "directory", "file"}) /\ Len(<<item>>) <= 1
    BY OneRow
  <2>4. QED
    BY <2>1, <2>2, <2>3
<1>2. Items' \in Seq({"..", "directory", "file"}) /\ Len(Items') <= 3
  BY <1>1, ThreeRows DEF Items, ItemsAmong
<1>3. Len(Items') \in Nat /\ DOMAIN Items' = 1 .. Len(Items')
  BY <1>2, LenProperties
<1> DEFINE rows == Items'
<1> HIDE DEF rows
<1>4. CASE \E i \in DOMAIN rows : rows[i] = name
  <2> DEFINE it == CHOOSE i \in DOMAIN rows : rows[i] = name
  <2>1. it \in DOMAIN rows
    BY <1>4, Zenon
  <2>2. IndexOf(name, rows) = it - 1
    BY <1>4 DEF IndexOf
  <2> HIDE DEF it
  <2>3. QED
    BY <1>2, <1>3, <2>1, <2>2 DEF rows
<1>5. CASE ~\E i \in DOMAIN rows : rows[i] = name
  <2>1. IndexOf(name, rows) = 0
    BY <1>5 DEF IndexOf
  <2>2. QED
    BY <2>1 DEF rows
<1>6. QED
  BY <1>4, <1>5

-----------------------------------------------------------------------------
(* What a step does to them. *)

LEMMA FliesKept ==
  ASSUME FlightsKept, NEW f \in FlightType, Flies(f)
  PROVE  FlightsKept'
<1> DEFINE free == {i \in DOMAIN flight : flight[i] = NoFlight}
           least == CHOOSE i \in free : \A j \in free : i <= j
<1>1. free # {} /\ free \in SUBSET (1 .. MaxFlights)
  BY DEF Flies, FlightsKept
<1>2. least \in free
  <2>1. \E i \in free : \A j \in free : i <= j
    <3>1. free \in SUBSET Nat
      BY <1>1, BrowserAssumption
    <3> HIDE DEF free
    <3>2. QED
      BY <1>1, <3>1, LeastOf
  <2>2. QED
    BY <2>1, Zenon
<1>3. flight' = [flight EXCEPT ![least] = f]
  BY DEF Flies
<1>4. least \in 1 .. MaxFlights
  BY <1>1, <1>2
<1> HIDE DEF free, least
<1>5. QED
  BY <1>3, <1>4 DEF FlightsKept

LEMMA EndedKept ==
  ASSUME FlightsKept, NEW i \in 1 .. MaxFlights, Ended(i)
  PROVE  FlightsKept'
<1>1. NoFlight \in FlightType
  BY BrowserAssumption DEF NoFlight, FlightType, Path, Names
<1>2. QED
  BY <1>1 DEF FlightsKept, Ended

LEMMA ListsKept ==
  ASSUME FlightsKept, NEW i \in 1 .. MaxFlights, NEW dir \in Path, NEW name \in Names, Lists(i, dir, name)
  PROVE  FlightsKept'
<1>1. [at |-> "list", what |-> flight[i].what, path |-> dir, select |-> name] \in FlightType
  BY DEF FlightsKept, FlightType
<1>2. QED
  BY <1>1 DEF FlightsKept, Lists

LEMMA LoadKept ==
  ASSUME FlightsKept, ListedKept, NEW dir \in Path, NEW name \in Names, loadDirectory(dir, name)
  PROVE  FlightsKept' /\ ListedKept'
<1>1. [at |-> "list", what |-> "browse", path |-> dir, select |-> name] \in FlightType
  BY DEF FlightType
<1>2. FlightsKept'
  BY <1>1, FliesKept DEF loadDirectory
<1>3. ListedKept'
  BY DEF ListedKept, loadDirectory, Intends
<1>4. QED
  BY <1>2, <1>3

RowsSame == /\ UNCHANGED <<currentPath, listing, loading, failed, flight>>
            /\ selectedIndex' \in 0 .. 2 /\ nameFilter' \in BOOLEAN
LEMMA RowsSameKept == FlightsKept /\ ListedKept /\ RowsSame => FlightsKept' /\ ListedKept'
BY DEF RowsSame, FlightsKept, ListedKept

-----------------------------------------------------------------------------
(* What a step does to the areas. *)

PlacesSame == UNCHANGED <<layout, dialogs, mounted>>
PlacesMove == UNCHANGED <<dialogs, mounted>> /\ \E a \in Area : Activates(a)
LEMMA PlacesMoveKept ==
  ASSUME PlainKept, PlacesKept, PlacesSame \/ PlacesMove
  PROVE  PlacesKept'
<1>1. mounted \in BOOLEAN
  BY DEF PlainKept
<1>2. CASE PlacesSame
  BY <1>2 DEF PlacesSame, PlacesKept
<1>3. CASE PlacesMove
  <2>1. PICK a \in Area : layout' = activateArea(layout, a)
    BY <1>3 DEF PlacesMove, Activates
  <2>2. LayoutOK(activateArea(layout, a), dialogs, mounted)
    BY <1>1, ActivatedOK DEF PlacesKept
  <2>3. QED
    BY <1>3, <2>1, <2>2 DEF PlacesMove, PlacesKept
<1>4. QED
  BY <1>2, <1>3

LEMMA GoneIs ==
  ASSUME PlacesKept, UNCHANGED dialogs, mounted' = FALSE, layout' = Unmounted
  PROVE  PlacesKept'
<1>1. dropAll(layout, Area, "browser") \in BrowserLayouts /\ OwnersShown(dropAll(layout, Area, "browser"), dialogs)
  BY AllDroppedIs DEF PlacesKept, LayoutOK
<1>2. QED
  BY <1>1 DEF PlacesKept, LayoutOK, Unmounted

\* A dialog or the editor over the browser, and the editor in the place of a question.
LEMMA CoveredIs ==
  ASSUME PlainKept, PlacesKept, NEW d \in Dialog, d # "customFilter", NEW gone \in SUBSET Dialog, d \notin gone,
         dialogs' = (dialogs \ gone) \cup {d},
         layout' = Mounts(Unmounts(dropAll(layout, Behind, "browser"), gone), d)
  PROVE  PlacesKept'
<1> DEFINE l1 == dropAll(layout, Behind, "browser")
           l2 == Unmounts(l1, gone)
<1>1. l1 \in BrowserLayouts /\ OwnersShown(l1, dialogs)
  BY AllDroppedIs, AreasAre DEF PlacesKept, LayoutOK
<1> HIDE DEF l1
<1>2. l2 \in BrowserLayouts /\ OwnersShown(l2, dialogs \ gone)
  BY <1>1, UnmountsIs
<1> HIDE DEF l2
<1>3. d \in dialogs => d \in dialogs \ gone
  OBVIOUS
<1>4. Mounts(l2, d) \in BrowserLayouts /\ OwnersShown(Mounts(l2, d), (dialogs \ gone) \cup {d})
  BY <1>2, <1>3, MountsIs
<1>5. layout' \in BrowserLayouts /\ OwnersShown(layout', dialogs')
  BY <1>4 DEF l1, l2
<1>6. d \in dialogs'
  OBVIOUS
<1>7. ~(dialogs' \in SUBSET {"customFilter"}) /\ dialogs' # {}
  BY <1>6
<1>8. QED
  BY <1>5, <1>7 DEF PlacesKept, LayoutOK

\* A way out of a dialog.
LEMMA TakesBackIs ==
  ASSUME PlainKept, PlacesKept, NEW ds \in SUBSET Dialog, NEW a \in Behind,
         UNCHANGED mounted, dialogs' = dialogs \ ds, layout' = TakesBack(ds, a)
  PROVE  PlacesKept'
<1> DEFINE l1 == Unmounts(layout, ds)
           l2 == useAll(l1, Behind, "browser")
           l3 == activateArea(l2, a)
<1>1. l1 \in BrowserLayouts /\ OwnersShown(l1, dialogs \ ds)
  BY UnmountsIs DEF PlacesKept, LayoutOK
<1> HIDE DEF l1
<1>2. l2 \in BrowserLayouts /\ OwnersShown(l2, dialogs \ ds) /\ BehindIsBack(l2)
  BY <1>1, BackIs
<1> HIDE DEF l2
<1>3. a \in Area /\ l2.owner[a] = "browser"
  BY <1>2, AreasAre DEF BehindIsBack
<1>4. l3 \in BrowserLayouts /\ l3.owner = l2.owner /\ l3.active = a
  BY <1>2, <1>3, ActivateIs, OwnersAre DEF BrowserLayouts
<1>5. layout' = l3
  BY DEF TakesBack, l1, l2
<1> HIDE DEF l3
<1>6. LayoutOK(l3, dialogs \ ds, mounted)
  BY <1>2, <1>3, <1>4 DEF LayoutOK, OwnersShown, BehindIsBack
<1>7. QED
  BY <1>5, <1>6 DEF PlacesKept

LEMMA ClosedByIs ==
  ASSUME PlainKept, PlacesKept, NEW d \in Dialog, NEW a \in Behind, CloseBy(d, a), UNCHANGED mounted
  PROVE  PlacesKept'
<1>1. {d} \in SUBSET Dialog /\ dialogs' = dialogs \ {d} /\ layout' = TakesBack({d}, a)
  BY DEF CloseBy
<1>2. QED
  BY <1>1, TakesBackIs

\* The panel of filters, and the input it leads to.
LEMMA FilterClosedIs ==
  ASSUME PlainKept, PlacesKept, UNCHANGED <<dialogs, mounted>>, layout' = FilterClosed(layout)
  PROVE  PlacesKept'
<1>1. LayoutOK(FilterClosed(layout), dialogs, mounted)
  BY FilterClosedOK DEF PlainKept, PlacesKept
<1>2. QED
  BY <1>1 DEF PlacesKept

LEMMA FilterOpenedIs ==
  ASSUME PlainKept, PlacesKept, UNCHANGED <<dialogs, mounted>>,
         layout' = activateArea(useArea(layout, "filter", "browser"), "filter")
  PROVE  PlacesKept'
<1> DEFINE l1 == useArea(layout, "filter", "browser")
<1>1. mounted \in BOOLEAN /\ "filter" \in Area
  BY AreasAre DEF PlainKept
<1>2. LayoutOK(l1, dialogs, mounted)
  BY <1>1, UsedOK DEF PlacesKept
<1> HIDE DEF l1
<1>3. LayoutOK(activateArea(l1, "filter"), dialogs, mounted)
  BY <1>1, <1>2, ActivatedOK
<1>4. QED
  BY <1>3 DEF PlacesKept, l1

LEMMA CustomOpenedIs ==
  ASSUME PlainKept, PlacesKept, UNCHANGED mounted, dialogs' = dialogs \cup {"customFilter"},
         layout' = Mounts(dropArea(layout, "filter", "browser"), "customFilter")
  PROVE  PlacesKept'
<1> DEFINE l1 == dropArea(layout, "filter", "browser")
           l2 == Mounts(l1, "customFilter")
<1>1. l1 \in BrowserLayouts /\ OwnersShown(l1, dialogs) /\ \A a \in Behind : l1.owner[a] = layout.owner[a]
  BY DroppedIs DEF PlacesKept, LayoutOK
<1> HIDE DEF l1
<1>2. /\ l2 \in BrowserLayouts /\ OwnersShown(l2, dialogs \cup {"customFilter"})
      /\ \A a \in Behind : l2.owner[a] = l1.owner[a]
  BY <1>1, DialogsAre, MountsIs
<1>3. layout' = l2
  BY DEF l1
<1> HIDE DEF l2
<1>4. dialogs \cup {"customFilter"} \in SUBSET {"customFilter"} => dialogs \in SUBSET {"customFilter"}
  OBVIOUS
<1>5. LayoutOK(l2, dialogs \cup {"customFilter"}, mounted)
  BY <1>1, <1>2, <1>4 DEF PlacesKept, LayoutOK, BehindIsBack
<1>6. QED
  BY <1>3, <1>5 DEF PlacesKept

LEMMA CustomClosedIs ==
  ASSUME PlainKept, PlacesKept, UNCHANGED mounted, dialogs' = dialogs \ {"customFilter"},
         layout' = activateArea(useArea(Unmounts(layout, {"customFilter"}), "filter", "browser"), "filter")
  PROVE  PlacesKept'
<1> DEFINE l1 == Unmounts(layout, {"customFilter"})
           l2 == useArea(l1, "filter", "browser")
           l3 == activateArea(l2, "filter")
           ds == dialogs \ {"customFilter"}
<1>1. /\ l1 \in BrowserLayouts /\ OwnersShown(l1, ds)
      /\ \A a \in Area : l1.owner[a] = IF layout.owner[a] \in {"customFilter"} THEN Nobody ELSE layout.owner[a]
  BY DialogsAre, UnmountsIs DEF PlacesKept, LayoutOK
<1> HIDE DEF l1
<1>2. l2 \in BrowserLayouts /\ \A x \in Area : l2.owner[x] = IF x = "filter" THEN "browser" ELSE l1.owner[x]
  BY <1>1, AreasAre, UseIs DEF BrowserLayouts
<1> HIDE DEF l2
<1>3. l3 \in BrowserLayouts /\ l3.owner = l2.owner /\ l3.active = "filter"
  <2>1. "filter" \in Area /\ l2.owner["filter"] # Nobody
    BY <1>2, AreasAre, OwnersAre
  <2>2. QED
    BY <1>2, <2>1, ActivateIs DEF BrowserLayouts
<1>4. layout' = l3
  BY DEF l1, l2
<1> HIDE DEF l3, ds
<1>5. OwnersShown(l3, ds) /\ l3.owner[l3.active] = "browser"
  BY <1>1, <1>2, <1>3, AreasAre, OwnersAre DEF OwnersShown
<1>6. ds \in SUBSET {"customFilter"} => dialogs \in SUBSET {"customFilter"}
  BY DEF ds
<1>7. mounted /\ ds \in SUBSET {"customFilter"} => BehindIsBack(l3)
  BY <1>1, <1>2, <1>3, <1>6, AreasAre, DialogsAre, OwnersAre DEF PlacesKept, LayoutOK, BehindIsBack
<1>8. LayoutOK(l3, ds, mounted)
  BY <1>3, <1>5, <1>7, AreasAre DEF LayoutOK
<1>9. QED
  BY <1>4, <1>8 DEF PlacesKept, ds

LEMMA CustomConfirmedIs ==
  ASSUME PlainKept, PlacesKept, UNCHANGED mounted, "customFilter" \in dialogs, dialogs' = dialogs \ {"customFilter"},
         layout' = Unmounts(FilterClosed(layout), {"customFilter"})
  PROVE  PlacesKept'
<1> DEFINE l1 == FilterClosed(layout)
           l2 == Unmounts(l1, {"customFilter"})
           ds == dialogs \ {"customFilter"}
<1>1. /\ LayoutOK(l1, dialogs, mounted)
      /\ mounted /\ dialogs \in SUBSET {"customFilter"} => l1.active = "directory-actions"
  BY FilterClosedOK DEF PlainKept, PlacesKept
<1> HIDE DEF l1
<1>2. /\ l2 \in BrowserLayouts /\ OwnersShown(l2, ds)
      /\ \A a \in Area : l2.owner[a] = IF l1.owner[a] \in {"customFilter"} THEN Nobody ELSE l1.owner[a]
      /\ l1.active \in Area /\ l1.owner[l1.active] = "browser" => l2.active = l1.active
  BY <1>1, DialogsAre, UnmountsIs DEF LayoutOK
<1>3. layout' = l2
  BY DEF l1
<1> HIDE DEF l2, ds
<1>4. ds \in SUBSET {"customFilter"} => dialogs \in SUBSET {"customFilter"}
  BY DEF ds
<1>5. "directory-actions" \in Behind /\ "directory-actions" \in Area /\ "browser" \notin {"customFilter"}
  BY AreasAre DEF Behind
<1>6. ASSUME mounted, ds \in SUBSET {"customFilter"}
      PROVE  BehindIsBack(l2) /\ l2.active = "directory-actions" /\ l2.owner[l2.active] = "browser"
  <2>1. BehindIsBack(l1) /\ l1.active = "directory-actions"
    BY <1>1, <1>4, <1>6 DEF LayoutOK
  <2>2. BehindIsBack(l2)
    BY <1>2, <1>5, <2>1, AreasAre DEF BehindIsBack
  <2>3. QED
    BY <1>2, <1>5, <2>1, <2>2 DEF BehindIsBack
<1>7. ds = {} => ds \in SUBSET {"customFilter"}
  OBVIOUS
<1>8. LayoutOK(l2, ds, mounted)
  BY <1>2, <1>5, <1>6, <1>7 DEF LayoutOK
<1>9. QED
  BY <1>3, <1>8 DEF PlacesKept, ds

\* The breadcrumb, with the keyboard on it: an open editor goes.
LEMMA CrumbChosenIs ==
  ASSUME PlainKept, PlacesKept, UNCHANGED mounted, Keys("path"), dialogs' = dialogs \ {"editor"},
         layout' = IF "editor" \in dialogs THEN useAll(Unmounts(layout, {"editor"}), Behind, "browser") ELSE layout
  PROVE  PlacesKept'
<1>1. CASE "editor" \notin dialogs
  <2>1. dialogs' = dialogs
    BY <1>1
  <2>2. QED
    BY <1>1, <2>1 DEF PlacesKept
<1>2. CASE "editor" \in dialogs
  <2> DEFINE l1 == Unmounts(layout, {"editor"})
             l2 == useAll(l1, Behind, "browser")
             ds == dialogs \ {"editor"}
  <2>1. layout.active \in Area /\ layout.owner[layout.active] = "browser"
    BY AreasAre DEF Keys, Emits
  <2>2. /\ l1 \in BrowserLayouts /\ OwnersShown(l1, ds) /\ l1.active = layout.active
        /\ \A a \in Area : l1.owner[a] = IF layout.owner[a] \in {"editor"} THEN Nobody ELSE layout.owner[a]
    BY <2>1, DialogsAre, UnmountsIs DEF PlacesKept, LayoutOK
  <2> HIDE DEF l1
  <2>3. l1.owner[l1.active] = "browser"
    BY <2>1, <2>2
  <2>4. /\ l2 \in BrowserLayouts /\ OwnersShown(l2, ds) /\ BehindIsBack(l2) /\ l2.active = l1.active
        /\ \A a \in Area : l1.owner[a] = "browser" => l2.owner[a] = "browser"
    BY <2>2, BackIs
  <2>5. layout' = l2
    BY <1>2 DEF l1
  <2> HIDE DEF l2, ds
  <2>6. LayoutOK(l2, ds, mounted)
    BY <2>1, <2>2, <2>3, <2>4 DEF LayoutOK
  <2>7. QED
    BY <2>5, <2>6 DEF PlacesKept, ds
<1>3. QED
  BY <1>1, <1>2

-----------------------------------------------------------------------------
(* The steps of the browser. *)

LEMMA BrowserEventKept ==
  ASSUME PlainKept, Event
  PROVE  browserEvents' \in 0 .. MaxBrowserEvents
<1>1. browserEvents \in 0 .. MaxBrowserEvents /\ MaxBrowserEvents \in Nat
  BY BrowserAssumption DEF PlainKept
<1>2. QED
  BY <1>1 DEF Event

PlainSame == UNCHANGED <<props, dialogs, fileToDelete, mounted, itemToRename, browserEvents>>
PanelsOK == showNameFilter' \in BOOLEAN /\ showActions' \in BOOLEAN /\ showFilterPanel' \in BOOLEAN
LEMMA PlainSameKept ==
  ASSUME PlainKept, PlainSame, PanelsOK
  PROVE  PlainKept'
BY DEF PlainSame, PanelsOK, PlainKept


\* Keys and clicks that move within and between the areas.
LEMMA BrowserKeysKept ==
  ASSUME BrowserKept,
         ListUp \/ ListJump \/ ListRight \/ ItemHover \/ ActionsBack \/ DirectoryActionsMove \/ PathMoves \/
         NameFilterMoves \/ SaveFileNameMoves \/ NameTyped \/ EditorUp \/ toggleNameFilter
  PROVE  BrowserKept'
<1> USE DEF BrowserKept
<1>1. \A i \in 1 .. Len(filteredItems) : i - 1 \in 0 .. 2
  <2>1. Len(filteredItems) \in 0 .. 3
    BY FilteredAre
  <2> DEFINE n == Len(filteredItems)
  <2> HIDE DEF n
  <2>2. n \in 0 .. 3 => \A i \in 1 .. n : i - 1 \in 0 .. 2
    OBVIOUS
  <2>3. QED
    BY <2>1, <2>2 DEF n
<1>2. {"path", "name-filter", "save-filename", "filter", "directory-actions", "list", "actions", "editor-toolbar"} \in SUBSET Area
  BY AreasAre DEF Behind
<1> HIDE DEF BrowserKept
<1>3. FlightsKept /\ ListedKept /\ PlainKept /\ PlacesKept
  BY DEF BrowserKept
<1>4. CASE ListUp
  <2>1. RowsSame
    BY <1>1, <1>3, <1>4 DEF ListUp, RowsSame, ListedKept, OnlyFocus, listVars
  <2>2. PlainSame /\ PanelsOK
    BY <1>3, <1>4 DEF ListUp, PlainSame, PanelsOK, PlainKept, dialogVars, panelVars, OnlyFocus
  <2>3. PlacesSame \/ PlacesMove
    BY <1>2, <1>4 DEF ListUp, PlacesSame, PlacesMove, dialogVars, OnlyFocus
  <2>4. QED
    BY <1>3, <2>1, <2>2, <2>3, RowsSameKept, PlainSameKept, PlacesMoveKept DEF BrowserKept
<1>5. CASE ListJump
  <2>1. RowsSame
    <3>1. PICK i \in 1 .. Len(filteredItems) : selectedIndex' = i - 1
      BY <1>5 DEF ListJump
    <3>2. selectedIndex' \in 0 .. 2
      BY <1>1, <3>1
    <3>3. QED
      BY <1>3, <1>5, <3>2 DEF ListJump, RowsSame, ListedKept
  <2>2. PlainSame /\ PanelsOK
    BY <1>3, <1>5 DEF ListJump, PlainSame, PanelsOK, PlainKept, dialogVars, panelVars
  <2>3. PlacesSame \/ PlacesMove
    BY <1>2, <1>5 DEF ListJump, PlacesSame, PlacesMove, dialogVars
  <2>4. QED
    BY <1>3, <2>1, <2>2, <2>3, RowsSameKept, PlainSameKept, PlacesMoveKept DEF BrowserKept
<1>6. CASE ListRight
  <2>1. RowsSame
    BY <1>1, <1>3, <1>6 DEF ListRight, RowsSame, ListedKept, OnlyFocus, listVars
  <2>2. PlainSame /\ PanelsOK
    BY <1>3, <1>6 DEF ListRight, PlainSame, PanelsOK, PlainKept, dialogVars, panelVars, OnlyFocus
  <2>3. PlacesSame \/ PlacesMove
    BY <1>2, <1>6 DEF ListRight, PlacesSame, PlacesMove, dialogVars, OnlyFocus
  <2>4. QED
    BY <1>3, <2>1, <2>2, <2>3, RowsSameKept, PlainSameKept, PlacesMoveKept DEF BrowserKept
<1>7. CASE ItemHover
  <2>1. RowsSame
    <3>1. PICK i \in 1 .. Len(filteredItems) : selectedIndex' = i - 1
      BY <1>7 DEF ItemHover
    <3>2. selectedIndex' \in 0 .. 2
      BY <1>1, <3>1
    <3>3. QED
      BY <1>3, <1>7, <3>2 DEF ItemHover, RowsSame, ListedKept
  <2>2. PlainSame /\ PanelsOK
    BY <1>3, <1>7 DEF ItemHover, PlainSame, PanelsOK, PlainKept, dialogVars, panelVars
  <2>3. PlacesSame \/ PlacesMove
    BY <1>2, <1>7 DEF ItemHover, PlacesSame, PlacesMove, dialogVars
  <2>4. QED
    BY <1>3, <2>1, <2>2, <2>3, RowsSameKept, PlainSameKept, PlacesMoveKept DEF BrowserKept
<1>8. CASE ActionsBack
  <2>1. RowsSame
    BY <1>1, <1>3, <1>8 DEF ActionsBack, RowsSame, ListedKept, listVars
  <2>2. PlainSame /\ PanelsOK
    BY <1>3, <1>8 DEF ActionsBack, PlainSame, PanelsOK, PlainKept, dialogVars, panelVars
  <2>3. PlacesSame \/ PlacesMove
    BY <1>2, <1>8 DEF ActionsBack, PlacesSame, PlacesMove, dialogVars
  <2>4. QED
    BY <1>3, <2>1, <2>2, <2>3, RowsSameKept, PlainSameKept, PlacesMoveKept DEF BrowserKept
<1>9. CASE DirectoryActionsMove
  <2>1. RowsSame
    BY <1>1, <1>3, <1>9 DEF DirectoryActionsMove, RowsSame, ListedKept, OnlyFocus, listVars
  <2>2. PlainSame /\ PanelsOK
    BY <1>3, <1>9 DEF DirectoryActionsMove, PlainSame, PanelsOK, PlainKept, dialogVars, panelVars, OnlyFocus
  <2>3. PlacesSame \/ PlacesMove
    BY <1>2, <1>9 DEF DirectoryActionsMove, PlacesSame, PlacesMove, dialogVars, OnlyFocus
  <2>4. QED
    BY <1>3, <2>1, <2>2, <2>3, RowsSameKept, PlainSameKept, PlacesMoveKept DEF BrowserKept
<1>10. CASE PathMoves
  <2>1. RowsSame
    BY <1>1, <1>3, <1>10 DEF PathMoves, RowsSame, ListedKept, OnlyFocus, listVars
  <2>2. PlainSame /\ PanelsOK
    BY <1>3, <1>10 DEF PathMoves, PlainSame, PanelsOK, PlainKept, dialogVars, panelVars, OnlyFocus
  <2>3. PlacesSame \/ PlacesMove
    BY <1>2, <1>10 DEF PathMoves, PlacesSame, PlacesMove, dialogVars, OnlyFocus
  <2>4. QED
    BY <1>3, <2>1, <2>2, <2>3, RowsSameKept, PlainSameKept, PlacesMoveKept DEF BrowserKept
<1>11. CASE NameFilterMoves
  <2>1. RowsSame
    BY <1>1, <1>3, <1>11 DEF NameFilterMoves, RowsSame, ListedKept, OnlyFocus, listVars
  <2>2. PlainSame /\ PanelsOK
    BY <1>3, <1>11 DEF NameFilterMoves, PlainSame, PanelsOK, PlainKept, dialogVars, panelVars, OnlyFocus
  <2>3. PlacesSame \/ PlacesMove
    BY <1>2, <1>11 DEF NameFilterMoves, PlacesSame, PlacesMove, dialogVars, OnlyFocus
  <2>4. QED
    BY <1>3, <2>1, <2>2, <2>3, RowsSameKept, PlainSameKept, PlacesMoveKept DEF BrowserKept
<1>12. CASE SaveFileNameMoves
  <2>1. RowsSame
    BY <1>1, <1>3, <1>12 DEF SaveFileNameMoves, RowsSame, ListedKept, OnlyFocus, listVars
  <2>2. PlainSame /\ PanelsOK
    BY <1>3, <1>12 DEF SaveFileNameMoves, PlainSame, PanelsOK, PlainKept, dialogVars, panelVars, OnlyFocus
  <2>3. PlacesSame \/ PlacesMove
    BY <1>2, <1>12 DEF SaveFileNameMoves, PlacesSame, PlacesMove, dialogVars, OnlyFocus
  <2>4. QED
    BY <1>3, <2>1, <2>2, <2>3, RowsSameKept, PlainSameKept, PlacesMoveKept DEF BrowserKept
<1>13. CASE NameTyped
  <2>1. RowsSame
    BY <1>1, <1>3, <1>13 DEF NameTyped, RowsSame, ListedKept
  <2>2. PlainSame /\ PanelsOK
    BY <1>3, <1>13 DEF NameTyped, PlainSame, PanelsOK, PlainKept, dialogVars, panelVars
  <2>3. PlacesSame \/ PlacesMove
    BY <1>2, <1>13 DEF NameTyped, PlacesSame, PlacesMove, dialogVars
  <2>4. QED
    BY <1>3, <2>1, <2>2, <2>3, RowsSameKept, PlainSameKept, PlacesMoveKept DEF BrowserKept
<1>14. CASE EditorUp
  <2>1. RowsSame
    BY <1>1, <1>3, <1>14 DEF EditorUp, RowsSame, ListedKept, OnlyFocus, listVars
  <2>2. PlainSame /\ PanelsOK
    BY <1>3, <1>14 DEF EditorUp, PlainSame, PanelsOK, PlainKept, dialogVars, panelVars, OnlyFocus
  <2>3. PlacesSame \/ PlacesMove
    BY <1>2, <1>14 DEF EditorUp, PlacesSame, PlacesMove, dialogVars, OnlyFocus
  <2>4. QED
    BY <1>3, <2>1, <2>2, <2>3, RowsSameKept, PlainSameKept, PlacesMoveKept DEF BrowserKept
<1>15. CASE toggleNameFilter
  <2>1. RowsSame
    <3>1. CASE showNameFilter
      <4>1. nameFilter' = FALSE /\ selectedIndex' = 0 /\ UNCHANGED <<currentPath, listing, loading, failed, flight>>
        BY <1>15, <3>1 DEF toggleNameFilter
      <4>2. nameFilter' \in BOOLEAN
        BY <4>1, Zenon
      <4>3. selectedIndex' \in 0 .. 2
        BY <4>1
      <4>4. QED
        BY <4>1, <4>2, <4>3 DEF RowsSame
    <3>2. CASE ~showNameFilter
      <4>1. UNCHANGED <<nameFilter, selectedIndex>> /\ UNCHANGED <<currentPath, listing, loading, failed, flight>>
        BY <1>15, <3>2 DEF toggleNameFilter
      <4>2. QED
        BY <1>3, <4>1 DEF RowsSame, ListedKept
    <3>3. QED
      BY <3>1, <3>2
  <2>2. PlainSame /\ PanelsOK
    BY <1>3, <1>15 DEF toggleNameFilter, PlainSame, PanelsOK, PlainKept, dialogVars, panelVars
  <2>3. PlacesSame \/ PlacesMove
    BY <1>2, <1>15 DEF toggleNameFilter, PlacesSame, PlacesMove, dialogVars
  <2>4. QED
    BY <1>3, <2>1, <2>2, <2>3, RowsSameKept, PlainSameKept, PlacesMoveKept DEF BrowserKept
<1>16. QED
  BY <1>4, <1>5, <1>6, <1>7, <1>8, <1>9, <1>10, <1>11, <1>12, <1>13, <1>14, <1>15

\* The panel of filters, and the dialogs.
LEMMA PanelKept ==
  ASSUME BrowserKept, openFilterPanel \/ closeFilterPanel
  PROVE  BrowserKept'
<1>1. FlightsKept /\ ListedKept /\ PlainKept /\ PlacesKept
  BY DEF BrowserKept
<1>2. RowsSame
  BY <1>1 DEF openFilterPanel, closeFilterPanel, RowsSame, ListedKept, listVars
<1>3. PlainSame /\ PanelsOK
  BY <1>1 DEF openFilterPanel, closeFilterPanel, PlainSame, PanelsOK, PlainKept, dialogVars
<1>4. CASE openFilterPanel
  <2>1. PlacesKept'
    BY <1>1, <1>4, FilterOpenedIs DEF openFilterPanel, dialogVars
  <2>2. QED
    BY <1>1, <1>2, <1>3, <2>1, RowsSameKept, PlainSameKept DEF BrowserKept
<1>5. CASE closeFilterPanel
  <2>1. PlacesKept'
    BY <1>1, <1>5, FilterClosedIs DEF closeFilterPanel, dialogVars
  <2>2. QED
    BY <1>1, <1>2, <1>3, <2>1, RowsSameKept, PlainSameKept DEF BrowserKept
<1>6. QED
  BY <1>4, <1>5

LEMMA ShowsKept ==
  ASSUME BrowserKept, NEW d \in Dialog, d # "customFilter", Shows(d), showActions' \in BOOLEAN,
         fileToDelete' \in BOOLEAN, itemToRename' \in Names
  PROVE  BrowserKept'
<1>1. FlightsKept /\ ListedKept /\ PlainKept /\ PlacesKept
  BY DEF BrowserKept
<1>2. RowsSame
  BY <1>1 DEF Shows, RowsSame, ListedKept, listVars
<1>3. PlainKept'
  <2>1. browserEvents' \in 0 .. MaxBrowserEvents
    BY <1>1, BrowserEventKept DEF Shows
  <2>2. QED
    BY <1>1, <2>1 DEF Shows, PlainKept
<1>4. PlacesKept'
  <2>1. Unmounts(dropAll(layout, Behind, "browser"), {}) = dropAll(layout, Behind, "browser")
    <3>1. dropAll(layout, Behind, "browser") \in BrowserLayouts
      BY <1>1, AllDroppedIs, AreasAre DEF PlacesKept, LayoutOK
    <3>2. QED
      BY <3>1 DEF Unmounts, BrowserLayouts, LayoutsOf
  <2>2. (dialogs \ {}) \cup {d} = dialogs \cup {d}
    OBVIOUS
  <2>3. d \notin {} /\ {} \in SUBSET Dialog
    OBVIOUS
  <2>4. QED
    BY <1>1, <2>1, <2>2, <2>3, CoveredIs DEF Shows
<1>5. QED
  BY <1>1, <1>2, <1>3, <1>4, RowsSameKept DEF BrowserKept

LEMMA DialogsOpenKept ==
  ASSUME BrowserKept, ShowDirectoryDialog \/ ShowRenameDirectory \/ ShowFileDialog
  PROVE  BrowserKept'
<1>1. PlainKept
  BY DEF BrowserKept
<1>2. {"deleteDirectory", "newDirectory", "createFile", "rename", "deleteFile", "largeFile", "editor"} \in SUBSET Dialog
  BY DEF Dialog, Confirmed, Entered
<1>3. CASE ShowDirectoryDialog
  <2>1. PICK d \in {"deleteDirectory", "newDirectory", "createFile"} : Shows(d)
    BY <1>3 DEF ShowDirectoryDialog
  <2>2. showActions' \in BOOLEAN /\ fileToDelete' \in BOOLEAN /\ itemToRename' \in Names
    BY <1>1, <1>3 DEF ShowDirectoryDialog, PlainKept
  <2>3. d \in Dialog /\ d # "customFilter"
    BY <1>2
  <2>4. QED
    BY <2>1, <2>2, <2>3, ShowsKept
<1>4. CASE ShowRenameDirectory
  <2>1. Shows("rename")
    BY <1>4 DEF ShowRenameDirectory
  <2>2. showActions' \in BOOLEAN /\ fileToDelete' \in BOOLEAN /\ itemToRename' \in Names
    BY <1>1, <1>4 DEF ShowRenameDirectory, PlainKept, Names
  <2>3. QED
    BY <1>2, <2>1, <2>2, ShowsKept
<1>5. CASE ShowFileDialog
  <2>1. PICK d \in {"deleteFile", "rename", "largeFile", "editor"} : Shows(d)
    BY <1>5 DEF ShowFileDialog
  <2>2. showActions' \in BOOLEAN /\ fileToDelete' \in BOOLEAN /\ itemToRename' \in Names
    BY <1>1, <1>5 DEF ShowFileDialog, PlainKept, Names
  <2>3. d \in Dialog /\ d # "customFilter"
    BY <1>2
  <2>4. QED
    BY <2>1, <2>2, <2>3, ShowsKept
<1>6. QED
  BY <1>3, <1>4, <1>5

LEMMA LargeFileKept ==
  ASSUME BrowserKept, confirmLargeFileEdit
  PROVE  BrowserKept'
<1>1. FlightsKept /\ ListedKept /\ PlainKept /\ PlacesKept
  BY DEF BrowserKept
<1>2. RowsSame
  BY <1>1 DEF confirmLargeFileEdit, RowsSame, ListedKept, listVars
<1>3. "editor" \in Dialog /\ {"largeFile"} \in SUBSET Dialog /\ "editor" \notin {"largeFile"} /\ "editor" # "customFilter"
  BY DEF Dialog, Confirmed
<1>4. PlainKept'
  BY <1>1, <1>3 DEF confirmLargeFileEdit, PlainKept
<1>5. PlacesKept'
  BY <1>1, <1>3, CoveredIs DEF confirmLargeFileEdit
<1>6. QED
  BY <1>1, <1>2, <1>4, <1>5, RowsSameKept DEF BrowserKept

\* What closing a dialog leaves.
LEMMA ClosedByPlain ==
  ASSUME PlainKept, NEW d \in Dialog, NEW a, CloseBy(d, a)
  PROVE  dialogs' \in SUBSET Dialog /\ fileToDelete' \in BOOLEAN /\ itemToRename' \in Names
<1>1. (fileToDelete /\ d # "deleteFile") \in BOOLEAN
  OBVIOUS
<1>2. QED
  BY <1>1 DEF PlainKept, CloseBy, Names

LEMMA BackAreaIs == \A d : BackArea(d) \in Behind
BY DEF BackArea, Behind

LEMMA CancelKept ==
  ASSUME BrowserKept, Cancel
  PROVE  BrowserKept'
<1>1. FlightsKept /\ ListedKept /\ PlainKept /\ PlacesKept
  BY DEF BrowserKept
<1>2. RowsSame
  BY <1>1 DEF Cancel, RowsSame, ListedKept, listVars
<1>3. PICK d \in dialogs \ {"customFilter"} : CloseBy(d, BackArea(d))
  BY DEF Cancel
<1>4. d \in Dialog
  BY <1>1 DEF PlainKept
<1>5. PlainKept'
  <2>1. UNCHANGED <<props, panelVars, mounted, browserEvents>>
    BY DEF Cancel
  <2>2. QED
    BY <1>1, <1>3, <1>4, <2>1, ClosedByPlain DEF PlainKept, panelVars
<1>6. PlacesKept'
  BY <1>1, <1>3, <1>4, BackAreaIs, ClosedByIs DEF Cancel
<1>7. QED
  BY <1>1, <1>2, <1>5, <1>6, RowsSameKept DEF BrowserKept

LEMMA CustomKept ==
  ASSUME BrowserKept, openCustomFilterDialog \/ closeCustomFilterDialog
  PROVE  BrowserKept'
<1>1. FlightsKept /\ ListedKept /\ PlainKept /\ PlacesKept
  BY DEF BrowserKept
<1>2. RowsSame
  BY <1>1 DEF openCustomFilterDialog, closeCustomFilterDialog, RowsSame, ListedKept, listVars
<1>3. CASE openCustomFilterDialog
  <2>1. browserEvents' \in 0 .. MaxBrowserEvents
    BY <1>1, <1>3, BrowserEventKept DEF openCustomFilterDialog
  <2>2. PlainKept'
    BY <1>1, <1>3, <2>1, DialogsAre DEF openCustomFilterDialog, PlainKept, panelVars
  <2>3. PlacesKept'
    BY <1>1, <1>3, CustomOpenedIs DEF openCustomFilterDialog
  <2>4. QED
    BY <1>1, <1>2, <2>2, <2>3, RowsSameKept DEF BrowserKept
<1>4. CASE closeCustomFilterDialog
  <2>1. PlainKept'
    BY <1>1, <1>4 DEF closeCustomFilterDialog, PlainKept, panelVars
  <2>2. PlacesKept'
    BY <1>1, <1>4, CustomClosedIs DEF closeCustomFilterDialog
  <2>3. QED
    BY <1>1, <1>2, <2>1, <2>2, RowsSameKept DEF BrowserKept
<1>5. QED
  BY <1>3, <1>4

\* The browser is taken away.
LEMMA LeavesKept ==
  ASSUME BrowserKept, Leaves
  PROVE  BrowserKept'
<1>1. FlightsKept /\ ListedKept /\ PlainKept /\ PlacesKept
  BY DEF BrowserKept
<1>2. RowsSame
  BY <1>1 DEF Leaves, RowsSame, ListedKept, listVars
<1>3. PlainKept'
  BY <1>1 DEF Leaves, PlainKept, panelVars, dialogVars
<1>4. PlacesKept'
  BY <1>1, GoneIs DEF Leaves, dialogVars
<1>5. QED
  BY <1>1, <1>2, <1>3, <1>4, RowsSameKept DEF BrowserKept

-----------------------------------------------------------------------------
(* Requests of the user. *)

LEMMA LoadPlain ==
  ASSUME PlainKept, NEW dir, NEW name, loadDirectory(dir, name)
  PROVE  browserEvents' \in 0 .. MaxBrowserEvents
BY BrowserEventKept DEF loadDirectory

LEMMA ParentIs ==
  ASSUME ListedKept, currentPath > 0
  PROVE  currentPath - 1 \in Path /\ "directory" \in Names
BY BrowserAssumption DEF ListedKept, Path, Names

LEMMA ConfirmsKept ==
  ASSUME BrowserKept, ListConfirm
  PROVE  BrowserKept'
<1>1. FlightsKept /\ ListedKept /\ PlainKept /\ PlacesKept
  BY DEF BrowserKept
<1>2. CASE navigateInto(selectedItem) /\ UNCHANGED <<panelVars, layout>>
  <2>1. selectedItem \in HeldItems /\ selectedItem \in {"..", "directory"}
    BY <1>1, <1>2, FilteredAre DEF navigateInto
  <2>2. Target(selectedItem) \in Path /\ CameFrom(selectedItem) \in Names
    BY <1>1, <2>1, TargetIs
  <2>3. loadDirectory(Target(selectedItem), CameFrom(selectedItem))
    BY <1>2 DEF navigateInto
  <2>4. FlightsKept' /\ ListedKept' /\ browserEvents' \in 0 .. MaxBrowserEvents
    BY <1>1, <2>2, <2>3, LoadKept, LoadPlain
  <2>5. PlainKept'
    BY <1>1, <1>2, <2>4 DEF ListConfirm, PlainKept, panelVars, dialogVars
  <2>6. PlacesKept'
    BY <1>1, <1>2, PlacesMoveKept DEF ListConfirm, PlacesSame, dialogVars
  <2>7. QED
    BY <2>4, <2>5, <2>6 DEF BrowserKept
<1>3. CASE openActions(selectedItem) /\ UNCHANGED <<listVars, flight, browserEvents, showNameFilter, showFilterPanel>>
  <2>1. RowsSame
    BY <1>1, <1>3 DEF RowsSame, ListedKept, listVars
  <2>2. PlainSame /\ PanelsOK
    BY <1>1, <1>3 DEF ListConfirm, openActions, PlainSame, PanelsOK, PlainKept, dialogVars
  <2>3. PlacesMove
    BY <1>3, AreasAre DEF ListConfirm, openActions, PlacesMove, dialogVars, Behind
  <2>4. QED
    BY <1>1, <2>1, <2>2, <2>3, RowsSameKept, PlainSameKept, PlacesMoveKept DEF BrowserKept
<1>4. QED
  BY <1>2, <1>3 DEF ListConfirm

LEMMA ClicksKept ==
  ASSUME BrowserKept, ItemClick
  PROVE  BrowserKept'
<1>1. FlightsKept /\ ListedKept /\ PlainKept /\ PlacesKept
  BY DEF BrowserKept
<1>2. PICK i \in 1 .. Len(filteredItems) :
        \/ /\ navigateInto(filteredItems[i]) /\ showActions' = FALSE /\ Activates("list")
           /\ UNCHANGED <<showNameFilter, showFilterPanel>>
        \/ /\ openActions(filteredItems[i]) /\ selectedIndex' = i - 1
           /\ UNCHANGED <<currentPath, listing, loading, failed, nameFilter, flight, browserEvents, showNameFilter, showFilterPanel>>
  BY DEF ItemClick
<1>3. filteredItems[i] \in HeldItems /\ i - 1 \in 0 .. 2
  <2>1. Len(filteredItems) \in 0 .. 3 /\ filteredItems[i] \in HeldItems
    BY <1>1, FilteredAre
  <2> DEFINE n == Len(filteredItems)
  <2> HIDE DEF n
  <2>2. n \in 0 .. 3 /\ i \in 1 .. n => i - 1 \in 0 .. 2
    OBVIOUS
  <2>3. QED
    BY <2>1, <2>2 DEF n
<1> DEFINE item == filteredItems[i]
<1> HIDE DEF item
<1>4. PlacesMove
  BY <1>2, AreasAre DEF ItemClick, openActions, PlacesMove, dialogVars, Behind
<1>5. CASE /\ navigateInto(item) /\ showActions' = FALSE /\ UNCHANGED <<showNameFilter, showFilterPanel>>
  <2>1. Target(item) \in Path /\ CameFrom(item) \in Names
    BY <1>1, <1>3, <1>5, TargetIs DEF navigateInto, item
  <2>2. loadDirectory(Target(item), CameFrom(item))
    BY <1>5 DEF navigateInto
  <2>3. FlightsKept' /\ ListedKept' /\ browserEvents' \in 0 .. MaxBrowserEvents
    BY <1>1, <2>1, <2>2, LoadKept, LoadPlain
  <2>4. PlainKept'
    BY <1>1, <1>5, <2>3 DEF ItemClick, PlainKept, dialogVars
  <2>5. QED
    BY <1>1, <1>4, <2>3, <2>4, PlacesMoveKept DEF BrowserKept
<1>6. CASE /\ openActions(item) /\ selectedIndex' = i - 1
           /\ UNCHANGED <<currentPath, listing, loading, failed, nameFilter, flight, browserEvents, showNameFilter, showFilterPanel>>
  <2>1. RowsSame
    BY <1>1, <1>3, <1>6 DEF RowsSame, ListedKept
  <2>2. PlainSame /\ PanelsOK
    BY <1>1, <1>6 DEF ItemClick, openActions, PlainSame, PanelsOK, PlainKept, dialogVars
  <2>3. QED
    BY <1>1, <1>4, <2>1, <2>2, RowsSameKept, PlainSameKept, PlacesMoveKept DEF BrowserKept
<1>7. QED
  BY <1>2, <1>5, <1>6 DEF item

LEMMA BacksKept ==
  ASSUME BrowserKept, Back \/ Selects
  PROVE  BrowserKept'
<1>1. FlightsKept /\ ListedKept /\ PlainKept /\ PlacesKept
  BY DEF BrowserKept
<1>2. CASE Leaves
  BY <1>2, LeavesKept
<1>3. CASE Back /\ currentPath > 0
  <2>1. loadDirectory(currentPath - 1, "directory") /\ UNCHANGED <<props, panelVars, dialogVars, layout, mounted>>
    BY <1>3 DEF Back, navigateUp
  <2>2. FlightsKept' /\ ListedKept' /\ browserEvents' \in 0 .. MaxBrowserEvents
    BY <1>1, <1>3, <2>1, ParentIs, LoadKept, LoadPlain
  <2>3. PlainKept'
    BY <1>1, <2>1, <2>2 DEF PlainKept, panelVars, dialogVars
  <2>4. PlacesKept'
    BY <1>1, <2>1, PlacesMoveKept DEF PlacesSame, dialogVars
  <2>5. QED
    BY <2>2, <2>3, <2>4 DEF BrowserKept
<1>4. QED
  BY <1>2, <1>3 DEF Back, navigateUp, Selects

LEMMA FiltersLoad ==
  ASSUME BrowserKept, FilterSet \/ confirmCustomFilter \/ \E dir \in Path : handleBreadcrumbNavigate(dir)
  PROVE  BrowserKept'
<1>1. FlightsKept /\ ListedKept /\ PlainKept /\ PlacesKept
  BY DEF BrowserKept
<1>2. PICK dir \in Path : loadDirectory(dir, "none")
  BY <1>1 DEF FilterSet, confirmCustomFilter, handleBreadcrumbNavigate, ListedKept
<1>3. FlightsKept' /\ ListedKept' /\ browserEvents' \in 0 .. MaxBrowserEvents
  <2>1. "none" \in Names
    BY DEF Names
  <2>2. QED
    BY <1>1, <1>2, <2>1, LoadKept, LoadPlain
<1>4. PlainKept' /\ PlacesKept'
  <2>1. CASE FilterSet
    <3>1. PlainKept'
      BY <1>1, <1>3, <2>1 DEF FilterSet, PlainKept, dialogVars
    <3>2. PlacesKept'
      BY <1>1, <2>1, FilterClosedIs DEF FilterSet, dialogVars
    <3>3. QED
      BY <3>1, <3>2
  <2>2. CASE confirmCustomFilter
    <3>1. PlainKept'
      BY <1>1, <1>3, <2>2 DEF confirmCustomFilter, PlainKept
    <3>2. PlacesKept'
      BY <1>1, <2>2, CustomConfirmedIs DEF confirmCustomFilter
    <3>3. QED
      BY <3>1, <3>2
  <2>3. CASE \E crumb \in Path : handleBreadcrumbNavigate(crumb)
    <3>1. PlainKept'
      BY <1>1, <1>3, <2>3 DEF handleBreadcrumbNavigate, PlainKept, panelVars
    <3>2. PlacesKept'
      BY <1>1, <2>3, CrumbChosenIs DEF handleBreadcrumbNavigate
    <3>3. QED
      BY <3>1, <3>2
  <2>4. QED
    BY <2>1, <2>2, <2>3
<1>5. QED
  BY <1>3, <1>4 DEF BrowserKept

LEMMA RequestsFly ==
  ASSUME BrowserKept, OpenFile \/ \E what \in Operation : Confirm(what)
  PROVE  BrowserKept'
<1>1. FlightsKept /\ ListedKept /\ PlainKept /\ PlacesKept
  BY DEF BrowserKept
<1>2. browserEvents' \in 0 .. MaxBrowserEvents
  BY <1>1, BrowserEventKept DEF OpenFile, Confirm
<1>3. CASE OpenFile
  <2>1. [at |-> "operation", what |-> "open", path |-> currentPath, select |-> "none"] \in FlightType
    BY <1>1 DEF FlightType, ListedKept, Names
  <2>2. FlightsKept' /\ ListedKept'
    BY <1>1, <1>3, <2>1, FliesKept DEF OpenFile, ListedKept, listVars
  <2>3. PlainKept'
    BY <1>1, <1>2, <1>3 DEF OpenFile, PlainKept, dialogVars
  <2>4. PlacesKept'
    BY <1>1, <1>3, AreasAre, PlacesMoveKept DEF OpenFile, PlacesMove, dialogVars, Behind
  <2>5. QED
    BY <2>2, <2>3, <2>4 DEF BrowserKept
<1>4. ASSUME NEW what \in Operation, Confirm(what)
      PROVE  BrowserKept'
  <2>1. [at |-> "operation", what |-> what, path |-> currentPath,
         select |-> IF what = "rename" THEN itemToRename ELSE "none"] \in FlightType
    BY <1>1 DEF FlightType, ListedKept, PlainKept, Names
  <2>2. FlightsKept' /\ ListedKept'
    BY <1>1, <1>4, <2>1, FliesKept DEF Confirm, ListedKept, listVars
  <2>3. PlainKept'
    BY <1>1, <1>2, <1>4 DEF Confirm, PlainKept, dialogVars, panelVars
  <2>4. PlacesKept'
    BY <1>1, <1>4, PlacesMoveKept DEF Confirm, PlacesSame, dialogVars
  <2>5. QED
    BY <2>2, <2>3, <2>4 DEF BrowserKept
<1>5. QED
  BY <1>3, <1>4

-----------------------------------------------------------------------------
(* Answers. *)

\* What is left when a request has ended: the dialogs may go, the rest stays.
LEMMA FinishKept ==
  ASSUME PlainKept, PlacesKept, NEW what, Finish(what), UNCHANGED <<props, panelVars, mounted, browserEvents>>
  PROVE  PlainKept' /\ PlacesKept'
<1>1. CASE what \in Operation
  <2> DEFINE a == IF what \in {"newDirectory", "createFile"} THEN "list" ELSE BackArea(what)
  <2>1. what \in Dialog
    BY <1>1 DEF Operation, Dialog, Confirmed, Entered
  <2>2. a \in Behind
    BY BackAreaIs DEF Behind
  <2>3. CloseBy(what, a)
    BY <1>1 DEF Finish
  <2> HIDE DEF a
  <2>4. PlacesKept'
    BY <2>1, <2>2, <2>3, ClosedByIs
  <2>5. PlainKept'
    BY <2>1, <2>3, ClosedByPlain DEF PlainKept, panelVars
  <2>6. QED
    BY <2>4, <2>5
<1>2. CASE what \notin Operation
  <2>1. UNCHANGED <<dialogVars, layout>>
    BY <1>2 DEF Finish
  <2>2. PlacesKept'
    BY <2>1, PlacesMoveKept DEF PlacesSame, dialogVars
  <2>3. PlainKept'
    BY <2>1 DEF PlainKept, panelVars, dialogVars
  <2>4. QED
    BY <2>2, <2>3
<1>3. QED
  BY <1>1, <1>2

LEMMA StillKept ==
  ASSUME PlainKept, PlacesKept, UNCHANGED <<dialogVars, layout>>, UNCHANGED <<props, panelVars, mounted, browserEvents>>
  PROVE  PlainKept' /\ PlacesKept'
<1>1. PlacesKept'
  BY PlacesMoveKept DEF PlacesSame, dialogVars
<1>2. PlainKept'
  BY DEF PlainKept, panelVars, dialogVars
<1>3. QED
  BY <1>1, <1>2

LEMMA OpenedKept ==
  ASSUME PlainKept, PlacesKept, showActions' = FALSE, Activates("list"),
         UNCHANGED <<showNameFilter, showFilterPanel, dialogVars>>, UNCHANGED <<props, mounted, browserEvents>>
  PROVE  PlainKept' /\ PlacesKept'
<1>1. PlacesKept'
  BY AreasAre, PlacesMoveKept DEF PlacesMove, dialogVars, Behind
<1>2. PlainKept'
  BY DEF PlainKept, dialogVars
<1>3. QED
  BY <1>1, <1>2

LEMMA IntendsKept ==
  ASSUME FlightsKept, ListedKept, NEW i \in 1 .. MaxFlights, NEW dir \in Path, NEW name \in Names,
         Lists(i, dir, name), Intends(dir)
  PROVE  FlightsKept' /\ ListedKept'
<1>1. FlightsKept'
  BY ListsKept
<1>2. ListedKept'
  BY DEF ListedKept, Intends
<1>3. QED
  BY <1>1, <1>2

LEMMA OperationDone ==
  ASSUME BrowserKept, NEW i \in 1 .. MaxFlights, Succeeds(i)
  PROVE  BrowserKept'
<1>1. FlightsKept /\ ListedKept /\ PlainKept /\ PlacesKept
  BY DEF BrowserKept
<1> DEFINE what == flight[i].what
           dir == IF what = "deleteDirectory" THEN currentPath - 1 ELSE currentPath
           name == CASE what = "newDirectory" -> "directory"
                     [] what = "createFile" -> "file"
                     [] what = "rename" /\ flight[i].select = "file" -> "file"
                     [] OTHER -> "none"
<1>2. UNCHANGED <<props, mounted, browserEvents>>
  BY DEF Succeeds
<1>3. CASE what = "open"
  <2>1. /\ Ended(i) /\ showActions' = FALSE /\ Activates("list")
        /\ UNCHANGED <<listVars, showNameFilter, showFilterPanel, dialogVars>>
    BY <1>3 DEF Succeeds
  <2>2. FlightsKept' /\ ListedKept'
    BY <1>1, <2>1, EndedKept DEF ListedKept, listVars
  <2>3. PlainKept' /\ PlacesKept'
    BY <1>1, <1>2, <2>1, OpenedKept
  <2>4. QED
    BY <2>2, <2>3 DEF BrowserKept
<1>4. CASE what # "open" /\ Throws(what)
  <2>1. Ended(i) /\ UNCHANGED <<listVars, panelVars, dialogVars, layout>>
    BY <1>4 DEF Succeeds
  <2>2. FlightsKept' /\ ListedKept'
    BY <1>1, <2>1, EndedKept DEF ListedKept, listVars
  <2>3. PlainKept' /\ PlacesKept'
    BY <1>1, <1>2, <2>1, StillKept
  <2>4. QED
    BY <2>2, <2>3 DEF BrowserKept
<1>5. CASE what # "open" /\ ~Throws(what) /\ what = "deleteDirectory" /\ currentPath = 0
  <2>1. Ended(i) /\ Finish(what) /\ UNCHANGED listVars /\ UNCHANGED <<panelVars>>
    BY <1>5 DEF Succeeds
  <2>2. FlightsKept' /\ ListedKept'
    BY <1>1, <2>1, EndedKept DEF ListedKept, listVars
  <2>3. PlainKept' /\ PlacesKept'
    BY <1>1, <1>2, <2>1, FinishKept
  <2>4. QED
    BY <2>2, <2>3 DEF BrowserKept
<1>6. CASE what # "open" /\ ~Throws(what) /\ ~(what = "deleteDirectory" /\ currentPath = 0)
  <2>1. Intends(dir) /\ UNCHANGED <<dialogVars, layout>> /\ UNCHANGED <<panelVars>> /\ Lists(i, dir, name)
    BY <1>6 DEF Succeeds
  <2>2. name \in Names
    BY DEF Names
  <2>3. dir \in Path
    BY <1>1, <1>6, BrowserAssumption DEF ListedKept, Path
  <2> HIDE DEF what, dir, name
  <2>4. FlightsKept' /\ ListedKept'
    BY <1>1, <2>1, <2>2, <2>3, IntendsKept
  <2>5. PlainKept' /\ PlacesKept'
    BY <1>1, <1>2, <2>1, StillKept
  <2>6. QED
    BY <2>4, <2>5 DEF BrowserKept
<1>7. QED
  BY <1>3, <1>4, <1>5, <1>6

LEMMA OperationRefused ==
  ASSUME BrowserKept, NEW i \in 1 .. MaxFlights, Refused(i)
  PROVE  BrowserKept'
<1>1. FlightsKept /\ ListedKept /\ PlainKept /\ PlacesKept
  BY DEF BrowserKept
<1> DEFINE what == flight[i].what
<1>2. UNCHANGED <<props, mounted, browserEvents>> /\ Ended(i)
  BY DEF Refused
<1>3. FlightsKept'
  BY <1>1, <1>2, EndedKept
<1>4. CASE what = "open"
  <2>1. /\ failed' = TRUE /\ showActions' = FALSE /\ Activates("list")
        /\ UNCHANGED <<currentPath, listing, loading, selectedIndex, nameFilter>>
        /\ UNCHANGED <<showNameFilter, showFilterPanel, dialogVars>>
    BY <1>4 DEF Refused
  <2>2. ListedKept'
    BY <1>1, <2>1 DEF ListedKept
  <2>3. PlainKept' /\ PlacesKept'
    BY <1>1, <1>2, <2>1, OpenedKept
  <2>4. QED
    BY <1>3, <2>2, <2>3 DEF BrowserKept
<1>5. CASE what \in {"newDirectory", "createFile"}
  <2>1. UNCHANGED <<listVars, panelVars, dialogVars, layout>>
    BY <1>5 DEF Refused
  <2>2. ListedKept'
    BY <1>1, <2>1 DEF ListedKept, listVars
  <2>3. PlainKept' /\ PlacesKept'
    BY <1>1, <1>2, <2>1, StillKept
  <2>4. QED
    BY <1>3, <2>2, <2>3 DEF BrowserKept
<1>6. CASE what # "open" /\ what \notin {"newDirectory", "createFile"}
  <2>1. /\ failed' = TRUE /\ Finish(what)
        /\ UNCHANGED <<currentPath, listing, loading, selectedIndex, nameFilter, panelVars>>
    BY <1>6 DEF Refused
  <2>2. ListedKept'
    BY <1>1, <2>1 DEF ListedKept
  <2>3. PlainKept' /\ PlacesKept'
    BY <1>1, <1>2, <2>1, FinishKept
  <2>4. QED
    BY <1>3, <2>2, <2>3 DEF BrowserKept
<1>7. QED
  BY <1>4, <1>5, <1>6

LEMMA ListingsKept ==
  ASSUME BrowserKept, NEW i \in 1 .. MaxFlights, Loaded(i) \/ LoadFails(i) \/ Denied(i)
  PROVE  BrowserKept'
<1>1. FlightsKept /\ ListedKept /\ PlainKept /\ PlacesKept
  BY DEF BrowserKept
<1>2. UNCHANGED <<props, panelVars, mounted, browserEvents>>
  BY DEF Loaded, LoadFails, Denied, Listing
<1>3. flight[i].path \in Path
  BY <1>1 DEF FlightsKept, FlightType
<1>4. CASE Loaded(i)
  <2>1. /\ Ended(i) /\ Finish(flight[i].what) /\ UNCHANGED <<failed, nameFilter>> /\ loading' = FALSE
        /\ currentPath' = flight[i].path /\ listing' = [what |-> "all", dir |-> flight[i].path]
        /\ selectedIndex' = IndexOf(flight[i].select, Items')
    BY <1>4 DEF Loaded
  <2>2. selectedIndex' \in 0 .. 2
    BY <2>1, IndexIs
  <2>3. ListedKept'
    BY <1>1, <1>3, <2>1, <2>2 DEF ListedKept
  <2>4. QED
    BY <1>1, <1>2, <2>1, <2>3, EndedKept, FinishKept DEF BrowserKept
<1>5. CASE LoadFails(i)
  <2>1. /\ Ended(i) /\ Finish(flight[i].what) /\ UNCHANGED <<currentPath, nameFilter>> /\ loading' = FALSE /\ failed' = TRUE
        /\ listing' \in {[what |-> "up", dir |-> currentPath], [what |-> "none", dir |-> currentPath]}
        /\ selectedIndex' \in {0, selectedIndex}
    BY <1>5 DEF LoadFails
  <2>2. ListedKept'
    <3>1. listing' \in [what : {"all", "up", "none"}, dir : Path]
      BY <1>1, <2>1 DEF ListedKept
    <3>2. selectedIndex' \in 0 .. 2
      BY <1>1, <2>1 DEF ListedKept
    <3>3. loading' \in BOOLEAN /\ failed' \in BOOLEAN /\ nameFilter' \in BOOLEAN /\ currentPath' \in Path
      BY <1>1, <2>1, Zenon DEF ListedKept
    <3>4. QED
      BY <3>1, <3>2, <3>3 DEF ListedKept
  <2>3. QED
    BY <1>1, <1>2, <2>1, <2>2, EndedKept, FinishKept DEF BrowserKept
<1>6. CASE Denied(i) /\ currentPath = 0
  <2>1. /\ Ended(i) /\ Finish(flight[i].what) /\ loading' = FALSE
        /\ UNCHANGED <<currentPath, listing, failed, selectedIndex, nameFilter>>
    BY <1>6 DEF Denied
  <2>2. ListedKept'
    BY <1>1, <2>1 DEF ListedKept
  <2>3. QED
    BY <1>1, <1>2, <2>1, <2>2, EndedKept, FinishKept DEF BrowserKept
<1>7. CASE Denied(i) /\ currentPath # 0
  <2>1. Lists(i, currentPath - 1, "none") /\ Intends(currentPath - 1) /\ UNCHANGED <<dialogVars, layout>>
    BY <1>7 DEF Denied
  <2>2. currentPath - 1 \in Path /\ "none" \in Names
    BY <1>1, <1>7, BrowserAssumption DEF ListedKept, Path, Names
  <2>3. FlightsKept' /\ ListedKept'
    BY <1>1, <2>1, <2>2, IntendsKept
  <2>4. PlainKept' /\ PlacesKept'
    BY <1>1, <1>2, <2>1, StillKept
  <2>5. QED
    BY <2>3, <2>4 DEF BrowserKept
<1>8. QED
  BY <1>4, <1>5, <1>6, <1>7

-----------------------------------------------------------------------------
LEMMA BrowserStartHolds == BrowserInit => BrowserKept
<1> SUFFICES ASSUME BrowserInit
             PROVE  BrowserKept
  OBVIOUS
<1> DEFINE zone == Behind \cup {"path", "name-filter"} \cup (IF props.save THEN {"save-filename"} ELSE {})
           l1 == EmptyLayout(Area)
           l2 == useAll(l1, zone, "browser")
           l3 == activateArea(l2, "list")
<1>1. layout = l3 /\ mounted = TRUE /\ dialogs = {}
  BY DEF BrowserInit
<1>2. zone \in SUBSET Area /\ Behind \in SUBSET zone /\ "list" \in Behind /\ "list" \in Area
  BY AreasAre DEF Behind
<1>3. l1 \in BrowserLayouts /\ \A a \in Area : l1.owner[a] = Nobody
  BY DEF EmptyLayout, BrowserLayouts, LayoutsOf
<1> HIDE DEF zone, l1
<1>4. l2 \in BrowserLayouts /\ \A a \in Area : l2.owner[a] = IF a \in zone THEN "browser" ELSE l1.owner[a]
  BY <1>2, <1>3, UseAllIs DEF BrowserLayouts
<1> HIDE DEF l2
<1>5. l2.owner["list"] = "browser"
  BY <1>2, <1>4
<1>6. l3 \in BrowserLayouts /\ l3.owner = l2.owner /\ l3.active = "list"
  BY <1>2, <1>4, <1>5, OwnersAre, ActivateIs DEF BrowserLayouts
<1> HIDE DEF l3
<1>7. OwnersShown(l3, {}) /\ BehindIsBack(l3)
  BY <1>2, <1>3, <1>4, <1>6, OwnersAre, AreasAre DEF OwnersShown, BehindIsBack
<1>8. PlacesKept
  BY <1>1, <1>2, <1>5, <1>6, <1>7 DEF PlacesKept, LayoutOK
<1>9. FlightsKept
  <2>1. 1 \in Path
    BY BrowserAssumption DEF Path
  <2>2. NoFlight \in FlightType /\ [at |-> "list", what |-> "browse", path |-> 1, select |-> "none"] \in FlightType
    BY <2>1, BrowserAssumption DEF NoFlight, FlightType, Path, Names
  <2>3. QED
    BY <2>2 DEF BrowserInit, FlightsKept
<1>10. ListedKept
  <2>1. currentPath \in Path /\ selectedIndex \in 0 .. 2
    BY BrowserAssumption DEF BrowserInit, Path
  <2>2. listing \in [what : {"all", "up", "none"}, dir : Path]
    BY BrowserAssumption DEF BrowserInit, Path
  <2>3. loading \in BOOLEAN /\ failed \in BOOLEAN /\ nameFilter \in BOOLEAN
    BY Zenon DEF BrowserInit
  <2>4. QED
    BY <2>1, <2>2, <2>3 DEF ListedKept
<1>11. PlainKept
  <2>1. props \in [directoriesOnly : BOOLEAN, save : BOOLEAN] /\ dialogs \in SUBSET Dialog
    BY DEF BrowserInit
  <2>2. /\ showNameFilter \in BOOLEAN /\ showActions \in BOOLEAN /\ showFilterPanel \in BOOLEAN
        /\ fileToDelete \in BOOLEAN /\ mounted \in BOOLEAN
    BY Zenon DEF BrowserInit
  <2>3. itemToRename \in Names /\ browserEvents \in 0 .. MaxBrowserEvents
    BY BrowserAssumption DEF BrowserInit, Names
  <2>4. QED
    BY <2>1, <2>2, <2>3 DEF PlainKept
<1>12. QED
  BY <1>8, <1>9, <1>10, <1>11 DEF BrowserKept

LEMMA BrowserStepHolds == BrowserKept /\ [BrowserNext]_browserVars => BrowserKept'
<1> SUFFICES ASSUME BrowserKept, [BrowserNext]_browserVars
             PROVE  BrowserKept'
  OBVIOUS
<1>1. FlightsKept /\ ListedKept /\ PlainKept /\ PlacesKept
  BY DEF BrowserKept
<1>2. CASE UNCHANGED browserVars
  <2>1. UNCHANGED <<dialogVars, layout>> /\ UNCHANGED <<props, panelVars, mounted, browserEvents>> /\ UNCHANGED <<listVars, flight>>
    BY <1>2, Zenon DEF browserVars
  <2>2. FlightsKept' /\ ListedKept'
    BY <1>1, <2>1 DEF FlightsKept, ListedKept, listVars
  <2>3. PlainKept' /\ PlacesKept'
    BY <1>1, <2>1, StillKept
  <2>4. QED
    BY <2>2, <2>3 DEF BrowserKept
<1>3. DOMAIN flight = 1 .. MaxFlights
  BY <1>1 DEF FlightsKept
<1>4. CASE ListUp \/ ListJump \/ ListRight \/ ItemHover \/ ActionsBack \/ DirectoryActionsMove \/ PathMoves \/
           NameFilterMoves \/ SaveFileNameMoves \/ NameTyped \/ EditorUp \/ toggleNameFilter
  BY <1>4, BrowserKeysKept, Zenon
<1>5. CASE openFilterPanel \/ closeFilterPanel
  BY <1>5, PanelKept, Zenon
<1>6. CASE ShowDirectoryDialog \/ ShowRenameDirectory \/ ShowFileDialog
  BY <1>6, DialogsOpenKept, Zenon
<1>7. CASE confirmLargeFileEdit \/ Cancel
  BY <1>7, LargeFileKept, CancelKept, Zenon
<1>8. CASE openCustomFilterDialog \/ closeCustomFilterDialog
  BY <1>8, CustomKept, Zenon
<1>9. CASE ListConfirm \/ ItemClick \/ Back \/ Selects
  BY <1>9, ConfirmsKept, ClicksKept, BacksKept, Zenon
<1>10. CASE FilterSet \/ confirmCustomFilter \/ \E crumb \in Path : handleBreadcrumbNavigate(crumb)
  BY <1>10, FiltersLoad, Zenon
<1>11. CASE OpenFile \/ \E what \in Operation : Confirm(what)
  BY <1>11, RequestsFly, Zenon
<1>12. CASE \E i \in 1 .. MaxFlights : Succeeds(i) \/ Refused(i) \/ Loaded(i) \/ Denied(i) \/ LoadFails(i)
  BY <1>12, OperationDone, OperationRefused, ListingsKept, Zenon
<1>13. CASE BrowserNext
  BY <1>3, <1>4, <1>5, <1>6, <1>7, <1>8, <1>9, <1>10, <1>11, <1>12, <1>13, Zenon DEF BrowserNext
<1>14. QED
  BY <1>2, <1>13

-----------------------------------------------------------------------------
(* The page of a download: who has its areas with what shown in its place  *)
(* or over it.                                                             *)

DetailOwner == {Nobody, "detail", "browser", "export", "move", "dialog"}
DetailLayouts == LayoutsOf(DetailArea, DetailOwner)
Pages == {"browser", "export", "move"}
OwnersOwn(l) == \A a \in DetailArea : l.owner[a] = "detail" => a \in Own
\* By itself it has its areas, and the keyboard is somewhere: lost at most with
\* a dialog, while the download is away, that comes back with it.
AloneOK(l, present, dd, pd) ==
  /\ \A a \in Own : l.owner[a] = "detail"
  /\ (l.active = "delete-dialog" => dd) /\ (l.active = "peer-detail-dialog" => pd)
  /\ l.active = NoArea => ~present /\ (dd \/ pd)
  /\ l.active # NoArea => l.owner[l.active] # Nobody
\* With a page in its place it has nothing, and that page what it asks for.
InPlaceOK(l, present, pg) ==
  /\ \A a \in Own : l.owner[a] = Nobody \/ (l.owner[a] = pg /\ a \in PageAreas(pg))
  /\ present => (\A a \in PageAreas(pg) : l.owner[a] = pg) /\ l.active = MainArea(pg)
DetailOK(l, present, pg, dd, pd) ==
  /\ l \in DetailLayouts /\ OwnersOwn(l)
  /\ pg = "none" => AloneOK(l, present, dd, pd)
  /\ pg # "none" => InPlaceOK(l, present, pg)

LEMMA DetailOwnersAre == /\ Nobody \in DetailOwner /\ "detail" \in DetailOwner /\ "dialog" \in DetailOwner
                         /\ \A p \in Pages : p \in DetailOwner /\ p # "detail" /\ p # Nobody /\ p # "none"
                         /\ "detail" # Nobody /\ "dialog" # Nobody /\ "dialog" # "detail"
                         /\ DetailOwner = {Nobody, "detail", "browser", "export", "move", "dialog"}
BY DEF DetailOwner, Pages, Nobody
LEMMA DetailAreasAre == /\ Own \in SUBSET DetailArea /\ NoArea \notin DetailArea /\ "toolbar" \in Own /\ "peerlist" \in Own
                        /\ DialogAreas \in SUBSET DetailArea /\ "delete-dialog" \in DialogAreas /\ "peer-detail-dialog" \in DialogAreas
                        /\ \A a \in DialogAreas : a \notin Own
BY DEF Own, DetailArea, NoArea, DialogAreas
LEMMA PagesAre == \A p \in Pages : /\ PageAreas(p) \in SUBSET DetailArea /\ MainArea(p) \in PageAreas(p)
                                   /\ "toolbar" \notin PageAreas(p) /\ "peerlist" \notin PageAreas(p)
                                   /\ \A a \in DialogAreas : a \notin PageAreas(p)
BY DEF Pages, PageAreas, MainArea, DetailArea, Own, DialogAreas

\* The keyboard goes to one of its own areas.
LEMMA FocusOK ==
  ASSUME NEW l, NEW present, NEW dd, NEW pd, DetailOK(l, present, "none", dd, pd), NEW a \in Own
  PROVE  /\ activateArea(l, a).owner = l.owner /\ activateArea(l, a).active = a
         /\ \A present2, dd2, pd2 : DetailOK(activateArea(l, a), present2, "none", dd2, pd2)
<1> DEFINE r == activateArea(l, a)
<1>1. l \in DetailLayouts /\ OwnersOwn(l) /\ \A x \in Own : l.owner[x] = "detail"
  BY DEF DetailOK, AloneOK
<1>2. a \in DetailArea /\ l.owner[a] # Nobody /\ a # NoArea
  BY <1>1, DetailAreasAre, DetailOwnersAre
<1>3. r \in DetailLayouts /\ r.owner = l.owner /\ r.active = a
  BY <1>1, <1>2, ActivateIs DEF DetailLayouts
<1> HIDE DEF r
<1>4. a # "delete-dialog" /\ a # "peer-detail-dialog"
  BY DEF Own
<1>5. OwnersOwn(r)
  BY <1>1, <1>3 DEF OwnersOwn
<1>6. \A present2, dd2, pd2 : AloneOK(r, present2, dd2, pd2)
  BY <1>1, <1>2, <1>3, <1>4 DEF AloneOK
<1>7. \A present2, dd2, pd2 : DetailOK(r, present2, "none", dd2, pd2)
  BY <1>3, <1>5, <1>6 DEF DetailOK
<1>8. QED
  BY <1>3, <1>7 DEF r

\* A dialog is taken down.
LEMMA TakenDownOK ==
  ASSUME NEW l, NEW present, NEW pg \in Pages \cup {"none"}, NEW dd, NEW pd, DetailOK(l, present, pg, dd, pd),
         NEW area \in DialogAreas, NEW next \in {"toolbar", "peerlist"}, NEW dd2, NEW pd2
  PROVE  DetailOK(dropArea(activateArea(l, next), area, "dialog"), present, pg, dd2, pd2)
<1> DEFINE l1 == activateArea(l, next)
           r == dropArea(l1, area, "dialog")
<1>1. l \in DetailLayouts /\ OwnersOwn(l) /\ next \in Own /\ next \in DetailArea /\ area \in DetailArea /\ area \notin Own
  BY DetailAreasAre DEF DetailOK
<1>2. /\ l1 \in DetailLayouts /\ l1.owner = l.owner
      /\ l1.active = IF l.owner[next] # Nobody THEN next ELSE l.active
  BY <1>1, ActivateIs DEF DetailLayouts
<1> HIDE DEF l1
<1>3. /\ r \in DetailLayouts
      /\ r.active = IF l1.active = area /\ l1.owner[area] = "dialog" THEN NoArea ELSE l1.active
      /\ \A x \in DetailArea : r.owner[x] = IF x = area /\ l1.owner[area] = "dialog" THEN Nobody ELSE l1.owner[x]
  BY <1>1, <1>2, DetailOwnersAre, DropIs DEF DetailLayouts
<1> HIDE DEF r
<1>4. OwnersOwn(r) /\ \A a \in Own : r.owner[a] = l.owner[a]
  BY <1>1, <1>2, <1>3, DetailAreasAre, DetailOwnersAre DEF OwnersOwn
<1>5. CASE pg = "none"
  <2>1. \A a \in Own : l.owner[a] = "detail"
    BY <1>5 DEF DetailOK, AloneOK
  <2>2. r.active = next /\ r.owner[next] = "detail"
    BY <1>1, <1>2, <1>3, <1>4, <2>1, DetailOwnersAre
  <2>3. next # "delete-dialog" /\ next # "peer-detail-dialog" /\ next # NoArea
    BY DEF NoArea
  <2>4. AloneOK(r, present, dd2, pd2)
    BY <1>4, <2>1, <2>2, <2>3, DetailOwnersAre DEF AloneOK
  <2>5. QED
    BY <1>3, <1>4, <1>5, <2>4 DEF DetailOK, r, l1
<1>6. CASE pg # "none"
  <2>1. InPlaceOK(l, present, pg) /\ pg \in Pages
    BY <1>6 DEF DetailOK
  <2>2. l.owner[next] = Nobody
    BY <1>1, <2>1, PagesAre DEF InPlaceOK
  <2>3. l1.active = l.active
    BY <1>2, <2>2
  <2>4. ASSUME present
        PROVE  r.active = MainArea(pg) /\ \A a \in PageAreas(pg) : r.owner[a] = pg
    <3>1. l.active = MainArea(pg) /\ \A a \in PageAreas(pg) : l.owner[a] = pg
      BY <2>1, <2>4 DEF InPlaceOK
    <3>2. l.active # area /\ \A a \in PageAreas(pg) : a # area /\ a \in DetailArea
      BY <2>1, <3>1, PagesAre
    <3>3. QED
      BY <1>2, <1>3, <2>3, <3>1, <3>2
  <2>5. InPlaceOK(r, present, pg)
    BY <1>4, <2>1, <2>4 DEF InPlaceOK
  <2>6. QED
    BY <1>3, <1>4, <1>6, <2>5 DEF DetailOK, r, l1
<1>7. QED
  BY <1>5, <1>6

\* A dialog over the page.
LEMMA MountedOK ==
  ASSUME NEW l, NEW present, NEW dd, NEW pd, DetailOK(l, present, "none", dd, pd), NEW area \in DialogAreas,
         NEW dd2, NEW pd2, area = "delete-dialog" => dd2, area = "peer-detail-dialog" => pd2
  PROVE  \A present2 : DetailOK(MountDialog(l, area), present2, "none", dd2, pd2)
<1> DEFINE l1 == useArea(l, area, "dialog")
           r == activateArea(l1, area)
<1>1. l \in DetailLayouts /\ OwnersOwn(l) /\ area \in DetailArea /\ area \notin Own /\ \A x \in Own : l.owner[x] = "detail"
  BY DetailAreasAre DEF DetailOK, AloneOK
<1>2. /\ l1 \in DetailLayouts
      /\ \A x \in DetailArea : l1.owner[x] = IF x = area THEN "dialog" ELSE l.owner[x]
  BY <1>1, DetailOwnersAre, UseIs DEF DetailLayouts
<1> HIDE DEF l1
<1>3. l1.owner[area] = "dialog"
  BY <1>1, <1>2
<1>4. r \in DetailLayouts /\ r.owner = l1.owner /\ r.active = area
  BY <1>1, <1>2, <1>3, DetailOwnersAre, ActivateIs DEF DetailLayouts
<1>5. MountDialog(l, area) = r
  BY DEF MountDialog, l1
<1> HIDE DEF r
<1>6. OwnersOwn(r) /\ \A a \in Own : r.owner[a] = "detail"
  BY <1>1, <1>2, <1>4, DetailAreasAre, DetailOwnersAre DEF OwnersOwn
<1>7. area # NoArea
  BY <1>1, DetailAreasAre
<1>8. \A present2 : AloneOK(r, present2, dd2, pd2)
  BY <1>3, <1>4, <1>6, <1>7, DetailOwnersAre DEF AloneOK
<1>9. QED
  BY <1>4, <1>5, <1>6, <1>8 DEF DetailOK

\* A page in its place: what it had it gives up, and the page takes what it asks for.
LEMMA MountedPageIs ==
  ASSUME NEW l \in DetailLayouts, OwnersOwn(l), NEW p \in Pages,
         \A a \in Own : l.owner[a] = Nobody \/ (l.owner[a] = p /\ a \in PageAreas(p))
  PROVE  \A present, dd, pd : DetailOK(MountPage(l, p), present, p, dd, pd)
<1> DEFINE l1 == useAll(l, PageAreas(p), p)
           r == activateArea(l1, MainArea(p))
<1>1. PageAreas(p) \in SUBSET DetailArea /\ MainArea(p) \in PageAreas(p) /\ p \in DetailOwner /\ p # "none" /\ p # Nobody /\ p # "detail"
  BY PagesAre, DetailOwnersAre
<1>2. l1 \in DetailLayouts /\ \A x \in DetailArea : l1.owner[x] = IF x \in PageAreas(p) THEN p ELSE l.owner[x]
  BY <1>1, UseAllIs DEF DetailLayouts
<1> HIDE DEF l1
<1>3. MainArea(p) \in DetailArea /\ l1.owner[MainArea(p)] # Nobody
  BY <1>1, <1>2
<1>4. r \in DetailLayouts /\ r.owner = l1.owner /\ r.active = MainArea(p)
  BY <1>2, <1>3, ActivateIs DEF DetailLayouts
<1>5. MountPage(l, p) = r
  BY <1>1 DEF MountPage, l1
<1> HIDE DEF r
<1>6. OwnersOwn(r)
  BY <1>1, <1>2, <1>4 DEF OwnersOwn
<1>7. \A a \in Own : r.owner[a] = Nobody \/ (r.owner[a] = p /\ a \in PageAreas(p))
  BY <1>2, <1>4, DetailAreasAre
<1>8. \A a \in PageAreas(p) : r.owner[a] = p
  BY <1>1, <1>2, <1>4
<1>9. \A present : InPlaceOK(r, present, p)
  BY <1>4, <1>7, <1>8 DEF InPlaceOK
<1>10. QED
  BY <1>1, <1>4, <1>5, <1>6, <1>9 DEF DetailOK

LEMMA OpenedOK ==
  ASSUME NEW l, NEW present \in BOOLEAN, NEW dd, NEW pd, DetailOK(l, present, "none", dd, pd), NEW p \in Pages
  PROVE  DetailOK(IF present THEN MountPage(UnregisterOwn(l), p) ELSE UnregisterOwn(l), present, p, dd, pd)
<1> DEFINE r == UnregisterOwn(l)
<1>1. l \in DetailLayouts /\ OwnersOwn(l) /\ \A x \in Own : l.owner[x] = "detail"
  BY DEF DetailOK, AloneOK
<1>2. /\ r \in DetailLayouts
      /\ \A x \in DetailArea : r.owner[x] = IF x \in Own /\ l.owner[x] = "detail" THEN Nobody ELSE l.owner[x]
  BY <1>1, DetailAreasAre, DetailOwnersAre, DropAllIs DEF UnregisterOwn, DetailLayouts
<1> HIDE DEF r
<1>3. OwnersOwn(r) /\ \A a \in Own : r.owner[a] = Nobody
  BY <1>1, <1>2, DetailAreasAre, DetailOwnersAre DEF OwnersOwn
<1>4. CASE present
  <2>1. DetailOK(MountPage(r, p), present, p, dd, pd)
    BY <1>2, <1>3, MountedPageIs
  <2>2. QED
    BY <1>4, <2>1 DEF r
<1>5. CASE ~present
  <2>1. InPlaceOK(r, present, p)
    BY <1>3, <1>5 DEF InPlaceOK
  <2>2. DetailOK(r, present, p, dd, pd)
    BY <1>2, <1>3, <2>1, DetailOwnersAre DEF DetailOK
  <2>3. QED
    BY <1>5, <2>2 DEF r
<1>6. QED
  BY <1>4, <1>5

\* It takes its areas back before the page in its place drops them.
LEMMA RegisteredIs ==
  ASSUME NEW l \in DetailLayouts, OwnersOwn(l)
  PROVE  /\ RegisterOwn(l) \in DetailLayouts /\ OwnersOwn(RegisterOwn(l))
         /\ (\A a \in Own : RegisterOwn(l).owner[a] = "detail") /\ RegisterOwn(l).active = "toolbar"
<1> DEFINE l1 == useAll(l, Own, "detail")
           r == activateArea(l1, "toolbar")
<1>1. l1 \in DetailLayouts /\ \A x \in DetailArea : l1.owner[x] = IF x \in Own THEN "detail" ELSE l.owner[x]
  BY DetailAreasAre, DetailOwnersAre, UseAllIs DEF DetailLayouts
<1> HIDE DEF l1
<1>2. "toolbar" \in DetailArea /\ l1.owner["toolbar"] # Nobody
  BY <1>1, DetailAreasAre, DetailOwnersAre
<1>3. r \in DetailLayouts /\ r.owner = l1.owner /\ r.active = "toolbar"
  BY <1>1, <1>2, ActivateIs DEF DetailLayouts
<1>4. RegisterOwn(l) = r
  BY DEF RegisterOwn, l1
<1> HIDE DEF r
<1>5. OwnersOwn(r) /\ \A a \in Own : r.owner[a] = "detail"
  BY <1>1, <1>3, DetailAreasAre DEF OwnersOwn
<1>6. QED
  BY <1>3, <1>4, <1>5

LEMMA AloneIs ==
  ASSUME NEW l \in DetailLayouts, OwnersOwn(l), \A a \in Own : l.owner[a] = "detail", l.active = "toolbar"
  PROVE  \A present, dd, pd : DetailOK(l, present, "none", dd, pd)
<1>1. l.active # NoArea /\ l.owner[l.active] # Nobody
  BY DetailAreasAre, DetailOwnersAre
<1>2. \A present, dd, pd : AloneOK(l, present, dd, pd)
  BY <1>1 DEF AloneOK
<1>3. QED
  BY <1>2 DEF DetailOK

LEMMA ClosedOK ==
  ASSUME NEW l, NEW present, NEW pg \in Pages, NEW dd, NEW pd, DetailOK(l, present, pg, dd, pd)
  PROVE  DetailOK(UnmountPage(RegisterOwn(l), pg), present, "none", dd, pd)
<1> DEFINE l1 == RegisterOwn(l)
           r == UnmountPage(l1, pg)
<1>1. /\ l1 \in DetailLayouts /\ OwnersOwn(l1) /\ (\A a \in Own : l1.owner[a] = "detail") /\ l1.active = "toolbar"
  BY RegisteredIs DEF DetailOK
<1> HIDE DEF l1
<1>2. PageAreas(pg) \in SUBSET DetailArea /\ pg \in DetailOwner /\ pg # "none" /\ pg # "detail"
  BY PagesAre, DetailOwnersAre
<1>3. r = dropAll(l1, PageAreas(pg), pg)
  BY <1>2 DEF UnmountPage
<1> HIDE DEF r
<1>4. /\ r \in DetailLayouts
      /\ r.active = IF l1.active \in PageAreas(pg) /\ l1.owner[l1.active] = pg THEN NoArea ELSE l1.active
      /\ \A x \in DetailArea : r.owner[x] = IF x \in PageAreas(pg) /\ l1.owner[x] = pg THEN Nobody ELSE l1.owner[x]
  BY <1>1, <1>2, <1>3, DetailOwnersAre, DropAllIs DEF DetailLayouts
<1>5. r.active = "toolbar"
  BY <1>1, <1>4, PagesAre
<1>6. OwnersOwn(r) /\ \A a \in Own : r.owner[a] = "detail"
  BY <1>1, <1>2, <1>4, DetailAreasAre, DetailOwnersAre DEF OwnersOwn
<1>7. DetailOK(r, present, "none", dd, pd)
  BY <1>4, <1>5, <1>6, AloneIs
<1>8. QED
  BY <1>7 DEF r, l1

\* The download goes, with what is shown of it; the page keeps its own areas.
LEMMA RowGoneOK ==
  ASSUME NEW l, NEW pg \in Pages \cup {"none"}, NEW dd, NEW pd, DetailOK(l, TRUE, pg, dd, pd)
  PROVE  DetailOK(dropAll(UnmountPage(l, pg), DialogAreas, "dialog"), FALSE, pg, dd, pd)
<1> DEFINE l1 == UnmountPage(l, pg)
           r == dropAll(l1, DialogAreas, "dialog")
<1>1. l \in DetailLayouts /\ OwnersOwn(l)
  BY DEF DetailOK
<1>2. /\ l1 \in DetailLayouts /\ OwnersOwn(l1) /\ (pg = "none" => l1 = l)
      /\ \A x \in DetailArea : l1.owner[x] = l.owner[x] \/ l1.owner[x] = Nobody
  <2>1. CASE pg = "none"
    BY <1>1, <2>1 DEF UnmountPage
  <2>2. CASE pg # "none"
    <3>1. PageAreas(pg) \in SUBSET DetailArea /\ pg \in DetailOwner
      BY <2>2, PagesAre, DetailOwnersAre
    <3>2. l1 = dropAll(l, PageAreas(pg), pg)
      BY <2>2 DEF UnmountPage
    <3> HIDE DEF l1
    <3>3. /\ l1 \in DetailLayouts
          /\ \A x \in DetailArea : l1.owner[x] = IF x \in PageAreas(pg) /\ l.owner[x] = pg THEN Nobody ELSE l.owner[x]
      BY <1>1, <3>1, <3>2, DetailOwnersAre, DropAllIs DEF DetailLayouts
    <3>4. OwnersOwn(l1)
      BY <1>1, <3>3, DetailOwnersAre DEF OwnersOwn
    <3>5. QED
      BY <2>2, <3>3, <3>4
  <2>3. QED
    BY <2>1, <2>2
<1> HIDE DEF l1
<1>3. /\ r \in DetailLayouts
      /\ r.active = IF l1.active \in DialogAreas /\ l1.owner[l1.active] = "dialog" THEN NoArea ELSE l1.active
      /\ \A x \in DetailArea : r.owner[x] = IF x \in DialogAreas /\ l1.owner[x] = "dialog" THEN Nobody ELSE l1.owner[x]
  BY <1>2, DetailAreasAre, DetailOwnersAre, DropAllIs DEF DetailLayouts
<1> HIDE DEF r
<1>4. OwnersOwn(r) /\ \A a \in Own : r.owner[a] = l1.owner[a]
  BY <1>2, <1>3, DetailAreasAre, DetailOwnersAre DEF OwnersOwn
<1>5. CASE pg = "none"
  <2>1. AloneOK(l, TRUE, dd, pd) /\ l1 = l
    BY <1>2, <1>5 DEF DetailOK
  <2>2. l.active # NoArea /\ l.owner[l.active] # Nobody /\ l.active \in DetailArea
    BY <1>1, <2>1 DEF AloneOK, DetailLayouts, LayoutsOf
  <2>3. (\A a \in Own : r.owner[a] = "detail")
    BY <1>4, <2>1 DEF AloneOK
  <2>4. CASE l.active \in DialogAreas /\ l.owner[l.active] = "dialog"
    <3>1. r.active = NoArea /\ (dd \/ pd)
      BY <1>3, <2>1, <2>4 DEF AloneOK, DialogAreas
    <3>2. NoArea # "delete-dialog" /\ NoArea # "peer-detail-dialog"
      BY DEF NoArea
    <3>3. AloneOK(r, FALSE, dd, pd)
      BY <2>3, <3>1, <3>2 DEF AloneOK
    <3>4. QED
      BY <1>3, <1>4, <1>5, <3>3 DEF DetailOK, r, l1
  <2>5. CASE ~(l.active \in DialogAreas /\ l.owner[l.active] = "dialog")
    <3>1. r.active = l.active /\ r.owner[r.active] = l.owner[l.active]
      BY <1>3, <2>1, <2>2, <2>5
    <3>2. AloneOK(r, FALSE, dd, pd)
      BY <2>1, <2>2, <2>3, <3>1 DEF AloneOK
    <3>3. QED
      BY <1>3, <1>4, <1>5, <3>2 DEF DetailOK, r, l1
  <2>6. QED
    BY <2>4, <2>5
<1>6. CASE pg # "none"
  <2>1. \A a \in Own : l.owner[a] = Nobody \/ (l.owner[a] = pg /\ a \in PageAreas(pg))
    BY <1>6 DEF DetailOK, InPlaceOK
  <2>2. \A a \in Own : r.owner[a] = Nobody \/ (r.owner[a] = pg /\ a \in PageAreas(pg))
    BY <1>2, <1>4, <2>1, DetailAreasAre
  <2>3. InPlaceOK(r, FALSE, pg)
    BY <2>2 DEF InPlaceOK
  <2>4. QED
    BY <1>3, <1>4, <1>6, <2>3 DEF DetailOK, r, l1
<1>7. QED
  BY <1>5, <1>6

\* It comes back, and with it what is shown of it.
LEMMA RowBackOK ==
  ASSUME NEW l, NEW pg \in Pages \cup {"none"}, NEW dd \in BOOLEAN, NEW pd \in BOOLEAN, DetailOK(l, FALSE, pg, dd, pd)
  PROVE  DetailOK(IF pg # "none" THEN MountPage(l, pg)
                  ELSE LET peers == IF pd THEN MountDialog(l, "peer-detail-dialog") ELSE l
                       IN IF dd THEN MountDialog(peers, "delete-dialog") ELSE peers, TRUE, pg, dd, pd)
<1>1. CASE pg # "none"
  <2>1. DetailOK(MountPage(l, pg), TRUE, pg, dd, pd)
    BY <1>1, MountedPageIs DEF DetailOK, InPlaceOK
  <2>2. QED
    BY <1>1, <2>1
<1>2. CASE pg = "none"
  <2> DEFINE peers == IF pd THEN MountDialog(l, "peer-detail-dialog") ELSE l
  <2>1. DetailOK(l, FALSE, "none", dd, pd)
    BY <1>2
  <2>2. DetailOK(peers, FALSE, "none", dd, pd) /\ (pd => DetailOK(peers, TRUE, "none", dd, pd))
    <3>1. CASE pd
      <4>1. \A present2 : DetailOK(MountDialog(l, "peer-detail-dialog"), present2, "none", dd, pd)
        BY <2>1, <3>1, DetailAreasAre, MountedOK
      <4>2. QED
        BY <3>1, <4>1
    <3>2. CASE ~pd
      BY <2>1, <3>2
    <3>3. QED
      BY <3>1, <3>2
  <2>3. ~pd /\ ~dd => DetailOK(peers, TRUE, "none", dd, pd)
    BY <2>2 DEF DetailOK, AloneOK
  <2> HIDE DEF peers
  <2>4. CASE dd
    <3>1. \A present2 : DetailOK(MountDialog(peers, "delete-dialog"), present2, "none", dd, pd)
      BY <2>2, <2>4, DetailAreasAre, MountedOK
    <3>2. QED
      BY <1>2, <2>4, <3>1 DEF peers
  <2>5. CASE ~dd
    BY <1>2, <2>2, <2>3, <2>5 DEF peers
  <2>6. QED
    BY <2>4, <2>5
<1>3. QED
  BY <1>1, <1>2

-----------------------------------------------------------------------------
(* The steps of the page. *)

DetailPlain ==
  /\ there \in BOOLEAN /\ deleteDialog \in BOOLEAN /\ peerDialog \in BOOLEAN /\ spinning \in BOOLEAN
  /\ watched \in BOOLEAN /\ shown \in BOOLEAN /\ outlived \in BOOLEAN
  /\ page \in Pages \cup {"none"} /\ deleting \in {"none", "lish", "data"} /\ detailEvents \in 0 .. MaxDetailEvents
DetailRowsKept ==
  /\ peerCount \in 0 .. MaxRows /\ file \in 0 .. MaxRows /\ peer \in 0 .. MaxRows /\ info \in 0 .. MaxRows
  /\ tab \in {"files", "peers"}
DetailPlace == /\ detail \in DetailLayouts
               /\ shown /\ ~outlived => DetailOK(detail, there, page, deleteDialog, peerDialog)
DetailKept == DetailPlain /\ DetailRowsKept /\ DetailPlace

LEMMA DetailIsFine == DetailKept => DetailTypeOK /\ DetailHasAreas
<1> SUFFICES ASSUME DetailKept
             PROVE  DetailTypeOK /\ DetailHasAreas
  OBVIOUS
<1>1. DetailPlain /\ DetailRowsKept /\ DetailPlace
  BY DEF DetailKept
<1>2. \A b \in {there, deleteDialog, spinning, watched, shown, outlived} : b \in BOOLEAN
  BY <1>1 DEF DetailPlain
<1>3. detail \in [owner : [DetailArea -> {Nobody, "detail", "browser", "export", "move", "dialog"}],
                  active : DetailArea \cup {NoArea}]
  BY <1>1 DEF DetailPlace, DetailLayouts, LayoutsOf, DetailOwner
<1>4. {peerCount, file, peer, info} \in SUBSET (0 .. MaxRows)
  BY <1>1 DEF DetailRowsKept
<1>5. DetailTypeOK
  BY <1>1, <1>2, <1>3, <1>4 DEF DetailTypeOK, DetailPlain, DetailRowsKept, Pages
<1>6. ASSUME shown, there, ~outlived
      PROVE  /\ page = "none" => \A a \in Own : detail.owner[a] = "detail"
             /\ page # "none" => \A a \in PageAreas(page) : detail.owner[a] = page
             /\ detail.active # NoArea /\ Registered(detail, detail.active)
  <2>1. DetailOK(detail, there, page, deleteDialog, peerDialog)
    BY <1>1, <1>6 DEF DetailPlace
  <2>2. CASE page = "none"
    BY <1>6, <2>1, <2>2 DEF DetailOK, AloneOK, Registered
  <2>3. CASE page # "none"
    <3>1. page \in Pages
      BY <1>1, <2>3 DEF DetailPlain
    <3>2. (\A a \in PageAreas(page) : detail.owner[a] = page) /\ detail.active = MainArea(page)
      BY <1>6, <2>1, <2>3 DEF DetailOK, InPlaceOK
    <3>3. detail.active # NoArea /\ detail.owner[detail.active] # Nobody
      BY <3>1, <3>2, PagesAre, DetailOwnersAre, DetailAreasAre
    <3>4. QED
      BY <2>3, <3>2, <3>3 DEF Registered
  <2>4. QED
    BY <2>2, <2>3
<1>7. DetailHasAreas
  BY <1>6 DEF DetailHasAreas
<1>8. QED
  BY <1>5, <1>7

LEMMA DetailEventKept ==
  ASSUME DetailPlain, DetailEvent
  PROVE  detailEvents' \in 0 .. MaxDetailEvents
BY DetailAssumption DEF DetailPlain, DetailEvent

\* The page has a key, or a click, only with nothing in its place.
LEMMA OnIs ==
  ASSUME DetailPlain, DetailPlace, ~outlived, (\E x \in DetailArea : On(x)) \/ Uncovered
  PROVE  page = "none" /\ shown /\ DetailOK(detail, there, "none", deleteDialog, peerDialog)
<1>1. CASE Uncovered
  BY <1>1 DEF Uncovered, DetailPlace
<1>2. ASSUME NEW x \in DetailArea, On(x)
      PROVE  page = "none" /\ shown
  <2>1. shown /\ detail.owner[x] = "detail" /\ DetailOK(detail, there, page, deleteDialog, peerDialog)
    BY <1>2 DEF On, Emits, DetailPlace
  <2>2. x \in Own
    BY <2>1 DEF DetailOK, OwnersOwn
  <2>3. ASSUME page # "none"
        PROVE  FALSE
    <3>1. page \in Pages
      BY <2>3 DEF DetailPlain
    <3>2. detail.owner[x] = Nobody \/ detail.owner[x] = page
      BY <2>1, <2>2, <2>3 DEF DetailOK, InPlaceOK
    <3>3. QED
      BY <2>1, <3>1, <3>2, DetailOwnersAre
  <2>4. QED
    BY <2>1, <2>3
<1>3. QED
  BY <1>1, <1>2 DEF DetailPlace

LEMMA FocusKept ==
  ASSUME DetailPlain, DetailPlace, (\E x \in DetailArea : On(x)) \/ Uncovered, NEW a \in Own, Focus(a), Rest
  PROVE  DetailPlain' /\ DetailPlace'
<1>1. UNCHANGED <<there, shown, outlived, detailEvents, page, deleteDialog, peerDialog, deleting, spinning, watched>>
  BY DEF Rest, pageVars
<1>2. DetailPlain'
  BY <1>1 DEF DetailPlain
<1>3. detail' \in DetailLayouts
  BY DetailAreasAre, ActivateIs DEF Focus, DetailPlace, DetailLayouts
<1>4. ASSUME shown', ~outlived'
      PROVE  DetailOK(detail', there', page', deleteDialog', peerDialog')
  <2>1. page = "none" /\ DetailOK(detail, there, "none", deleteDialog, peerDialog)
    BY <1>1, <1>4, OnIs
  <2>2. DetailOK(activateArea(detail, a), there, "none", deleteDialog, peerDialog)
    BY <2>1, FocusOK
  <2>3. QED
    BY <1>1, <2>1, <2>2 DEF Focus
<1>5. QED
  BY <1>2, <1>3, <1>4 DEF DetailPlace

LEMMA DetailRestKept ==
  ASSUME DetailPlain, DetailPlace, Rest, UNCHANGED detail
  PROVE  DetailPlain' /\ DetailPlace'
<1>1. UNCHANGED <<there, shown, outlived, detailEvents, page, deleteDialog, peerDialog, deleting, spinning, watched>>
  BY DEF Rest, pageVars
<1>2. QED
  BY <1>1 DEF DetailPlain, DetailPlace

LEMMA DetailRowsAre ==
  ASSUME NEW area, NEW index \in 0 .. MaxRows, NEW n \in 0 .. MaxRows + 1, NEW index2, DetailRows(area, index, n, index2)
  PROVE  index2 \in 0 .. MaxRows
<1>1. MaxRows \in Nat
  BY DetailAssumption
<1>2. QED
  BY <1>1 DEF DetailRows

LEMMA InfoRowsAre == /\ 0 \in 0 .. MaxRows /\ InfoRows - 1 \in 0 .. MaxRows /\ InfoRows \in 0 .. MaxRows + 1
                     /\ MaxRows \in 0 .. MaxRows + 1 /\ \A n \in 0 .. MaxRows : n \in 0 .. MaxRows + 1
BY DetailAssumption DEF InfoRows

LEMMA DetailKeysKept ==
  ASSUME DetailKept,
         ToolbarDown \/ InfoMoves \/ ListMoves \/ PeerMoves \/ Crossings \/ TabsUp \/ TabsTurn \/ Hovers
  PROVE  DetailKept'
<1>1. DetailPlain /\ DetailRowsKept /\ DetailPlace
  BY DEF DetailKept
<1>2. {"toolbar", "info", "tabs", "list", "peerlist"} \in SUBSET Own /\ Own \in SUBSET DetailArea
  BY DetailAreasAre DEF Own
<1>3. CASE InfoMoves \/ ListMoves \/ PeerMoves \/ TabsTurn
  <2>1. DetailPlain' /\ DetailPlace'
    BY <1>1, <1>3, DetailRestKept DEF InfoMoves, ListMoves, PeerMoves, TabsTurn, DetailRows, OnlyRows
  <2>2. CASE InfoMoves
    <3>1. info' \in 0 .. MaxRows
      BY <1>1, <2>2, InfoRowsAre, DetailRowsAre DEF InfoMoves, DetailRowsKept
    <3>2. QED
      BY <1>1, <2>1, <2>2, <3>1 DEF InfoMoves, DetailRowsKept, DetailKept
  <2>3. CASE ListMoves
    <3>1. file' \in 0 .. MaxRows
      BY <1>1, <2>3, InfoRowsAre, DetailRowsAre DEF ListMoves, DetailRowsKept
    <3>2. QED
      BY <1>1, <2>1, <2>3, <3>1 DEF ListMoves, DetailRowsKept, DetailKept
  <2>4. CASE PeerMoves
    <3>1. peer' \in 0 .. MaxRows
      BY <1>1, <2>4, InfoRowsAre, DetailRowsAre DEF PeerMoves, DetailRowsKept
    <3>2. QED
      BY <1>1, <2>1, <2>4, <3>1 DEF PeerMoves, DetailRowsKept, DetailKept
  <2>5. CASE TabsTurn
    BY <1>1, <2>1, <2>5 DEF TabsTurn, DetailRowsKept, DetailKept
  <2>6. QED
    BY <1>3, <2>2, <2>3, <2>4, <2>5
<1>4. CASE ToolbarDown
  <2>1. On("toolbar") /\ Focus("info") /\ Rest
    BY <1>4 DEF ToolbarDown
  <2>2. DetailPlain' /\ DetailPlace'
    BY <1>1, <1>2, <2>1, FocusKept
  <2>3. DetailRowsKept'
    BY <1>1, <1>4, InfoRowsAre DEF ToolbarDown, DetailRowsKept
  <2>4. QED
    BY <2>2, <2>3 DEF DetailKept
<1>5. CASE Crossings
  <2>1. Rest /\ UNCHANGED rowVars
    BY <1>5 DEF Crossings
  <2>2. (\E x \in {"toolbar", "info", "tabs", "list", "peerlist"} : On(x))
        /\ (\E a \in {"toolbar", "info", "tabs", "list", "peerlist"} : Focus(a))
    BY <1>5 DEF Crossings, RightPanel
  <2>3. DetailPlain' /\ DetailPlace'
    BY <1>1, <1>2, <2>1, <2>2, FocusKept
  <2>4. DetailRowsKept'
    BY <1>1, <2>1 DEF DetailRowsKept, rowVars
  <2>5. QED
    BY <2>3, <2>4 DEF DetailKept
<1>6. CASE TabsUp
  <2>1. On("tabs") /\ Rest /\ (Focus("info") \/ Focus("toolbar"))
    BY <1>6 DEF TabsUp
  <2>2. DetailPlain' /\ DetailPlace'
    BY <1>1, <1>2, <2>1, FocusKept
  <2>3. UNCHANGED <<peerCount, tab, file, peer>> /\ (info' = InfoRows - 1 \/ UNCHANGED info)
    BY <1>6 DEF TabsUp
  <2>4. DetailRowsKept'
    BY <1>1, <2>3, InfoRowsAre DEF DetailRowsKept
  <2>5. QED
    BY <2>2, <2>4 DEF DetailKept
<1>7. CASE Hovers
  <2>1. Uncovered /\ Rest /\ (Focus("list") \/ Focus("peerlist") \/ Focus("info"))
    BY <1>7 DEF Hovers
  <2>2. DetailPlain' /\ DetailPlace'
    BY <1>1, <1>2, <2>1, FocusKept
  <2>3. MaxRows \in Nat \ {0}
    BY DetailAssumption
  <2>4. \A i : i \in 0 .. MaxRows - 1 \/ i \in 0 .. InfoRows - 1 => i \in 0 .. MaxRows
    BY <2>3 DEF InfoRows
  <2>5. UNCHANGED <<peerCount, tab>>
        /\ file' \in 0 .. MaxRows /\ peer' \in 0 .. MaxRows /\ info' \in 0 .. MaxRows
    BY <1>1, <1>7, <2>4 DEF Hovers, DetailRowsKept
  <2>6. DetailRowsKept'
    BY <1>1, <2>5 DEF DetailRowsKept
  <2>7. QED
    BY <2>2, <2>6 DEF DetailKept
<1>8. QED
  BY <1>3, <1>4, <1>5, <1>6, <1>7

\* Whatever happens to it, the layout is one.
LEMMA LayoutsStay ==
  ASSUME NEW l \in DetailLayouts
  PROVE  /\ UnregisterOwn(l) \in DetailLayouts /\ RegisterOwn(l) \in DetailLayouts
         /\ \A p \in Pages \cup {"none"} : MountPage(l, p) \in DetailLayouts /\ UnmountPage(l, p) \in DetailLayouts
         /\ \A a \in DialogAreas : MountDialog(l, a) \in DetailLayouts
         /\ \A a \in DialogAreas, next \in Own : dropArea(activateArea(l, next), a, "dialog") \in DetailLayouts
         /\ dropAll(l, DialogAreas, "dialog") \in DetailLayouts
<1>1. UnregisterOwn(l) \in DetailLayouts
  BY DetailAreasAre, DetailOwnersAre, DropAllIs DEF UnregisterOwn, DetailLayouts
<1>2. RegisterOwn(l) \in DetailLayouts
  <2>1. useAll(l, Own, "detail") \in DetailLayouts
    <3>1. Own \in SUBSET DetailArea /\ "detail" \in DetailOwner
      BY DetailAreasAre, DetailOwnersAre
    <3>2. l \in LayoutsOf(DetailArea, DetailOwner)
      BY DEF DetailLayouts
    <3>3. useAll(l, Own, "detail") \in LayoutsOf(DetailArea, DetailOwner)
      BY <3>1, <3>2, UseAllIs
    <3>4. QED
      BY <3>3 DEF DetailLayouts
  <2>2. "toolbar" \in DetailArea
    BY DetailAreasAre
  <2>3. QED
    BY <2>1, <2>2, ActivateIs DEF RegisterOwn, DetailLayouts
<1>3. ASSUME NEW p \in Pages \cup {"none"}
      PROVE  MountPage(l, p) \in DetailLayouts /\ UnmountPage(l, p) \in DetailLayouts
  <2>1. CASE p = "none"
    BY <2>1 DEF MountPage, UnmountPage
  <2>2. CASE p # "none"
    <3>1. PageAreas(p) \in SUBSET DetailArea /\ MainArea(p) \in DetailArea /\ p \in DetailOwner
      BY <2>2, PagesAre, DetailOwnersAre
    <3>2. useAll(l, PageAreas(p), p) \in DetailLayouts
      BY <3>1, UseAllIs DEF DetailLayouts
    <3>3. MountPage(l, p) \in DetailLayouts
      BY <2>2, <3>1, <3>2, ActivateIs DEF MountPage, DetailLayouts
    <3>4. UnmountPage(l, p) \in DetailLayouts
      BY <2>2, <3>1, DetailOwnersAre, DropAllIs DEF UnmountPage, DetailLayouts
    <3>5. QED
      BY <3>3, <3>4
  <2>3. QED
    BY <2>1, <2>2
<1>4. ASSUME NEW a \in DialogAreas
      PROVE  MountDialog(l, a) \in DetailLayouts
  <2>1. a \in DetailArea /\ useArea(l, a, "dialog") \in DetailLayouts
    BY DetailAreasAre, DetailOwnersAre, UseIs DEF DetailLayouts
  <2>2. QED
    BY <2>1, ActivateIs DEF MountDialog, DetailLayouts
<1>5. ASSUME NEW a \in DialogAreas, NEW next \in Own
      PROVE  dropArea(activateArea(l, next), a, "dialog") \in DetailLayouts
  <2>1. a \in DetailArea /\ activateArea(l, next) \in DetailLayouts
    BY DetailAreasAre, ActivateIs DEF DetailLayouts
  <2>2. QED
    BY <2>1, DetailOwnersAre, DropIs DEF DetailLayouts
<1>6. dropAll(l, DialogAreas, "dialog") \in DetailLayouts
  BY DetailAreasAre, DetailOwnersAre, DropAllIs DEF DetailLayouts
<1>7. QED
  BY <1>1, <1>2, <1>3, <1>4, <1>5, <1>6

LEMMA ToolbarIs ==
  ASSUME DetailPlain, DetailPlace, ~outlived, Toolbar \/ On("peerlist") \/ (Uncovered /\ tab = "peers")
  PROVE  page = "none" /\ shown /\ DetailOK(detail, there, "none", deleteDialog, peerDialog)
<1>1. (\E x \in DetailArea : On(x)) \/ Uncovered
  BY DetailAreasAre DEF Toolbar
<1>2. QED
  BY <1>1, OnIs

LEMMA OpensKept ==
  ASSUME DetailPlain, DetailPlace, NEW p \in Pages, OpenPage(p)
  PROVE  DetailPlain' /\ DetailPlace'
<1>1. /\ UNCHANGED <<there, deleteDialog, peerDialog, deleting, spinning, watched, shown, outlived>> /\ page' = p
      /\ detail' = IF there THEN MountPage(UnregisterOwn(detail), p) ELSE UnregisterOwn(detail)
  BY DEF OpenPage
<1>2. detailEvents' \in 0 .. MaxDetailEvents
  BY DetailEventKept DEF OpenPage
<1>3. DetailPlain'
  BY <1>1, <1>2 DEF DetailPlain
<1>4. detail' \in DetailLayouts
  <2>1. UnregisterOwn(detail) \in DetailLayouts
    BY LayoutsStay DEF DetailPlace
  <2>2. MountPage(UnregisterOwn(detail), p) \in DetailLayouts
    BY <2>1, LayoutsStay
  <2>3. QED
    BY <1>1, <2>1, <2>2
<1>5. ASSUME shown', ~outlived'
      PROVE  DetailOK(detail', there', page', deleteDialog', peerDialog')
  <2>1. DetailOK(detail, there, "none", deleteDialog, peerDialog) /\ there \in BOOLEAN
    BY <1>1, <1>5, ToolbarIs DEF OpenPage, DetailPlain
  <2>2. QED
    BY <1>1, <2>1, OpenedOK
<1>6. QED
  BY <1>3, <1>4, <1>5 DEF DetailPlace

LEMMA ClosesKept ==
  ASSUME DetailPlain, DetailPlace, ClosePage
  PROVE  DetailPlain' /\ DetailPlace'
<1>1. /\ UNCHANGED <<there, deleteDialog, peerDialog, deleting, spinning, watched, shown, outlived, detailEvents>>
      /\ page # "none" /\ page' = "none" /\ detail' = UnmountPage(RegisterOwn(detail), page)
  BY DEF ClosePage
<1>2. DetailPlain' /\ page \in Pages
  BY <1>1 DEF DetailPlain
<1>3. detail' \in DetailLayouts
  <2>1. RegisterOwn(detail) \in DetailLayouts
    BY LayoutsStay DEF DetailPlace
  <2>2. QED
    BY <1>1, <1>2, <2>1, LayoutsStay
<1>4. ASSUME shown', ~outlived'
      PROVE  DetailOK(detail', there', page', deleteDialog', peerDialog')
  BY <1>1, <1>2, <1>4, ClosedOK DEF DetailPlace
<1>5. QED
  BY <1>2, <1>3, <1>4 DEF DetailPlace

LEMMA DialogOpensKept ==
  ASSUME DetailPlain, DetailPlace, ShowDelete \/ openPeerDialog
  PROVE  DetailPlain' /\ DetailPlace'
<1>1. UNCHANGED <<there, page, deleting, spinning, watched, shown, outlived>>
  BY DEF ShowDelete, openPeerDialog
<1>2. detailEvents' \in 0 .. MaxDetailEvents
  BY DetailEventKept DEF ShowDelete, openPeerDialog
<1>3. Toolbar \/ On("peerlist") \/ (Uncovered /\ tab = "peers")
  BY DEF ShowDelete, openPeerDialog
<1>4. CASE ShowDelete
  <2>1. deleteDialog' = TRUE /\ UNCHANGED peerDialog /\ detail' = MountDialog(detail, "delete-dialog")
    BY <1>4 DEF ShowDelete
  <2>2. DetailPlain'
    BY <1>1, <1>2, <2>1 DEF DetailPlain
  <2>3. detail' \in DetailLayouts
    BY <2>1, LayoutsStay, DetailAreasAre DEF DetailPlace
  <2>4. ASSUME shown', ~outlived'
        PROVE  DetailOK(detail', there', page', deleteDialog', peerDialog')
    <3>1. page = "none" /\ DetailOK(detail, there, "none", deleteDialog, peerDialog)
      BY <1>1, <1>3, <2>4, ToolbarIs
    <3>2. \A present2 : DetailOK(MountDialog(detail, "delete-dialog"), present2, "none", TRUE, peerDialog)
      BY <3>1, MountedOK, DetailAreasAre
    <3>3. QED
      BY <1>1, <2>1, <3>1, <3>2
  <2>5. QED
    BY <2>2, <2>3, <2>4 DEF DetailPlace
<1>5. CASE openPeerDialog
  <2>1. peerDialog' = TRUE /\ UNCHANGED deleteDialog /\ detail' = MountDialog(detail, "peer-detail-dialog")
    BY <1>5 DEF openPeerDialog
  <2>2. DetailPlain'
    BY <1>1, <1>2, <2>1 DEF DetailPlain
  <2>3. detail' \in DetailLayouts
    BY <2>1, LayoutsStay, DetailAreasAre DEF DetailPlace
  <2>4. ASSUME shown', ~outlived'
        PROVE  DetailOK(detail', there', page', deleteDialog', peerDialog')
    <3>1. page = "none" /\ DetailOK(detail, there, "none", deleteDialog, peerDialog)
      BY <1>1, <1>3, <2>4, ToolbarIs
    <3>2. \A present2 : DetailOK(MountDialog(detail, "peer-detail-dialog"), present2, "none", deleteDialog, TRUE)
      BY <3>1, MountedOK, DetailAreasAre
    <3>3. QED
      BY <1>1, <2>1, <3>1, <3>2
  <2>5. QED
    BY <2>2, <2>3, <2>4 DEF DetailPlace
<1>6. QED
  BY <1>4, <1>5

\* A dialog goes, by its own keys or with the answer to a deletion.
LEMMA DialogGoesKept ==
  ASSUME DetailPlain, DetailPlace, NEW area \in DialogAreas, NEW next \in {"toolbar", "peerlist"}, TakesDown(area, next),
         UNCHANGED <<there, page, shown, outlived>>
  PROVE  DetailPlace'
<1>1. detail' = dropArea(activateArea(detail, next), area, "dialog") /\ next \in Own
  BY DetailAreasAre DEF TakesDown
<1>2. detail' \in DetailLayouts
  BY <1>1, LayoutsStay DEF DetailPlace
<1>3. ASSUME shown', ~outlived'
      PROVE  DetailOK(detail', there', page', deleteDialog', peerDialog')
  <2>1. DetailOK(detail, there, page, deleteDialog, peerDialog) /\ page \in Pages \cup {"none"}
    BY <1>3 DEF DetailPlain, DetailPlace
  <2>2. DetailOK(dropArea(activateArea(detail, next), area, "dialog"), there, page, deleteDialog', peerDialog')
    BY <2>1, TakenDownOK
  <2>3. QED
    BY <1>1, <2>2
<1>4. QED
  BY <1>2, <1>3 DEF DetailPlace

LEMMA DialogClosesKept ==
  ASSUME DetailPlain, DetailPlace, handleDeleteCancel \/ handlePeerDialogBack
  PROVE  DetailPlain' /\ DetailPlace'
<1>1. DetailPlain'
  BY DEF handleDeleteCancel, handlePeerDialogBack, DetailPlain
<1>2. CASE handleDeleteCancel
  <2>1. DetailPlace'
    BY <1>2, DetailAreasAre, DialogGoesKept DEF handleDeleteCancel
  <2>2. QED
    BY <1>1, <2>1
<1>3. CASE handlePeerDialogBack
  <2>1. DetailPlace'
    BY <1>3, DetailAreasAre, DialogGoesKept DEF handlePeerDialogBack
  <2>2. QED
    BY <1>1, <2>1
<1>4. QED
  BY <1>2, <1>3

LEMMA GoneKept ==
  ASSUME DetailPlain, DetailPlace, Gone, UNCHANGED <<outlived>>, there' \in BOOLEAN, deleting' \in {"none", "lish", "data"},
         detailEvents' \in 0 .. MaxDetailEvents
  PROVE  DetailPlain' /\ DetailPlace'
<1>1. EmptyLayout(DetailArea) \in DetailLayouts
  BY DetailOwnersAre DEF EmptyLayout, DetailLayouts, LayoutsOf
<1>2. DetailPlace'
  BY <1>1 DEF Gone, DetailPlace
<1>3. DetailPlain'
  BY DEF Gone, DetailPlain
<1>4. QED
  BY <1>2, <1>3

LEMMA DeletionKept ==
  ASSUME DetailPlain, DetailPlace, NEW success \in BOOLEAN, ConfirmDelete \/ handleDeleteResult(success)
  PROVE  DetailPlain' /\ DetailPlace'
<1>1. CASE ConfirmDelete
  <2>1. detailEvents' \in 0 .. MaxDetailEvents
    BY <1>1, DetailEventKept DEF ConfirmDelete
  <2>2. (watched /\ deleting' = "data") \in BOOLEAN
    OBVIOUS
  <2>3. DetailPlain'
    BY <1>1, <2>1, <2>2 DEF ConfirmDelete, DetailPlain
  <2>4. DetailPlace'
    BY <1>1 DEF ConfirmDelete, DetailPlace
  <2>5. QED
    BY <2>3, <2>4
<1>2. CASE handleDeleteResult(success)
  <2>1. deleting' = "none" /\ UNCHANGED <<there, outlived, detailEvents>>
    BY <1>2 DEF handleDeleteResult
  <2>2. CASE UNCHANGED <<page, deleteDialog, peerDialog, spinning, watched, detail, shown>>
    BY <2>1, <2>2 DEF DetailPlain, DetailPlace
  <2>3. CASE Gone
    BY <2>1, <2>3, GoneKept DEF DetailPlain
  <2>4. CASE /\ deleteDialog' = FALSE /\ spinning' = FALSE /\ TakesDown("delete-dialog", "toolbar")
             /\ UNCHANGED <<page, peerDialog, watched, shown>>
    <3>1. DetailPlain'
      BY <2>1, <2>4 DEF DetailPlain
    <3>2. DetailPlace'
      BY <2>1, <2>4, DetailAreasAre, DialogGoesKept
    <3>3. QED
      BY <3>1, <3>2
  <2>5. QED
    BY <1>2, <2>2, <2>3, <2>4 DEF handleDeleteResult
<1>3. QED
  BY <1>1, <1>2

LEMMA RowGoesKept ==
  ASSUME DetailPlain, DetailPlace, NEW removed \in BOOLEAN, RowGoes(removed)
  PROVE  DetailPlain' /\ DetailPlace'
<1>1. there = TRUE /\ there' = FALSE /\ UNCHANGED <<deleting, outlived>> /\ detailEvents' \in 0 .. MaxDetailEvents
  BY DetailEventKept DEF RowGoes, DetailPlain
<1>2. CASE Gone
  BY <1>1, <1>2, GoneKept DEF DetailPlain
<1>3. CASE /\ spinning' = FALSE
           /\ detail' = IF shown THEN dropAll(UnmountPage(detail, page), DialogAreas, "dialog") ELSE detail
           /\ UNCHANGED <<page, deleteDialog, peerDialog, watched, shown>>
  <2>1. DetailPlain'
    BY <1>1, <1>3 DEF DetailPlain
  <2>2. detail' \in DetailLayouts
    <3>1. UnmountPage(detail, page) \in DetailLayouts
      BY LayoutsStay DEF DetailPlain, DetailPlace
    <3>2. dropAll(UnmountPage(detail, page), DialogAreas, "dialog") \in DetailLayouts
      BY <3>1, LayoutsStay
    <3>3. QED
      BY <1>3, <3>2 DEF DetailPlace
  <2>3. ASSUME shown', ~outlived'
        PROVE  DetailOK(detail', there', page', deleteDialog', peerDialog')
    <3>1. DetailOK(detail, TRUE, page, deleteDialog, peerDialog) /\ page \in Pages \cup {"none"} /\ shown
      BY <1>1, <1>3, <2>3 DEF DetailPlain, DetailPlace
    <3>2. QED
      BY <1>1, <1>3, <3>1, RowGoneOK
  <2>4. QED
    BY <2>1, <2>2, <2>3 DEF DetailPlace
<1>4. QED
  BY <1>2, <1>3 DEF RowGoes

LEMMA RowReturnsKept ==
  ASSUME DetailPlain, DetailPlace, RowReturns
  PROVE  DetailPlain' /\ DetailPlace'
<1> DEFINE peers == IF peerDialog THEN MountDialog(detail, "peer-detail-dialog") ELSE detail
           again == IF page # "none" THEN MountPage(detail, page)
                    ELSE IF deleteDialog THEN MountDialog(peers, "delete-dialog") ELSE peers
<1>1. /\ there = FALSE /\ there' = TRUE
      /\ UNCHANGED <<page, deleteDialog, peerDialog, deleting, spinning, watched, shown, outlived, detailEvents>>
      /\ detail' = IF ~shown THEN detail ELSE again
  BY DEF RowReturns, pageVars, DetailPlain
<1>2. DetailPlain'
  BY <1>1 DEF DetailPlain
<1>3. again \in DetailLayouts /\ detail \in DetailLayouts
  <2>1. detail \in DetailLayouts /\ page \in Pages \cup {"none"}
    BY DEF DetailPlain, DetailPlace
  <2>2. MountPage(detail, page) \in DetailLayouts /\ peers \in DetailLayouts
    BY <2>1, LayoutsStay, DetailAreasAre
  <2> HIDE DEF peers
  <2>3. MountDialog(peers, "delete-dialog") \in DetailLayouts
    BY <2>2, LayoutsStay, DetailAreasAre
  <2>4. QED
    BY <2>1, <2>2, <2>3
<1>4. ASSUME shown', ~outlived'
      PROVE  DetailOK(detail', there', page', deleteDialog', peerDialog')
  <2>1. DetailOK(detail, FALSE, page, deleteDialog, peerDialog) /\ page \in Pages \cup {"none"} /\ shown
        /\ deleteDialog \in BOOLEAN /\ peerDialog \in BOOLEAN
    BY <1>1, <1>4 DEF DetailPlain, DetailPlace
  <2>2. DetailOK(again, TRUE, page, deleteDialog, peerDialog)
    BY <2>1, RowBackOK
  <2> HIDE DEF again
  <2>3. QED
    BY <1>1, <2>1, <2>2
<1> HIDE DEF again
<1>5. detail' \in DetailLayouts
  BY <1>1, <1>3
<1>6. QED
  BY <1>2, <1>4, <1>5 DEF DetailPlace

LEMMA OutlivesKept ==
  ASSUME DetailPlain, DetailPlace, BrowserOutlives
  PROVE  DetailPlain' /\ DetailPlace'
<1>1. detailEvents' \in 0 .. MaxDetailEvents
  BY DetailEventKept DEF BrowserOutlives
<1>2. DetailPlain'
  BY <1>1 DEF BrowserOutlives, DetailPlain, pageVars
<1>3. detail' \in DetailLayouts /\ outlived' = TRUE
  <2> DEFINE l1 == useAll(detail, PageAreas("browser"), "browser")
  <2>1. PageAreas("browser") \in SUBSET DetailArea /\ "browser" \in DetailOwner /\ "directory-actions" \in DetailArea
    BY PagesAre, DetailOwnersAre DEF Pages, DetailArea
  <2>2. l1 \in DetailLayouts
    BY <2>1, UseAllIs DEF DetailPlace, DetailLayouts
  <2> HIDE DEF l1
  <2>3. activateArea(l1, "directory-actions") \in DetailLayouts
    BY <2>1, <2>2, ActivateIs DEF DetailLayouts
  <2>4. QED
    BY <2>3 DEF BrowserOutlives, l1
<1>4. QED
  BY <1>2, <1>3 DEF DetailPlace

-----------------------------------------------------------------------------
LEMMA DetailStartHolds == DetailInit => DetailKept
<1> SUFFICES ASSUME DetailInit
             PROVE  DetailKept
  OBVIOUS
<1>1. DetailPlain
  <2>1. /\ there \in BOOLEAN /\ deleteDialog \in BOOLEAN /\ peerDialog \in BOOLEAN /\ spinning \in BOOLEAN
        /\ watched \in BOOLEAN /\ shown \in BOOLEAN /\ outlived \in BOOLEAN
    BY Zenon DEF DetailInit
  <2>2. page \in Pages \cup {"none"} /\ deleting \in {"none", "lish", "data"} /\ detailEvents \in 0 .. MaxDetailEvents
    BY DetailAssumption DEF DetailInit
  <2>3. QED
    BY <2>1, <2>2 DEF DetailPlain
<1>2. DetailRowsKept
  BY DetailAssumption DEF DetailInit, DetailRowsKept
<1>3. DetailPlace
  <2> DEFINE l1 == EmptyLayout(DetailArea)
  <2>1. l1 \in DetailLayouts /\ \A a \in DetailArea : l1.owner[a] = Nobody
    BY DetailOwnersAre DEF EmptyLayout, DetailLayouts, LayoutsOf
  <2> HIDE DEF l1
  <2>2. OwnersOwn(l1)
    BY <2>1, DetailOwnersAre DEF OwnersOwn
  <2>3. /\ RegisterOwn(l1) \in DetailLayouts
        /\ \A present, dd, pd : DetailOK(RegisterOwn(l1), present, "none", dd, pd)
    BY <2>1, <2>2, RegisteredIs, AloneIs
  <2>4. detail = RegisterOwn(l1) /\ page = "none"
    BY DEF DetailInit, l1
  <2>5. QED
    BY <2>3, <2>4 DEF DetailPlace
<1>4. QED
  BY <1>1, <1>2, <1>3 DEF DetailKept

LEMMA DetailStepHolds == DetailKept /\ [DetailNext]_detailVars => DetailKept'
<1> SUFFICES ASSUME DetailKept, [DetailNext]_detailVars
             PROVE  DetailKept'
  OBVIOUS
<1>1. DetailPlain /\ DetailRowsKept /\ DetailPlace
  BY DEF DetailKept
<1>2. CASE UNCHANGED detailVars
  <2>1. UNCHANGED <<there, pageVars, shown, outlived, detailEvents>> /\ UNCHANGED <<rowVars, detail>>
    BY <1>2, Zenon DEF detailVars
  <2>2. DetailRowsKept'
    BY <1>1, <2>1 DEF DetailRowsKept, rowVars
  <2>3. DetailPlain' /\ DetailPlace'
    BY <1>1, <2>1, DetailRestKept DEF Rest
  <2>4. QED
    BY <2>2, <2>3 DEF DetailKept
<1>3. CASE ToolbarDown \/ InfoMoves \/ ListMoves \/ PeerMoves \/ Crossings \/ TabsUp \/ TabsTurn \/ Hovers
  BY <1>3, DetailKeysKept, Zenon
<1>4. CASE UNCHANGED rowVars /\ (DetailPlain' /\ DetailPlace')
  BY <1>1, <1>4 DEF DetailKept, DetailRowsKept, rowVars
<1>5. ASSUME NEW p \in Pages, OpenPage(p)
      PROVE  DetailKept'
  <2>1. UNCHANGED rowVars
    BY <1>5 DEF OpenPage
  <2>2. QED
    BY <1>1, <1>4, <1>5, <2>1, OpensKept
<1>6. CASE ClosePage
  <2>1. UNCHANGED rowVars
    BY <1>6 DEF ClosePage
  <2>2. QED
    BY <1>1, <1>4, <1>6, <2>1, ClosesKept
<1>7. CASE ShowDelete \/ openPeerDialog
  <2>1. UNCHANGED rowVars
    BY <1>7 DEF ShowDelete, openPeerDialog
  <2>2. QED
    BY <1>1, <1>4, <1>7, <2>1, DialogOpensKept
<1>8. CASE handleDeleteCancel \/ handlePeerDialogBack
  <2>1. UNCHANGED rowVars
    BY <1>8 DEF handleDeleteCancel, handlePeerDialogBack
  <2>2. QED
    BY <1>1, <1>4, <1>8, <2>1, DialogClosesKept
<1>9. ASSUME NEW success \in BOOLEAN, ConfirmDelete \/ handleDeleteResult(success)
      PROVE  DetailKept'
  <2>1. UNCHANGED rowVars
    BY <1>9 DEF ConfirmDelete, handleDeleteResult
  <2>2. QED
    BY <1>1, <1>4, <1>9, <2>1, DeletionKept
<1>10. ASSUME NEW removed \in BOOLEAN, RowGoes(removed)
       PROVE  DetailKept'
  <2>1. UNCHANGED rowVars
    BY <1>10 DEF RowGoes
  <2>2. QED
    BY <1>1, <1>4, <1>10, <2>1, RowGoesKept
<1>11. CASE RowReturns \/ BrowserOutlives
  <2>1. UNCHANGED rowVars
    BY <1>11 DEF RowReturns, BrowserOutlives
  <2>2. QED
    BY <1>1, <1>4, <1>11, <2>1, RowReturnsKept, OutlivesKept
<1>12. CASE Leave
  <2>1. UNCHANGED <<there, rowVars, deleting, outlived, detailEvents>> /\ Gone
    BY <1>12 DEF Leave
  <2>2. QED
    BY <1>1, <1>4, <2>1, GoneKept DEF DetailPlain
<1>13. CASE PeersChange
  <2>1. DetailRowsKept'
    BY <1>1, <1>13 DEF PeersChange, DetailRowsKept
  <2>2. DetailPlain' /\ DetailPlace'
    BY <1>1, <1>13, DetailRestKept DEF PeersChange, Rest
  <2>3. QED
    BY <2>1, <2>2 DEF DetailKept
<1>14. CASE DetailNext
  <2>1. (\E p \in {"browser", "export", "move"} : OpenPage(p)) => \E p \in Pages : OpenPage(p)
    BY DEF Pages
  <2>2. ConfirmDelete => DetailKept'
    BY <1>9
  <2>3. QED
    BY <1>3, <1>5, <1>6, <1>7, <1>8, <1>9, <1>10, <1>11, <1>12, <1>13, <1>14, <2>1, <2>2, Zenon DEF DetailNext
<1>15. QED
  BY <1>2, <1>14

\* ------------------------------------------------------------------
\* Keyboard areas, navigation and selection together
\* ------------------------------------------------------------------

LEMMA PlacesInit == mcInit => BrowserInit /\ DetailInit /\ NavInit /\ NavigationInit /\ InputInit
BY DEF mcInit

LEMMA PlacesNext ==
  [mcNext]_allVars => /\ [BrowserNext]_browserVars /\ [DetailNext]_detailVars /\ [NavNext]_navVars
                      /\ [NavigationNext]_navigationVars /\ [InputNext]_inputVars
<1>1. UNCHANGED allVars => /\ UNCHANGED browserVars /\ UNCHANGED detailVars /\ UNCHANGED navVars
                           /\ UNCHANGED navigationVars /\ UNCHANGED inputVars
  BY DEF allVars
<1>2. mcNext => BrowserNext \/ UNCHANGED browserVars
  BY DEF mcNext, Sameness
<1>3. mcNext => DetailNext \/ UNCHANGED detailVars
  BY DEF mcNext, Sameness
<1>4. mcNext => NavNext \/ UNCHANGED navVars
  BY DEF mcNext, Sameness
<1>5. mcNext => NavigationNext \/ UNCHANGED navigationVars
  BY DEF mcNext, Sameness
<1>6. mcNext => InputNext \/ UNCHANGED inputVars
  BY DEF mcNext, Sameness
<1>7. QED
  BY <1>1, <1>2, <1>3, <1>4, <1>5, <1>6

(* Every area of the keyboard is somebody's who is shown, and comes back   *)
(* to it (FileBrowser.svelte, DownloadDetail.svelte); the trail of pages   *)
(* follows the path (navigation.ts); every item is reached by the arrows   *)
(* from every other, and the selection is on an item unless rows moved     *)
(* under it or it was set unseen, and then an arrow leads back to one      *)
(* (navArea.svelte.ts): however many pages, dialogs, rows and items.       *)
THEOREM PlacesHold == mcSpec => []PlaceHolds
<1>1. mcInit => BrowserKept /\ DetailKept /\ NavInv /\ NavigationInv /\ InputInv
  BY PlacesInit, BrowserStartHolds, DetailStartHolds, NavInitHolds, NavigationInitHolds, InputInitHolds
<1>2. BrowserKept /\ [mcNext]_allVars => BrowserKept'
  BY PlacesNext, BrowserStepHolds
<1>3. DetailKept /\ [mcNext]_allVars => DetailKept'
  BY PlacesNext, DetailStepHolds
<1>4. NavInv /\ [mcNext]_allVars => NavInv'
  BY PlacesNext, NavNextHolds
<1>5. NavigationInv /\ [mcNext]_allVars => NavigationInv'
  BY PlacesNext, NavigationNextHolds
<1>6. InputInv /\ [mcNext]_allVars => InputInv'
  BY PlacesNext, InputNextHolds
<1>7. BrowserKept /\ DetailKept /\ NavInv /\ NavigationInv /\ InputInv => PlaceHolds
  BY BrowserIsFine, DetailIsFine, NavIsFine, InputIsTyped DEF NavigationInv, PlaceHolds
<1>8. QED
  BY <1>1, <1>2, <1>3, <1>4, <1>5, <1>6, <1>7, PTL DEF mcSpec
=============================================================================
