------------------------------- MODULE Input -------------------------------
(***************************************************************************)
(* The input of the frontend: the keyboard, the game pad and the mouse,    *)
(* and the actions each of them sends to the active area.  A key that is   *)
(* held repeats, a pad is read once per frame and compared with the frame  *)
(* before, a hover is handled one frame after it happened, and the window  *)
(* may lose the focus between any two of these.                            *)
(*                                                                         *)
(* Source: frontend/src/scripts/input/keyboard.ts, gamepad.ts, mouse.ts,   *)
(* input.ts and focus.ts.                                                  *)
(***************************************************************************)
EXTENDS Integers, FiniteSets

CONSTANTS
    MaxInputEvents   \* bound: how often the user touches a device

ASSUME InputAssumption == MaxInputEvents \in Nat

Arrows == {"up"}
Volumes == {"plus"}
Confirming == {"Enter", "Space"}
Keyboard == Arrows \cup Volumes \cup Confirming \cup {"PageUp", "Escape", "F2", "letter"}
\* Buttons 0, 1, 3, 4, 8, 9 and one of the directions.
Pad == {"A", "B", "low", "high", "Select", "Start", "down"}
HoverTarget == {"item1", "item2", "wrapper", "outside"}
NoKey == "no key"
NoTarget == "no target"
InArea(target) == IF target = "item2" THEN "area2" ELSE "area1"

VARIABLES
    active,      \* windowActive: the window is visible and has the focus
    heldKeys,    \* the keys that are down, seen or not
    keys,        \* the keyboard manager
    fullscreen,  \* fullscreenLocked and fullscreenJustExited
    gamepad,     \* the pad itself: plugged in, and the buttons that are down
    pad,         \* the game pad manager
    mouse,       \* the mouse manager
    chosen,      \* the active area and the target selected in it
    said,        \* the actions the last step sent
    owed,        \* the confirmations begun and not ended, by device
    inputEvents  \* how much of MaxInputEvents is used

inputVars == <<active, heldKeys, keys, fullscreen, gamepad, pad, mouse, chosen,
               said, owed, inputEvents>>

IdleKeys == [held |-> NoKey, repeat |-> "off", confirm |-> FALSE]
IdlePad == [on |-> FALSE, polling |-> FALSE, previous |-> {}, combined |-> {},
            moving |-> FALSE, volume |-> NoKey]
IdleMouse == [started |-> FALSE, moved |-> TRUE, visible |-> TRUE, hiding |-> FALSE,
              pending |-> NoTarget, frame |-> FALSE, item |-> NoTarget, area |-> NoTarget]

InputTypeOK ==
    /\ active \in BOOLEAN
    /\ heldKeys \subseteq Keyboard
    /\ keys \in [held : Arrows \cup Volumes \cup {NoKey},
                 repeat : {"off", "waiting", "on"}, confirm : BOOLEAN]
    /\ fullscreen \in [locked : BOOLEAN, exited : BOOLEAN]
    /\ gamepad \in [there : BOOLEAN, pressed : SUBSET Pad]
    /\ pad \in [on : BOOLEAN, polling : BOOLEAN, previous : SUBSET Pad,
                combined : SUBSET Pad, moving : BOOLEAN, volume : {"low", "high", NoKey}]
    /\ mouse \in [started : BOOLEAN, moved : BOOLEAN, visible : BOOLEAN, hiding : BOOLEAN,
                  pending : HoverTarget \cup {NoTarget}, frame : BOOLEAN,
                  item : HoverTarget \cup {NoTarget}, area : {"area1", "area2", NoTarget}]
    /\ chosen \in [area : {"area1", "area2"}, item : HoverTarget \cup {NoTarget}]
    /\ owed \in [keyboard : BOOLEAN, pad : BOOLEAN]
    /\ inputEvents \in 0 .. MaxInputEvents

InputInit ==
    /\ active = TRUE
    /\ heldKeys = {}
    /\ keys = IdleKeys
    /\ fullscreen = [locked |-> FALSE, exited |-> FALSE]
    /\ gamepad = [there |-> FALSE, pressed |-> {}]
    /\ pad = IdlePad
    /\ mouse = [IdleMouse EXCEPT !.started = TRUE, !.hiding = TRUE]
    /\ chosen = [area |-> "area1", item |-> NoTarget]
    /\ said = {}
    /\ owed = [keyboard |-> FALSE, pad |-> FALSE]
    /\ inputEvents = 0

Touches ==
    /\ inputEvents < MaxInputEvents
    /\ inputEvents' = inputEvents + 1

Says(actions) == said' = actions
SaysNothing == Says({})

----------------------------------------------------------------------------
(* The keyboard.  keydown reaches the mouse manager first: it listens on   *)
(* the document, in the capture phase, and takes every key.                *)

Hidden(m) == IF m.started
             THEN [m EXCEPT !.moved = FALSE, !.visible = FALSE, !.hiding = FALSE]
             ELSE m

Holds(key) == [keys EXCEPT !.held = key, !.repeat = "waiting"]

\* Escape leaves the full screen and does not go back.
Suppressed == fullscreen.locked \/ fullscreen.exited

Pressed(key) ==
    CASE key \in Arrows -> {key}
      [] key \in Volumes -> {"volume"}
      [] key \in Confirming -> IF keys.confirm THEN {} ELSE {"confirmDown"}
      [] key = "PageUp" -> {"pageUp"}
      [] key = "Escape" -> IF Suppressed THEN {} ELSE {"back"}
      [] key = "F2" -> {"reload"}
      [] OTHER -> {"typed"}

KeyDown(key, typing) ==
    /\ Touches
    /\ active
    /\ key \notin heldKeys
    /\ heldKeys' = heldKeys \cup {key}
    /\ mouse' = Hidden(mouse)
    /\ IF typing
       THEN UNCHANGED <<keys, owed>> /\ SaysNothing
       ELSE /\ keys' = IF key \in Arrows \cup Volumes THEN
                            IF keys.held = key THEN keys ELSE Holds(key)
                       ELSE IF key \in Confirming THEN [keys EXCEPT !.confirm = TRUE]
                       ELSE keys
            /\ owed' = [owed EXCEPT !.keyboard = @ \/ "confirmDown" \in Pressed(key)]
            /\ Says(IF keys.held = key THEN {} ELSE Pressed(key))
    /\ UNCHANGED <<active, fullscreen, gamepad, pad, chosen>>

\* keyup takes no notice of where the focus is.
KeyUp(key) ==
    /\ active
    /\ key \in heldKeys
    /\ heldKeys' = heldKeys \ {key}
    /\ LET ends == key \in Confirming /\ keys.confirm
           cleared == IF keys.held = key THEN [keys EXCEPT !.held = NoKey, !.repeat = "off"]
                      ELSE keys
       IN /\ keys' = [cleared EXCEPT !.confirm = @ /\ ~ends]
          /\ owed' = [owed EXCEPT !.keyboard = @ /\ ~ends]
          /\ Says(IF ends THEN {"confirmUp by key"} ELSE {})
    /\ UNCHANGED <<active, fullscreen, gamepad, pad, mouse, chosen, inputEvents>>

\* A key let go while another window has the focus is never heard of.
KeyUpUnseen(key) ==
    /\ ~active
    /\ key \in heldKeys
    /\ heldKeys' = heldKeys \ {key}
    /\ SaysNothing
    /\ UNCHANGED <<active, keys, fullscreen, gamepad, pad, mouse, chosen, owed, inputEvents>>

\* inputInitialDelay, then every inputRepeatDelay.
RepeatStarts ==
    /\ keys.repeat = "waiting"
    /\ keys' = [keys EXCEPT !.repeat = "on"]
    /\ SaysNothing
    /\ UNCHANGED <<active, heldKeys, fullscreen, gamepad, pad, mouse, chosen, owed, inputEvents>>

Repeats ==
    /\ keys.repeat = "on"
    /\ Says(Pressed(keys.held))
    /\ UNCHANGED <<active, heldKeys, keys, fullscreen, gamepad, pad, mouse, chosen, owed,
                   inputEvents>>

\* Header.svelte locks; the browser leaves the full screen by itself; 200 ms.
Fullscreen ==
    /\ Touches
    /\ fullscreen' \in {[fullscreen EXCEPT !.locked = ~fullscreen.locked],
                        [locked |-> FALSE, exited |-> fullscreen.locked \/ fullscreen.exited]}
    /\ SaysNothing
    /\ UNCHANGED <<active, heldKeys, keys, gamepad, pad, mouse, chosen, owed>>

FullscreenOver ==
    /\ fullscreen.exited
    /\ fullscreen' = [fullscreen EXCEPT !.exited = FALSE]
    /\ SaysNothing
    /\ UNCHANGED <<active, heldKeys, keys, gamepad, pad, mouse, chosen, owed, inputEvents>>

----------------------------------------------------------------------------
(* The game pad: its buttons are compared with those of the last frame.    *)

With(button) == button \in gamepad.pressed
New(p, button) == With(button) /\ button \notin p.previous
Combined == With("Select") \/ With("Start")

\* Mutant: a release is sent whatever the press was.
ComboForgotten(p) ==
    (IF New(p, "A") /\ ~Combined THEN {"aDown"} ELSE {})
        \cup (IF ~With("A") /\ "A" \in p.previous THEN {"aUp"} ELSE {})

handleButtons(p) ==
    {action \in {"aDown", "pageDown", "aUp", "back", "pageUp", "end", "home", "reload"} :
        CASE action = "pageDown" -> New(p, "A") /\ With("Select")
          [] action = "aDown" -> New(p, "A") /\ ~Combined
          [] action = "aUp" -> ~With("A") /\ "A" \in p.previous /\ "A" \notin p.combined
          [] action = "pageUp" -> New(p, "B") /\ With("Select")
          [] action = "back" -> New(p, "B") /\ ~Combined
          [] action = "end" -> New(p, "low") /\ With("Select")
          [] action = "home" -> New(p, "high") /\ With("Select")
          [] action = "reload" -> New(p, "high") /\ ~With("Select") /\ With("Start")}

\* A direction is sent when it is due: at once, then after the delay.
handleDirections(due) == IF With("down") /\ due THEN {"down"} ELSE {}

VolumeButton == IF Combined THEN NoKey
                ELSE IF With("high") THEN "high" ELSE IF With("low") THEN "low" ELSE NoKey

handleVolume(p, due) ==
    IF VolumeButton # NoKey /\ (VolumeButton # p.volume \/ due) THEN {"volume"} ELSE {}

\* What a frame makes of the manager ...
poll(p, due) ==
    IF ~p.on THEN p
    ELSE IF ~gamepad.there THEN [p EXCEPT !.on = FALSE, !.polling = FALSE]
    ELSE [p EXCEPT !.polling = TRUE,
                   !.previous = gamepad.pressed,
                   !.combined = {b \in gamepad.pressed :
                                    IF New(p, b) THEN Combined ELSE b \in p.combined},
                   !.moving = With("down") /\ (p.moving \/ due),
                   !.volume = VolumeButton]

\* ... and what it sends.
Polled(p, due) ==
    IF p.on /\ gamepad.there
    THEN handleButtons(p) \cup handleDirections(due) \cup handleVolume(p, due)
    ELSE {}

stopPolling(p) == [p EXCEPT !.polling = FALSE, !.moving = FALSE,
                            !.previous = {}, !.combined = {}]

Settles(actions) == owed' = [owed EXCEPT !.pad = (@ \/ "aDown" \in actions)
                                                  /\ "aUp" \notin actions]

\* startPolling reads the pad at once, unless it already does.
startPolling(p) ==
    \E due \in BOOLEAN :
        LET starts == ~p.polling
            sent == IF starts THEN Polled(p, due) ELSE {}
        IN /\ pad' = IF starts THEN poll(p, due) ELSE p
           /\ Settles(sent)
           /\ Says(sent)

Frame ==
    /\ pad.polling
    /\ \E due \in BOOLEAN :
           /\ pad' = poll(pad, due)
           /\ Settles(Polled(pad, due))
           /\ Says(Polled(pad, due))
    /\ UNCHANGED <<active, heldKeys, keys, fullscreen, gamepad, mouse, chosen, inputEvents>>

\* The user plugs the pad in or out; the browser tells of it afterwards.
PadPlugged ==
    /\ Touches
    /\ gamepad' = [there |-> ~gamepad.there, pressed |-> {}]
    /\ SaysNothing
    /\ UNCHANGED <<active, heldKeys, keys, fullscreen, pad, mouse, chosen, owed>>

handleConnect ==
    /\ gamepad.there
    /\ ~pad.on
    /\ IF active THEN startPolling([pad EXCEPT !.on = TRUE])
       ELSE pad' = [pad EXCEPT !.on = TRUE] /\ UNCHANGED owed /\ SaysNothing
    /\ UNCHANGED <<active, heldKeys, keys, fullscreen, gamepad, mouse, chosen, inputEvents>>

handleDisconnect ==
    /\ ~gamepad.there
    /\ pad' = [stopPolling(pad) EXCEPT !.on = FALSE]
    /\ pad' # pad
    /\ SaysNothing
    /\ UNCHANGED <<active, heldKeys, keys, fullscreen, gamepad, mouse, chosen, owed, inputEvents>>

PadTouched(button) ==
    /\ Touches
    /\ gamepad.there
    /\ gamepad' = [gamepad EXCEPT !.pressed = IF button \in @ THEN @ \ {button}
                                              ELSE @ \cup {button}]
    /\ SaysNothing
    /\ UNCHANGED <<active, heldKeys, keys, fullscreen, pad, mouse, chosen, owed>>

\* windowActive: the pad is read by the window that has the focus.
WindowLeft ==
    /\ Touches
    /\ active
    /\ active' = FALSE
    /\ pad' = stopPolling(pad)
    /\ SaysNothing
    /\ UNCHANGED <<heldKeys, keys, fullscreen, gamepad, mouse, chosen, owed>>

WindowBack ==
    /\ ~active
    /\ active' = TRUE
    /\ IF pad.on THEN startPolling(pad) ELSE UNCHANGED <<pad, owed>> /\ SaysNothing
    /\ UNCHANGED <<heldKeys, keys, fullscreen, gamepad, mouse, chosen, inputEvents>>

----------------------------------------------------------------------------
(* The mouse.                                                              *)

Seen(m) == [m EXCEPT !.moved = TRUE, !.visible = TRUE, !.hiding = TRUE]

\* Only a move to other coordinates counts: the browser repeats mousemove when
\* the page scrolls under the cursor.
handleMouseMove ==
    /\ Touches
    /\ mouse.started
    /\ mouse' = Seen(mouse)
    /\ SaysNothing
    /\ UNCHANGED <<active, heldKeys, keys, fullscreen, gamepad, pad, chosen, owed>>

\* mouseover: of a moved mouse, or of a row scrolled under a resting one.
handleDelegatedMouseOver(target) ==
    /\ Touches
    /\ mouse.started
    /\ mouse' = [mouse EXCEPT !.pending = target, !.frame = TRUE]
    /\ SaysNothing
    /\ UNCHANGED <<active, heldKeys, keys, fullscreen, gamepad, pad, chosen, owed>>

Chooses(target) ==
    chosen' = [area |-> InArea(target),
               item |-> IF target = "wrapper" THEN chosen.item ELSE target]

processHover ==
    /\ mouse.frame
    /\ LET target == mouse.pending
           rest == [mouse EXCEPT !.pending = NoTarget, !.frame = FALSE]
       IN \/ /\ ~mouse.moved
             /\ mouse' = rest
             /\ UNCHANGED chosen
          \/ /\ mouse.moved
             /\ target \in {"item1", "item2"}
             /\ IF mouse.item = target
                THEN mouse' = rest /\ UNCHANGED chosen
                ELSE /\ mouse' = [rest EXCEPT !.item = target, !.area = InArea(target)]
                     /\ Chooses(target)
          \/ /\ mouse.moved
             /\ target \in {"wrapper", "outside"}
             /\ IF target = "wrapper" /\ mouse.area # InArea(target)
                THEN /\ mouse' = [rest EXCEPT !.item = NoTarget, !.area = InArea(target)]
                     /\ Chooses(target)
                ELSE mouse' = [rest EXCEPT !.item = NoTarget] /\ UNCHANGED chosen
    /\ SaysNothing
    /\ UNCHANGED <<active, heldKeys, keys, fullscreen, gamepad, pad, owed, inputEvents>>

\* mousedown, then click.
handleDelegatedClick(target) ==
    /\ Touches
    /\ mouse.started
    /\ mouse' = Seen(mouse)
    /\ IF target = "outside" THEN UNCHANGED chosen ELSE Chooses(target)
    /\ Says(IF target \in {"item1", "item2"} THEN {"onConfirm"} ELSE {})
    /\ UNCHANGED <<active, heldKeys, keys, fullscreen, gamepad, pad, owed>>

ContextMenu ==
    /\ Touches
    /\ mouse.started
    /\ mouse' = Seen(mouse)
    /\ Says({"back"})
    /\ UNCHANGED <<active, heldKeys, keys, fullscreen, gamepad, pad, chosen, owed>>

\* CURSOR_HIDE_DELAY.
CursorHides ==
    /\ mouse.hiding
    /\ mouse' = [mouse EXCEPT !.hiding = FALSE, !.moved = FALSE, !.visible = FALSE]
    /\ SaysNothing
    /\ UNCHANGED <<active, heldKeys, keys, fullscreen, gamepad, pad, chosen, owed, inputEvents>>

\* The setting mouseSupportEnabled: stop() and start() of the mouse manager.
MouseSupport ==
    /\ Touches
    /\ mouse' = IF mouse.started THEN IdleMouse
                ELSE [mouse EXCEPT !.started = TRUE, !.hiding = TRUE]
    /\ SaysNothing
    /\ UNCHANGED <<active, heldKeys, keys, fullscreen, gamepad, pad, chosen, owed>>

InputNext ==
    \/ \E key \in Keyboard, typing \in BOOLEAN : KeyDown(key, typing)
    \/ \E key \in Keyboard : KeyUp(key) \/ KeyUpUnseen(key)
    \/ RepeatStarts \/ Repeats \/ Fullscreen \/ FullscreenOver
    \/ Frame \/ PadPlugged \/ handleConnect \/ handleDisconnect
    \/ \E button \in Pad : PadTouched(button)
    \/ WindowLeft \/ WindowBack
    \/ handleMouseMove \/ processHover \/ ContextMenu \/ CursorHides \/ MouseSupport
    \/ \E target \in HoverTarget : handleDelegatedMouseOver(target) \/ handleDelegatedClick(target)

InputSpec == InputInit /\ [][InputNext]_inputVars

----------------------------------------------------------------------------

\* A device ends a confirmation only if it began one: a press that was a
\* shortcut with SELECT or START, that began in another window or that another
\* confirm key already ended does not press the selected item.  Checked over
\* frames of the pad, keys held together and losses of the focus
\* (gamepad.ts handleButtons, keyboard.ts keyup).
UpNeedsDown ==
    [][/\ "aUp" \in said' => owed.pad
       /\ "confirmUp by key" \in said' => owed.keyboard]_inputVars
=============================================================================
