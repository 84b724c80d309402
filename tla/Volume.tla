------------------------------- MODULE Volume -------------------------------
(***************************************************************************)
(* The volume of the host, between three who set it: the user at the       *)
(* mixer, this client and another one.  The backend writes one value at a  *)
(* time and skips to the newest, watches the mixer for changes that are    *)
(* not its own, and tells the clients; the client adjusts from the level   *)
(* it shows, holds back what arrives while it adjusts, and reads the mixer *)
(* after each connect.                                                     *)
(*                                                                         *)
(* Calls of the client are handled as they are sent; what the backend      *)
(* sends takes its time.  The client has one reading of the mixer on the   *)
(* way at a time.                                                          *)
(*                                                                         *)
(* Source: backend/src/system-volume.ts, backend/src/api/system.ts,        *)
(* frontend/src/scripts/settings.ts (volume).                              *)
(***************************************************************************)
EXTENDS Integers, Sequences, FiniteSetsExt

CONSTANTS
    MaxLevel,         \* the levels are 0 .. MaxLevel
    MaxVolumeEvents,  \* bound: changes at the mixer, edits, failures, lost connections
    MaxSaving,        \* bound: calls of setVolume that wait for the settings
    MaxTold           \* bound: what is on the way to the client

ASSUME VolumeAssumption ==
    MaxLevel \in Nat \ {0} /\ MaxVolumeEvents \in Nat /\ MaxSaving \in Nat /\ MaxTold \in Nat

Level == 0 .. MaxLevel
NoLevel == -1
Asker == {"client", "other"}

\* A VolumeStatus: is there a device, and its level.
VolumeStatus == [available : BOOLEAN, level : Level \cup {NoLevel}]
Absent == [available |-> FALSE, level |-> NoLevel]
\* No mixer's: a reading that failed, or nothing read yet.
Unsure == [available |-> TRUE, level |-> NoLevel]

VARIABLES
    mixer,        \* the OS: its device and level
    landing,      \* a level that was written and the getter does not show yet
    writer,       \* createSerializedWriter: the write under way, who waits for
                  \* it, the queued value, whose waiter that is; settling
    newest,       \* history: the newest value asked for since writing began
    saving,       \* calls of setVolume that wait for the settings to be saved
    saved,        \* the setting audio.volume
    lastKnown,    \* lastKnownAvailable
    last,         \* what the watcher remembers
    startup,      \* the reading of the start, and whether no call came since
    watcher,      \* the reading of the watcher, and whether it has to read again
    link,         \* the client's connection, and whether it is subscribed
    told,         \* what is on the way to the client
    reading,      \* the client's reading of the mixer
    display,      \* the client: level, available, known
    edit,         \* value to send, the guard after an edit, the level held back
    retry,        \* reconcileVolumeWithOS is to read again
    stray,        \* history: the client read what the watcher does not remember,
                  \* and was told nothing since
    volumeEvents  \* how much of MaxVolumeEvents is used

writeVars == <<writer, newest, saving, landing>>
watchedVars == <<lastKnown, last, startup, watcher>>
volumeClientVars == <<link, reading, display, edit, retry, stray>>
volumeVars == <<mixer, writeVars, saved, watchedVars, told, volumeClientVars, volumeEvents>>

VolumeTypeOK ==
    /\ mixer \in VolumeStatus
    /\ landing \in Level \cup {NoLevel}
    /\ writer \in [now : Level \cup {NoLevel}, first : SUBSET Asker, served : SUBSET Asker,
                   queued : Level \cup {NoLevel}, waiting : SUBSET Asker, settling : BOOLEAN]
    /\ saved \in Level /\ lastKnown \in BOOLEAN
    /\ last \in VolumeStatus
    /\ startup \in [read : VolumeStatus, clean : BOOLEAN]
    /\ watcher \in [reads : BOOLEAN, read : VolumeStatus, again : BOOLEAN]
    /\ reading \in [reads : BOOLEAN, read : VolumeStatus, stale : BOOLEAN]
    /\ display \in [level : Level, available : BOOLEAN, known : BOOLEAN]
    /\ edit \in [send : Level \cup {NoLevel}, guard : BOOLEAN, held : Level \cup {NoLevel}]
    /\ Len(told) <= MaxTold + 2
    /\ volumeEvents \in 0 .. MaxVolumeEvents

NoWrite == [now |-> NoLevel, first |-> {}, served |-> {}, queued |-> NoLevel, waiting |-> {},
         settling |-> FALSE]

NoPoll == [reads |-> FALSE, read |-> Unsure, again |-> FALSE]
NoReading == [reads |-> FALSE, read |-> Unsure, stale |-> FALSE]

\* The app starts beside a mixer that stands where it stands.
VolumeInit ==
    /\ mixer = [available |-> TRUE, level |-> 1]
    /\ landing = NoLevel
    /\ writer = NoWrite /\ newest = NoLevel
    /\ saving = <<>> /\ saved = 0
    /\ lastKnown = TRUE /\ last = Unsure
    /\ \E s \in {mixer, Unsure} : startup = [read |-> s, clean |-> TRUE]
    /\ watcher = NoPoll
    /\ link = [up |-> FALSE, heard |-> FALSE] /\ told = <<>>
    /\ reading = NoReading
    /\ display = [level |-> 1, available |-> TRUE, known |-> FALSE]
    /\ edit = [send |-> NoLevel, guard |-> FALSE, held |-> NoLevel]
    /\ retry = FALSE /\ stray = FALSE
    /\ volumeEvents = 0

VolumeEvent ==
    /\ volumeEvents < MaxVolumeEvents
    /\ volumeEvents' = volumeEvents + 1

RoomToTell == Len(told) < MaxTold

----------------------------------------------------------------------------
(* The mixer.                                                              *)

\* The user turns it, unplugs the device or plugs one in.
Turns ==
    /\ VolumeEvent
    /\ mixer' \in {s \in VolumeStatus : s.available <=> s.level # NoLevel} \ {mixer}
    /\ landing' = IF mixer'.available THEN landing ELSE NoLevel
    /\ UNCHANGED <<writer, newest, saving, saved, watchedVars, told, volumeClientVars>>

\* A level that was written shows.
Lands ==
    /\ landing # NoLevel
    /\ mixer' = [available |-> TRUE, level |-> landing]
    /\ landing' = NoLevel
    /\ UNCHANGED <<writer, newest, saving, saved, watchedVars, told, volumeClientVars,
                   volumeEvents>>

\* readMixer: what it finds, or a helper that timed out.
Read(s) ==
    \/ s = mixer /\ UNCHANGED volumeEvents
    \/ s = Unsure /\ VolumeEvent

----------------------------------------------------------------------------
(* Writing.                                                                *)

Running == writer.now # NoLevel
isBusy == Running \/ writer.settling

broadcast(status) ==
    IF link.heard THEN <<[what |-> "event", status |-> status]>> ELSE <<>>

\* setVolume saves the preference first.
setVolume(by, level) ==
    /\ Len(saving) < MaxSaving
    /\ saved' = level
    /\ saving' = Append(saving, [by |-> by, level |-> level])
    /\ startup' = [startup EXCEPT !.clean = (startup.read = Unsure)]

OtherSets ==
    /\ VolumeEvent
    /\ \E level \in Level : setVolume("other", level)
    /\ UNCHANGED <<mixer, landing, writer, newest, lastKnown, last, watcher, told,
                   volumeClientVars>>

\* A write that reaches a device shows some time later.
writeMixer(level) == landing' = IF mixer.available THEN level ELSE NoLevel

\* Mutant: the queue keeps the first value that waits.
KeepsFirst ==
    /\ saving # <<>>
    /\ saving' = Tail(saving)
    /\ newest' = Head(saving).level
    /\ LET call == Head(saving)
       IN IF Running
          THEN /\ writer' = [writer EXCEPT !.queued = IF @ = NoLevel THEN call.level ELSE @,
                                           !.waiting = @ \cup {call.by}]
               /\ UNCHANGED landing
          ELSE /\ writer' = [writer EXCEPT !.now = call.level, !.first = {call.by}]
               /\ writeMixer(call.level)
    /\ UNCHANGED <<mixer, saved, watchedVars, told, volumeClientVars, volumeEvents>>

\* The queue keeps the newest; the one it replaces is answered with it.
run ==
    /\ saving # <<>>
    /\ saving' = Tail(saving)
    /\ newest' = Head(saving).level
    /\ LET call == Head(saving)
       IN IF Running
          THEN /\ writer' = [writer EXCEPT !.queued = call.level, !.waiting = @ \cup {call.by}]
               /\ UNCHANGED landing
          ELSE /\ writer' = [writer EXCEPT !.now = call.level, !.first = {call.by}]
               /\ writeMixer(call.level)
    /\ UNCHANGED <<mixer, saved, watchedVars, told, volumeClientVars, volumeEvents>>

\* A write is answered: the watcher remembers what the mixer ended on, and all
\* clients hear it, the ones that asked as an answer too.
Answers(askers, status, told0) ==
    IF askers = {} THEN UNCHANGED <<last, told>>
    ELSE /\ last' = status
         /\ told' = told0 \o broadcast(status)
                        \o (IF "client" \in askers /\ link.up
                            THEN <<[what |-> "answer", status |-> status]>> ELSE <<>>)

\* The write ends; the queued value is written next, and whoever started the
\* chain is answered with the last result.
WriteEnds ==
    /\ Running
    /\ RoomToTell
    /\ \E kind \in {"ok", "no-device", "error"} :
           LET more == writer.queued # NoLevel
               askers == writer.served \cup (IF more THEN {} ELSE writer.first)
               available == IF kind = "error" THEN lastKnown ELSE kind = "ok"
               status == [available |-> available,
                          level |-> IF kind = "ok" THEN writer.now ELSE NoLevel]
           IN /\ kind = "ok" => mixer.available
              /\ kind = "no-device" => ~mixer.available
              /\ IF kind = "error" THEN VolumeEvent ELSE UNCHANGED volumeEvents
              /\ lastKnown' = IF askers = {} THEN lastKnown ELSE available
              /\ Answers(askers, status, told)
              /\ IF more
                 THEN /\ writer' = [writer EXCEPT !.now = writer.queued, !.served = writer.waiting,
                                                  !.queued = NoLevel, !.waiting = {}]
                      /\ UNCHANGED newest
                      /\ writeMixer(writer.queued)
                 ELSE /\ writer' = [NoWrite EXCEPT !.settling = TRUE]
                      /\ newest' = NoLevel
                      /\ IF kind = "error" THEN landing' \in {landing, NoLevel}
                         ELSE UNCHANGED landing
    /\ UNCHANGED <<mixer, saving, saved, startup, watcher, volumeClientVars>>

\* WRITE_SETTLE_MS are over, and the getter shows what was written.
WriteSettles ==
    /\ writer.settling /\ ~Running
    /\ landing = NoLevel
    /\ writer' = [writer EXCEPT !.settling = FALSE]
    /\ UNCHANGED <<mixer, landing, newest, saving, saved, watchedVars, told, volumeClientVars,
                   volumeEvents>>

----------------------------------------------------------------------------
(* Watching.                                                               *)

\* What differs from what was seen last is saved and told, unless a write is
\* under way or settling.
ingest(status) ==
    IF isBusy \/ last = status THEN UNCHANGED <<last, saved, lastKnown, told, stray>>
    ELSE /\ last' = status
         /\ saved' = IF status.available /\ status.level # NoLevel THEN status.level ELSE saved
         /\ lastKnown' = status.available
         /\ told' = told \o broadcast(status)
         /\ stray' = (stray /\ ~link.heard)

\* The start adopts what it read, unless a call came since.
Adopts ==
    /\ startup.read # Unsure
    /\ startup' = [read |-> Unsure, clean |-> TRUE]
    /\ IF isBusy \/ ~startup.clean THEN UNCHANGED <<lastKnown, last, saved>>
       ELSE /\ lastKnown' = startup.read.available
            /\ last' = startup.read
            /\ saved' = IF startup.read.available THEN startup.read.level ELSE saved
    /\ UNCHANGED <<mixer, writeVars, watcher, told, volumeClientVars, volumeEvents>>

\* The interval, first when the reading of the start is over (nothing makes it
\* wait: a reading that takes the five seconds of the interval is left out);
\* and on Linux the monitor, which runs while there is a device.  A poll reads
\* the mixer again if one was asked for while it read.
PollStarts ==
    /\ startup.read = Unsure
    /\ ~isBusy
    /\ \/ /\ ~watcher.reads
          /\ \E s \in {mixer, Unsure} :
                 Read(s) /\ watcher' = [reads |-> TRUE, read |-> s, again |-> FALSE]
       \/ /\ watcher.reads
          /\ watcher' = [watcher EXCEPT !.again = TRUE]
          /\ UNCHANGED volumeEvents
    /\ UNCHANGED <<mixer, writeVars, saved, lastKnown, last, startup, told, volumeClientVars>>

PollEnds ==
    /\ watcher.reads
    /\ RoomToTell
    /\ \/ /\ ~watcher.again
          /\ watcher' = NoPoll
          /\ UNCHANGED volumeEvents
       \/ /\ watcher.again
          /\ \E s \in {mixer, Unsure} :
                 Read(s) /\ watcher' = [reads |-> TRUE, read |-> s, again |-> FALSE]
    /\ IF watcher.read = Unsure THEN UNCHANGED <<last, saved, lastKnown, told, stray>>
       ELSE ingest(watcher.read)
    /\ UNCHANGED <<mixer, writeVars, startup, link, reading, display, edit, retry>>

\* On Windows the monitor tells the level itself.
MonitorTells ==
    /\ startup.read = Unsure
    /\ last.available /\ mixer.available
    /\ RoomToTell
    /\ ingest(mixer)
    /\ UNCHANGED <<mixer, writeVars, startup, watcher, link, reading, display, edit, retry,
                   volumeEvents>>

\* getVolume reads the mixer, and is answered: with the level that was saved
\* if the reading failed.
Asks == \E s \in {mixer, Unsure} :
    Read(s) /\ reading' = [reads |-> TRUE, read |-> s, stale |-> FALSE]

getVolume ==
    /\ reading.reads
    /\ RoomToTell
    /\ LET known == reading.read # Unsure
       IN /\ lastKnown' = IF known THEN reading.read.available ELSE lastKnown
          /\ told' = Append(told,
                [what |-> "reading", known |-> known, stale |-> reading.stale,
                 status |-> IF known THEN reading.read
                            ELSE [available |-> lastKnown,
                                  level |-> IF lastKnown THEN saved ELSE NoLevel]])
    /\ reading' = NoReading
    /\ UNCHANGED <<mixer, writeVars, saved, last, startup, watcher, link, display, edit, retry,
                   stray, volumeEvents>>

----------------------------------------------------------------------------
(* The client.                                                             *)

\* volumeGeneration++: the readings on the way are of an older generation.
Outdated(list) == [i \in DOMAIN list |->
    IF list[i].what = "reading" THEN [list[i] EXCEPT !.stale = TRUE] ELSE list[i]]

\* Two seconds later, when what was held back is shown; a value that is to be
\* sent connects at once.
Connects ==
    /\ ~link.up
    /\ edit.held = NoLevel /\ (edit.guard => edit.send # NoLevel)
    /\ link' = [link EXCEPT !.up = TRUE]
    /\ told' = <<[what |-> "settings", level |-> saved]>>
    /\ UNCHANGED <<mixer, writeVars, saved, watchedVars, reading, display, edit, retry, stray,
                   volumeEvents>>

\* loadSettings: the persisted level until the mixer is read; listens first.
loadSettings(level) ==
    /\ display' = [display EXCEPT !.level = level, !.known = FALSE]
    /\ link' = [link EXCEPT !.heard = TRUE]
    /\ Asks
    /\ told' = Tail(told)
    /\ UNCHANGED <<edit, retry, stray>>

\* The answer of a reading counts unless something newer was heard or done.
reconcileVolumeWithOS(answer) ==
    /\ IF answer.stale THEN UNCHANGED <<display, retry, stray>>
       ELSE /\ display' = [level |-> IF answer.status.available THEN answer.status.level
                                   ELSE display.level,
                         available |-> answer.status.available,
                         known |-> display.known \/ answer.known]
            /\ retry' = (retry \/ ~answer.known)
            /\ stray' = (answer.known /\ answer.status # last)
    /\ told' = Tail(told)
    /\ UNCHANGED <<link, reading, edit>>

\* A reading that was no live one is asked for again, until one is known.
RetryFires ==
    /\ retry /\ link.up
    /\ ~reading.reads /\ \A i \in DOMAIN told : told[i].what \notin {"reading", "settings"}
    /\ retry' = FALSE
    /\ IF display.known THEN UNCHANGED <<reading, volumeEvents>> ELSE Asks
    /\ UNCHANGED <<mixer, writeVars, saved, watchedVars, told, link, display, edit, stray>>

\* The device shows at once, the level when nobody adjusts it.
Displayed(status) ==
    [level |-> IF status.available /\ ~edit.guard THEN status.level ELSE display.level,
     available |-> status.available, known |-> TRUE]

\* Mutant: a level that arrives during an adjustment is dropped.
DropsLevel(status) ==
    IF status.available /\ status.level = NoLevel
    THEN /\ display' = [display EXCEPT !.available = TRUE]
         /\ told' = Tail(told)
         /\ UNCHANGED <<link, reading, edit, retry, stray>>
    ELSE /\ display' = Displayed(status)
         /\ edit' = [edit EXCEPT !.held = NoLevel]
         /\ told' = Outdated(Tail(told))
         /\ reading' = [reading EXCEPT !.stale = reading.reads]
         /\ retry' = FALSE
         /\ UNCHANGED <<link, stray>>

\* An event: one that carries no level only says that there is a device; any
\* other outdates the readings on the way, and its level is held back while the
\* user adjusts.
volumeChanged(status) ==
    IF status.available /\ status.level = NoLevel
    THEN /\ display' = [display EXCEPT !.available = TRUE]
         /\ told' = Tail(told)
         /\ UNCHANGED <<link, reading, edit, retry, stray>>
    ELSE /\ display' = Displayed(status)
         /\ edit' = IF status.available
                    THEN [edit EXCEPT !.held = IF edit.guard THEN status.level ELSE NoLevel]
                    ELSE edit
         /\ told' = Outdated(Tail(told))
         /\ reading' = [reading EXCEPT !.stale = reading.reads]
         /\ retry' = FALSE
         /\ UNCHANGED <<link, stray>>

\* The answer to setVolume.
Answered(status) ==
    /\ display' = [display EXCEPT !.available = status.available]
    /\ told' = Tail(told)
    /\ UNCHANGED <<link, reading, edit, retry, stray>>

Receives ==
    /\ told # <<>>
    /\ LET message == Head(told)
       IN \/ message.what = "settings" /\ loadSettings(message.level)
          \/ /\ UNCHANGED volumeEvents
             /\ \/ message.what = "reading" /\ reconcileVolumeWithOS(message)
                \/ message.what = "event" /\ volumeChanged(message.status)
                \/ message.what = "answer" /\ Answered(message.status)
    /\ UNCHANGED <<mixer, writeVars, saved, watchedVars>>

\* increaseVolume and decreaseVolume.
Adjusts ==
    /\ VolumeEvent
    /\ display.known
    /\ \E level \in {Min({MaxLevel, display.level + 1}), Max({0, display.level - 1})} :
           /\ display' = [display EXCEPT !.level = level]
           /\ edit' = [send |-> level, guard |-> TRUE, held |-> NoLevel]
    /\ told' = Outdated(told)
    /\ reading' = [reading EXCEPT !.stale = reading.reads]
    /\ retry' = FALSE
    /\ UNCHANGED <<mixer, writeVars, saved, watchedVars, link, stray>>

\* The timer of an adjustment: sent over the connection there is, or the next.
syncVolumeToBackend ==
    /\ edit.send # NoLevel /\ link.up
    /\ edit' = [edit EXCEPT !.send = NoLevel]
    /\ setVolume("client", edit.send)
    /\ UNCHANGED <<mixer, landing, writer, newest, lastKnown, last, watcher, told, link,
                   reading, display, retry, stray, volumeEvents>>

\* LOCAL_EDIT_GUARD_MS after the last adjustment.
GuardEnds ==
    /\ edit.guard
    /\ edit.send = NoLevel \/ ~link.up
    /\ edit' = [edit EXCEPT !.guard = FALSE]
    /\ UNCHANGED <<mixer, writeVars, saved, watchedVars, told, link, reading, display, retry, stray,
                   volumeEvents>>

\* The level held back is shown.
DeferredShows ==
    /\ edit.held # NoLevel /\ ~edit.guard
    /\ display' = [display EXCEPT !.level = edit.held]
    /\ edit' = [edit EXCEPT !.held = NoLevel]
    /\ UNCHANGED <<mixer, writeVars, saved, watchedVars, told, link, reading, retry, stray,
                   volumeEvents>>

\* The connection is lost with what is on the way.
LosesConnection ==
    /\ VolumeEvent
    /\ link.up
    /\ link' = [up |-> FALSE, heard |-> FALSE]
    /\ told' = <<>>
    /\ reading' = NoReading
    /\ LET gone(askers) == IF "client" \in askers THEN (askers \ {"client"}) \cup {"other"}
                       ELSE askers
       IN writer' = [writer EXCEPT !.first = gone(@), !.served = gone(@), !.waiting = gone(@)]
    /\ saving' = [i \in DOMAIN saving |-> [saving[i] EXCEPT !.by = "other"]]
    /\ UNCHANGED <<mixer, landing, newest, saved, watchedVars, display, edit, retry, stray>>

VolumeNext ==
    \/ Turns \/ Lands \/ OtherSets \/ run \/ WriteEnds \/ WriteSettles
    \/ Adopts \/ PollStarts \/ PollEnds \/ MonitorTells
    \/ getVolume \/ Connects \/ RetryFires \/ Receives \/ Adjusts \/ syncVolumeToBackend
    \/ GuardEnds \/ DeferredShows \/ LosesConnection

VolumeSpec == VolumeInit /\ [][VolumeNext]_volumeVars

----------------------------------------------------------------------------

\* Calls are coalesced, never reordered: the last value that is written is the
\* newest that was asked for, however many clients ask while a write is under
\* way (system-volume.ts createSerializedWriter: the target always ends on the
\* last requested value).
LatestIsWritten ==
    newest = IF writer.queued # NoLevel THEN writer.queued ELSE writer.now

\* Nothing is on the way, held back or under way.
AtRest ==
    /\ link.heard /\ told = <<>> /\ ~reading.reads /\ ~retry
    /\ edit.send = NoLevel /\ edit.held = NoLevel
    /\ saving = <<>> /\ ~isBusy /\ landing = NoLevel
    /\ startup.read = Unsure /\ ~watcher.reads

\* At rest, when the watcher has seen the mixer as it is, the client shows it:
\* no edit, event, answer or reading that overtook another leaves it with an
\* older level, whoever moved the mixer last (settings.ts: deferred, not
\* dropped, or this client would keep showing its local value forever; a
\* stale reading could roll availability back).  A client whose reading the
\* watcher never saw is left out: nobody corrects it.
ShownIsMixer ==
    AtRest /\ last = mixer /\ ~stray
        => /\ display.known
           /\ display.available = mixer.available
           /\ mixer.available => display.level = mixer.level
=============================================================================
