------------------------------ MODULE Settings ------------------------------
(***************************************************************************)
(* The settings: one object in memory and its file, written one save after *)
(* the other; calls that set a value, import a backup or reset everything; *)
(* and the client, which shows what it sets at once.  A chunk has to fit   *)
(* into a message, so whoever writes the limits of the two repairs the     *)
(* pair.  Three settings stand for all: these two, and a speed, which the  *)
(* protocol layer has to be told of.                                       *)
(*                                                                         *)
(* The client loads the settings in one step, and calls are lost only with *)
(* its connection.                                                         *)
(*                                                                         *)
(* Source: backend/src/api/settings.ts, settings.ts, storage.ts,           *)
(* protocol/network-limits.ts; frontend/src/scripts/settings.ts.           *)
(***************************************************************************)
EXTENDS Integers, Sequences, FiniteSetsExt

CONSTANTS
    MaxSize,            \* chunks are of at most this size
    MaxSettingsEvents,  \* bound: edits, imports, resets, restarts, lost connections
    MaxPending          \* bound: calls in the backend

ASSUME SettingsAssumption == MaxSize \in Nat \ {0} /\ MaxSettingsEvents \in Nat /\ MaxPending \in Nat

Speed == 0 .. 1
Paths == {"chunk", "message", "speed"}
MESSAGE_SIZE_HEADROOM == 1
minMessageSizeFor(chunk) == chunk + MESSAGE_SIZE_HEADROOM
Values(path) == IF path = "chunk" THEN 1 .. MaxSize
                ELSE IF path = "message" THEN 1 .. minMessageSizeFor(MaxSize) ELSE Speed
SettingsData == [chunk : Values("chunk"), message : Values("message"), speed : Speed]
\* A snapshot of the settings, or none.
Snapshot == {{}} \cup {{data} : data \in SettingsData}
DEFAULT_SETTINGS == [chunk |-> 1, message |-> minMessageSizeFor(1), speed |-> 0]
\* A backup, by its entries; one that storage refuses is skipped.
Entry == UNION {[path : {path}, value : Values(path)] : path \in {"chunk", "message"}}
Backup == {<<>>} \cup {<<entry>> : entry \in Entry}
              \cup {pair \in Entry \X Entry : pair[1].path # pair[2].path}

VARIABLES
    stored,     \* the settings in memory
    file,       \* settings.json
    writing,    \* the snapshot that is being written, if one is
    pending,    \* calls that wait for their save, in the order of the saves
    limit,      \* the speed the protocol layer was told of
    screen,     \* the client's stores
    sent,       \* calls of the client on the way
    foreign,    \* history: the client did not load what somebody else wrote, or
                \* loaded what is still to be repaired
    cut,        \* history: a restart found a pair whose repair it had cut off
    settingsEvents

settingsVars ==
    <<stored, file, writing, pending, limit, screen, sent, foreign, cut, settingsEvents>>

SettingsTypeOK ==
    /\ stored \in SettingsData /\ file \in SettingsData /\ screen \in SettingsData
    /\ writing \in Snapshot
    /\ Len(pending) <= MaxPending /\ Len(sent) <= 2 * MaxSettingsEvents
    /\ limit \in Speed /\ foreign \in BOOLEAN /\ cut \in BOOLEAN
    /\ settingsEvents \in 0 .. MaxSettingsEvents

SettingsInit ==
    /\ stored = DEFAULT_SETTINGS /\ file = stored /\ writing = {} /\ pending = <<>>
    /\ limit = stored.speed
    /\ screen = stored /\ sent = <<>>
    /\ foreign = FALSE /\ cut = FALSE
    /\ settingsEvents = 0

SettingsEvent ==
    /\ settingsEvents < MaxSettingsEvents
    /\ settingsEvents' = settingsEvents + 1

Usable(data) == data.message >= minMessageSizeFor(data.chunk)

----------------------------------------------------------------------------
(* The backend.                                                            *)

With(data, path, value) == [data EXCEPT ![path] = value]

\* What a call does after its save: set repairs and tells, an import goes on
\* with the entries it has left.  of: the object it saves, when a reset has
\* put another in its place.
Waits(then, rest) == [then |-> then, rest |-> rest, of |-> {}]

\* storage.set: the value is in memory at once, and its save is queued.
set(calls, path, value) ==
    /\ stored' = With(stored, path, value)
    /\ pending' = Append(calls, Waits("repair", <<>>))

\* applyNetworkLimits.
applyNetworkLimits(data) == limit' = data.speed

persistAndApplyNetworkLimits(calls) ==
    IF Usable(stored)
    THEN /\ applyNetworkLimits(stored)
         /\ pending' = calls
         /\ cut' = FALSE
         /\ UNCHANGED stored
    ELSE /\ stored' = [stored EXCEPT !.message = minMessageSizeFor(stored.chunk)]
         /\ pending' = Append(calls, Waits("apply", <<>>))
         /\ UNCHANGED <<limit, cut>>

\* Mutant: an import leaves the pair as it finds it.
ImportsAsIs(calls, rest) ==
    IF rest = <<>> THEN /\ applyNetworkLimits(stored)
                        /\ pending' = calls
                        /\ UNCHANGED <<stored, cut>>
    ELSE /\ stored' = With(stored, Head(rest).path, Head(rest).value)
         /\ pending' = Append(calls, Waits("import", Tail(rest)))
         /\ UNCHANGED <<limit, cut>>

\* applyImported: entry by entry, and then the repair.
applyImported(calls, rest) ==
    IF rest = <<>> THEN persistAndApplyNetworkLimits(calls)
    ELSE /\ stored' = With(stored, Head(rest).path, Head(rest).value)
         /\ pending' = Append(calls, Waits("import", Tail(rest)))
         /\ UNCHANGED <<limit, cut>>

\* A call of the client arrives.
Executes ==
    /\ sent # <<>>
    /\ Len(pending) < MaxPending
    /\ set(pending, Head(sent).path, Head(sent).value)
    /\ sent' = Tail(sent)
    /\ UNCHANGED <<file, writing, limit, screen, foreign, cut, settingsEvents>>

\* Another client sets a value.
SetsElsewhere ==
    /\ SettingsEvent
    /\ Len(pending) < MaxPending
    /\ \E path \in Paths : \E value \in Values(path) : set(pending, path, value)
    /\ foreign' = TRUE
    /\ UNCHANGED <<file, writing, limit, screen, sent, cut>>

Imports ==
    /\ SettingsEvent
    /\ Len(pending) < MaxPending
    /\ \E entries \in Backup : applyImported(pending, entries)
    /\ foreign' = TRUE
    /\ UNCHANGED <<file, writing, screen, sent>>

\* settings.reset: a new object; the saves that are queued still write the old.
resetAll ==
    /\ SettingsEvent
    /\ Len(pending) < MaxPending
    /\ stored' = DEFAULT_SETTINGS
    /\ LET before == [i \in DOMAIN pending |->
                         [pending[i] EXCEPT !.of = IF @ = {} THEN {stored} ELSE @]]
       IN pending' = Append(before, Waits("apply", <<>>))
    /\ foreign' = TRUE
    /\ UNCHANGED <<file, writing, limit, screen, sent, cut>>

\* saveFile: a queued save takes its snapshot when its turn comes.
SaveStarts ==
    /\ pending # <<>> /\ writing = {}
    /\ writing' = IF Head(pending).of = {} THEN {stored} ELSE Head(pending).of
    /\ UNCHANGED <<stored, file, pending, limit, screen, sent, foreign, cut, settingsEvents>>

\* Mutant: the save under way answers everybody who waits for one.
EndsTogether ==
    /\ writing # {}
    /\ writing' = {}
    /\ file' \in writing
    /\ applyNetworkLimits(stored)
    /\ pending' = <<>>
    /\ UNCHANGED <<stored, screen, sent, foreign, cut, settingsEvents>>

SaveEnds ==
    /\ writing # {}
    /\ writing' = {}
    /\ file' \in writing
    /\ LET call == Head(pending)
           calls == Tail(pending)
       IN \/ call.then = "repair" /\ persistAndApplyNetworkLimits(calls)
          \/ call.then = "import" /\ applyImported(calls, call.rest)
          \/ /\ call.then = "apply"
             /\ applyNetworkLimits(stored)
             /\ pending' = calls
             /\ cut' = FALSE
             /\ UNCHANGED stored
    /\ UNCHANGED <<screen, sent, foreign, settingsEvents>>

\* The backend is stopped between two saves and started again on its file.
Restarts ==
    /\ SettingsEvent
    /\ writing = {}
    /\ stored' = file
    /\ applyNetworkLimits(file)
    /\ pending' = <<>> /\ sent' = <<>>
    /\ foreign' = TRUE
    /\ cut' = ~Usable(file)
    /\ UNCHANGED <<file, writing, screen>>

----------------------------------------------------------------------------
(* The client.                                                             *)

Sent(path, value) == [path |-> path, value |-> value]

\* updateSetting.
setMaxSpeed ==
    /\ SettingsEvent
    /\ \E value \in Speed :
           /\ screen' = [screen EXCEPT !.speed = value]
           /\ sent' = Append(sent, Sent("speed", value))
    /\ UNCHANGED <<stored, file, writing, pending, limit, foreign, cut>>

\* A message limit that is too low for the chunks is raised with them.
setMaxChunkSize ==
    /\ SettingsEvent
    /\ \E chunk \in Values("chunk") :
           LET floor == minMessageSizeFor(chunk)
           IN IF screen.message < floor
              THEN /\ screen' = [screen EXCEPT !.chunk = chunk, !.message = floor]
                   /\ sent' = Append(Append(sent, Sent("chunk", chunk)), Sent("message", floor))
              ELSE /\ screen' = [screen EXCEPT !.chunk = chunk]
                   /\ sent' = Append(sent, Sent("chunk", chunk))
    /\ UNCHANGED <<stored, file, writing, pending, limit, foreign, cut>>

\* Mutant: the floor of the message limit is not looked at on the screen.
SetsAnyMessage ==
    /\ SettingsEvent
    /\ \E value \in Values("message") :
           /\ screen' = [screen EXCEPT !.message = value]
           /\ sent' = Append(sent, Sent("message", value))
    /\ UNCHANGED <<stored, file, writing, pending, limit, foreign, cut>>

setMaxMessageSize ==
    /\ SettingsEvent
    /\ \E value \in Values("message") :
           LET clamped == Max({value, minMessageSizeFor(screen.chunk)})
           IN /\ screen' = [screen EXCEPT !.message = clamped]
              /\ sent' = Append(sent, Sent("message", clamped))
    /\ UNCHANGED <<stored, file, writing, pending, limit, foreign, cut>>

\* The connection is lost with the calls on the way; the next one loads.
LosesCalls ==
    /\ SettingsEvent
    /\ sent' = <<>>
    /\ foreign' = TRUE
    /\ UNCHANGED <<stored, file, writing, pending, limit, screen, cut>>

loads ==
    /\ foreign
    /\ sent = <<>>
    /\ screen' = stored
    /\ foreign' = (pending # <<>> \/ ~Usable(stored))
    /\ UNCHANGED <<stored, file, writing, pending, limit, sent, cut, settingsEvents>>

SettingsNext ==
    \/ Executes \/ SetsElsewhere \/ Imports \/ resetAll \/ SaveStarts \/ SaveEnds \/ Restarts
    \/ setMaxSpeed \/ setMaxChunkSize \/ setMaxMessageSize \/ LosesCalls \/ loads

SettingsSpec == SettingsInit /\ [][SettingsNext]_settingsVars

----------------------------------------------------------------------------
\* When the calls are through, ...
Through == pending = <<>>

\* ... the settings in memory are those of the file ...
FileIsStored == Through => file = stored
\* ... a chunk fits into a message, whoever wrote the two limits between ...
PairIsUsable == Through => Usable(stored) \/ cut
\* ... the protocol layer keeps to the speed that is set ...
SpeedIsApplied == Through => limit = stored.speed
\* ... and the client shows what is stored, if nobody else wrote since it loaded.
ScreenIsStored == Through /\ sent = <<>> /\ ~foreign => screen = stored
=============================================================================
