----------------------------- MODULE LishStore ------------------------------
(***************************************************************************)
(* The LISHs of the node (api/lishs.ts, lish/, db/lishs*.ts): their rows,  *)
(* the flags of their chunks, their files on the disk, and the calls that  *)
(* create, import, delete, move and finalize them, with the queue of the   *)
(* verifications and the reads of the upload server in between.            *)
(*                                                                         *)
(* A piece stands for a file with its chunks.  A call is cut where it      *)
(* awaits; the synchronous code between two awaits is one step.  Names,    *)
(* formats, progress events and the manifest's directories and links,      *)
(* which go where the files go, are left out.                              *)
(***************************************************************************)
EXTENDS Naturals, Sequences, FiniteSets, SequencesExt

CONSTANTS Lish, Piece,
          Op,           \* calls that may be at work at once
          MaxRuns,      \* bound: verification runs at once, aborted ones included
          MaxEvents,    \* bound: calls, downloads and faults
          Calls,        \* the kinds of calls a run makes
          Mine          \* places where there are files of the user that belong to no LISH

\* A run is left behind only by a call that begins another, which is an event.
ASSUME StoreAssumption ==
  /\ MaxEvents \in Nat /\ MaxRuns \in Nat /\ MaxRuns > MaxEvents
  /\ IsFiniteSet(Lish) /\ Lish # {} /\ Piece # {} /\ IsFiniteSet(Op)

Place == {"temp", "home", "away"}
Nowhere == "nowhere"
Run == 1..MaxRuns
None == 0

VARIABLES
  row,       \* the lishs table: directory, final_directory, and the generation of the chunk rows
  flagged,   \* lishs_chunks.have
  onDisk,    \* per LISH and place: what there is of each piece
  mine,      \* places whose other files are still there
  crossed,   \* history: LISHs a call of which met files, another call or a download that wrote
  sharing,   \* uploadEnabled
  writer,    \* per LISH: where its active download writes
  reader,    \* a chunk the upload server is reading
  ver,       \* currentVerification, activeVerificationRuns, verificationQueue, the stop, and busyLishs
  moving,    \* movingLISHs
  op,        \* the calls
  creation,  \* currentCreation
  gate,      \* mutationAdmission, with what the factory reset is at
  events

storeVars == <<row, flagged, sharing>>
diskVars == <<onDisk, mine, crossed>>
transferVars == <<writer, reader>>
callVars == <<moving, op, creation>>
lishVars == <<storeVars, diskVars, transferVars, ver, callVars, gate, events>>

NoRow == [on |-> FALSE, dir |-> Nowhere, final |-> Nowhere, gen |-> 0]
NoRun == [at |-> "idle", lish |-> CHOOSE l \in Lish : TRUE, aborted |-> FALSE, dir |-> Nowhere, gen |-> 0, left |-> {}, ok |-> FALSE]
NoOp == [at |-> "idle", lish |-> CHOOSE l \in Lish : TRUE, left |-> {}, from |-> Nowhere, to |-> Nowhere,
         wipe |-> FALSE, then |-> "nothing"]
NoReader == [on |-> FALSE, lish |-> CHOOSE l \in Lish : TRUE, piece |-> CHOOSE p \in Piece : TRUE, dir |-> Nowhere, gen |-> 0]
NoFiles == [p \in Piece |-> "none"]

Busy == ver.busy
ActiveRuns == {r \in Run : ver.runs[r].at # "idle"}
Working == {o \in Op : op[o].at # "idle"}
\* Nothing verifies the LISH or is about to, and no call is at work on it.
Idle(l) == /\ l \notin Range(ver.queue)
           /\ \A r \in ActiveRuns : ver.runs[r].lish # l
           /\ \A o \in Working : op[o].lish # l
\* finalizeDownloadAdmitted is called by the transfer API, which has a gate of its own.
Admitted == {o \in Working : op[o].then # "finalized"}

StoreTypeOK ==
  /\ row \in [Lish -> [on : BOOLEAN, dir : Place \cup {Nowhere}, final : Place \cup {Nowhere}, gen : 0..MaxEvents + 1]]
  /\ flagged \in [Lish -> SUBSET Piece]
  /\ onDisk \in [Lish -> [Place -> [Piece -> {"none", "empty", "data"}]]]
  /\ mine \subseteq Mine /\ crossed \subseteq Lish /\ sharing \subseteq Lish /\ moving \subseteq Lish
  /\ writer \in [Lish -> Place \cup {Nowhere}]
  /\ ver.current \in Run \cup {None} /\ IsInjective(ver.queue) /\ Range(ver.queue) \subseteq Lish
  /\ ver.busy \in [Lish -> {"no", "verifying", "moving", "deleting"}]
  /\ ver.current # None => ver.current \in ActiveRuns
  /\ creation \in Op \cup {None} /\ gate.phase \in {"open", "draining", "stopping", "quiet"}
  /\ events \in 0..MaxEvents

StoreInit ==
  /\ row \in [Lish -> {NoRow, [NoRow EXCEPT !.on = TRUE, !.dir = "home", !.gen = 1]}]
  /\ flagged = [l \in Lish |-> IF row[l].on THEN Piece ELSE {}]
  /\ onDisk = [l \in Lish |-> [x \in Place |-> [p \in Piece |-> IF row[l].on /\ x = "home" THEN "data" ELSE "none"]]]
  /\ mine = Mine /\ crossed = {} /\ sharing = {l \in Lish : row[l].on} /\ writer = [l \in Lish |-> Nowhere] /\ reader = NoReader
  /\ ver = [current |-> None, queue |-> <<>>, runs |-> [r \in Run |-> NoRun], stopping |-> FALSE, stops |-> {},
            busy |-> [l \in Lish |-> "no"]]
  /\ moving = {} /\ op = [o \in Op |-> NoOp] /\ creation = None
  /\ gate = [closed |-> FALSE, phase |-> "open", used |-> FALSE] /\ events = 0

Event == events < MaxEvents /\ events' = events + 1
Quietly == UNCHANGED events

-----------------------------------------------------------------------------
(* The verification queue, as functions of its state and of the rows as the *)
(* call leaves them.                                                        *)

SetBusy(v, l, reason) == [v EXCEPT !.busy[l] = reason]
ClearBusy(v, l) == [v EXCEPT !.busy[l] = "no"]
FreeRun(v) == CHOOSE r \in Run : v.runs[r].at = "idle" /\ \A q \in 1..r - 1 : v.runs[q].at # "idle"

\* runVerification up to its first await: without the row or its directory it returns.
Begun(l) == [NoRun EXCEPT !.at = IF row'[l].on THEN "look" ELSE "ended", !.lish = l, !.dir = row'[l].dir,
                          !.gen = row'[l].gen, !.left = Piece]

\* processVerificationQueue: one run at a time, taken from the front.
Process(v) ==
  IF v.stopping \/ v.current # None \/ v.queue = <<>> THEN v
  ELSE LET l == Head(v.queue)  r == FreeRun(v)
       IN  SetBusy([v EXCEPT !.queue = Tail(@), !.current = r, !.runs[r] = Begun(l)], l, "verifying")

IsCurrent(v, l) == v.current # None /\ v.runs[v.current].lish = l

\* Mutant: a LISH that waits already is put in the queue again.
EnqueueTwice(v, l) ==
  IF IsCurrent(v, l) THEN v
  ELSE Process(SetBusy([v EXCEPT !.queue = Append(@, l)], l, "verifying"))

\* enqueueVerification: nothing for the LISH that is being verified, stopped or not.
Enqueue(v, l) ==
  IF IsCurrent(v, l) \/ l \in Range(v.queue) THEN v
  ELSE Process(SetBusy([v EXCEPT !.queue = Append(@, l)], l, "verifying"))

Dequeue(v, l) == [v EXCEPT !.queue = RemoveFirst(@, l)]
AbortCurrent(v, l) == IF IsCurrent(v, l) THEN [v EXCEPT !.runs[v.current].aborted = TRUE] ELSE v
ForgetCurrent(v, l) == IF IsCurrent(v, l) THEN [AbortCurrent(v, l) EXCEPT !.current = None] ELSE v

\* Mutant: the run that gives way is forgotten but not told to stop.
SoftVerified(v, l) == Enqueue(Dequeue(IF IsCurrent(v, l) THEN [v EXCEPT !.current = None] ELSE v, l), l)

\* verifyAdmitted: whatever runs or waits for the LISH gives way to a new run.
Verified(v, l) == Enqueue(Dequeue(ForgetCurrent(v, l), l), l)

Verify(l) ==
  /\ "verify" \in Calls /\ Event /\ ~gate.closed
  /\ UNCHANGED <<storeVars, diskVars, transferVars, callVars, gate>>
  /\ ver' = Verified(ver, l)

\* verifyAll: every LISH of the database that is not verified or waiting yet.
VerifyAll ==
  /\ "verifyAll" \in Calls /\ Event /\ ~gate.closed
  /\ UNCHANGED <<storeVars, diskVars, transferVars, callVars, gate>>
  /\ \E order \in SetToSeqs({l \in Lish : row[l].on}) : ver' = FoldLeft(Enqueue, ver, order)

\* stopVerify: not busy any more, whatever the LISH was busy with.
Stopped(v, l) == Dequeue(AbortCurrent(ClearBusy(v, l), l), l)
StopVerify(l) ==
  /\ "stopVerify" \in Calls /\ Event /\ ~gate.closed
  /\ ver' = Stopped(ver, l)
  /\ UNCHANGED <<storeVars, diskVars, transferVars, callVars, gate>>

\* Mutant: only the LISHs that are being verified are freed, not those that wait.
FreesRunning(v, s) ==
  LET told == [v EXCEPT !.stopping = TRUE, !.stops = @ \cup {s}, !.queue = <<>>,
                 !.busy = [l \in Lish |-> IF \E r \in ActiveRuns : v.runs[r].lish = l THEN "no" ELSE @[l]]]
  IN  [told EXCEPT !.runs = [r \in Run |-> IF r \in ActiveRuns THEN [@[r] EXCEPT !.aborted = TRUE] ELSE @[r]]]

\* stopVerifyAll: the queue is emptied, the runs are told to stop and awaited.
StopsAll(v, s) ==
  LET told == [v EXCEPT !.stopping = TRUE, !.stops = @ \cup {s}, !.queue = <<>>,
                 !.busy = [l \in Lish |-> IF l \in Range(v.queue) \/ \E r \in ActiveRuns : v.runs[r].lish = l
                                          THEN "no" ELSE @[l]]]
  IN  [told EXCEPT !.runs = [r \in Run |-> IF r \in ActiveRuns THEN [@[r] EXCEPT !.aborted = TRUE] ELSE @[r]]]

StopVerifyAll ==
  /\ "stopVerifyAll" \in Calls /\ Event /\ "user" \notin ver.stops
  /\ ver' = StopsAll(ver, "user")
  /\ UNCHANGED <<storeVars, diskVars, transferVars, callVars, gate>>

\* Mutant: it waits for an empty queue as well.
StopAwaitsQueue(s) ==
  /\ s \in ver.stops /\ ActiveRuns = {} /\ ver.queue = <<>> /\ Quietly
  /\ UNCHANGED <<storeVars, diskVars, transferVars, callVars>>
  /\ ver' = [ver EXCEPT !.current = None, !.stopping = FALSE, !.stops = @ \ {s}]
  /\ gate' = IF s = "reset" THEN [gate EXCEPT !.phase = "quiet"] ELSE gate

\* ... until no run is left; one boolean serves two of these calls.
StopReturns(s) ==
  /\ s \in ver.stops /\ ActiveRuns = {} /\ Quietly
  /\ UNCHANGED <<storeVars, diskVars, transferVars, callVars>>
  /\ LET done == [ver EXCEPT !.current = None, !.stopping = FALSE, !.stops = @ \ {s}]
     IN  ver' = IF gate.closed THEN done ELSE Process(done)
  /\ gate' = IF s = "reset" THEN [gate EXCEPT !.phase = "quiet"] ELSE gate

-----------------------------------------------------------------------------
(* One run of runVerification: it looks whether the file is there, reads   *)
(* it, and flags its chunks.                                               *)

RunDo(r, to) == ver' = [ver EXCEPT !.runs[r] = to] /\ Quietly /\ UNCHANGED <<row, sharing, diskVars, transferVars, callVars, gate>>

\* The next file, unless the run was stopped or the LISH went; the flags are set by row ids.
Next1(run, left) ==
  IF run.aborted \/ left = {} \/ ~row[run.lish].on THEN [run EXCEPT !.at = "ended", !.left = {}]
  ELSE [run EXCEPT !.at = "look", !.left = left]
Flagged(run, p, ok) ==
  flagged' = IF row[run.lish].gen # run.gen \/ ~row[run.lish].on THEN flagged
          ELSE [flagged EXCEPT ![run.lish] = IF ok THEN @ \cup {p} ELSE @ \ {p}]

Turn(run) == CHOOSE p \in run.left : TRUE    \* the rows' order

RunLooks(r) ==
  LET run == ver.runs[r]  p == Turn(run) IN
  /\ run.at = "look"
  /\ IF run.aborted THEN RunDo(r, Next1(run, {})) /\ UNCHANGED flagged
     ELSE IF onDisk[run.lish][run.dir][p] = "none" THEN Flagged(run, p, FALSE) /\ RunDo(r, Next1(run, run.left \ {p}))
     ELSE RunDo(r, [run EXCEPT !.at = "read"]) /\ UNCHANGED flagged

\* The checksum, of what the file holds while it is read.
RunReads(r) ==
  LET run == ver.runs[r] IN
  /\ run.at = "read" /\ UNCHANGED flagged
  /\ RunDo(r, [run EXCEPT !.at = "mark", !.ok = onDisk[run.lish][run.dir][Turn(run)] = "data"])

RunMarks(r) ==
  LET run == ver.runs[r]  p == Turn(run) IN
  /\ run.at = "mark"
  /\ IF run.aborted THEN UNCHANGED flagged ELSE Flagged(run, p, run.ok)
  /\ RunDo(r, Next1([run EXCEPT !.ok = FALSE], run.left \ {p}))

\* Mutant: a run that was stopped starts nothing after it.
EndsAlone(r) ==
  LET run == ver.runs[r]
      gone == [ver EXCEPT !.runs[r] = NoRun]
      freed == IF ver.current = r THEN [ClearBusy(gone, run.lish) EXCEPT !.current = None] ELSE gone
  IN
  /\ run.at = "ended" /\ Quietly
  /\ UNCHANGED <<storeVars, diskVars, transferVars, callVars, gate>>
  /\ ver' = IF gate.closed \/ run.aborted THEN freed ELSE Process(freed)

\* The handler of its end: only the owner clears the LISH, anyone starts the next.
RunFinishes(r) ==
  LET run == ver.runs[r]
      gone == [ver EXCEPT !.runs[r] = NoRun]
      freed == IF ver.current = r THEN [ClearBusy(gone, run.lish) EXCEPT !.current = None] ELSE gone
  IN
  /\ run.at = "ended" /\ Quietly
  /\ UNCHANGED <<storeVars, diskVars, transferVars, callVars, gate>>
  /\ ver' = IF gate.closed THEN freed ELSE Process(freed)

-----------------------------------------------------------------------------
(* create and import                                                       *)

Starts(o, kind) ==
  /\ kind \in Calls /\ Event /\ ~gate.closed /\ op[o].at = "idle"
\* Another call is at work on the LISH, or there are files where the call's will go.
Meets(l, over) == crossed' = IF over \/ (\E q \in Working : op[q].lish = l) THEN crossed \cup {l} ELSE crossed \ {l}
Ends(o) == op' = [op EXCEPT ![o] = NoOp]
To(o, rec) == op' = [op EXCEPT ![o] = rec]

\* addLISH of the database: new rows for the chunks, none of them flagged.
Adds(l, dir, final) ==
  /\ row' = [row EXCEPT ![l] = [on |-> TRUE, dir |-> dir, final |-> final, gen |-> @.gen + 1]]
  /\ flagged' = [flagged EXCEPT ![l] = {}]

Create(o, l) ==
  /\ Starts(o, "create") /\ row[l].gen = 0 /\ \A q \in Op : op[q].at # "idle" => op[q].lish # l
  /\ To(o, [NoOp EXCEPT !.at = "scan", !.lish = l])
  /\ creation' = o
  /\ UNCHANGED <<storeVars, diskVars, transferVars, ver, moving, gate>>

\* stopCreate: only the last creation can be stopped.
StopCreate ==
  /\ creation # None /\ Event
  /\ op' = [op EXCEPT ![creation].then = "cancelled"] /\ creation' = None
  /\ UNCHANGED <<storeVars, diskVars, transferVars, ver, moving, gate>>

\* createLISH is back: the LISH is added and shared where its files are.
Created(o) ==
  /\ op[o].at = "scan" /\ Quietly
  /\ creation' = IF creation = o THEN None ELSE creation
  /\ Ends(o) /\ UNCHANGED <<mine, crossed, transferVars, moving, gate>>
  /\ LET l == op[o].lish IN
     IF op[o].then = "cancelled" THEN UNCHANGED <<storeVars, onDisk, ver>>
     ELSE /\ Adds(l, "home", Nowhere) /\ sharing' = sharing \cup {l}
          /\ onDisk' = [onDisk EXCEPT ![l]["home"] = [p \in Piece |-> "data"]]
          /\ ver' = Enqueue(ver, l)

\* importFrom...: the manifest is read first; then the LISH must be new, or goes.
Imports(o, l) ==
  /\ Starts(o, "import") /\ Meets(l, FALSE)
  /\ \E kind \in {"share", "download"} : To(o, [NoOp EXCEPT !.at = "fetch", !.lish = l, !.then = kind])
  /\ UNCHANGED <<storeVars, onDisk, mine, transferVars, ver, moving, creation, gate>>

Fetched(o) ==
  /\ op[o].at = "fetch" /\ Quietly
  /\ UNCHANGED <<diskVars, transferVars, ver, moving, creation, gate, sharing>>
  /\ LET l == op[o].lish IN
     \E overwrite \in BOOLEAN :
       IF row[l].on /\ ~overwrite THEN Ends(o) /\ UNCHANGED <<row, flagged>>
       ELSE /\ To(o, [op[o] EXCEPT !.at = "mkdir"])
            /\ row' = [row EXCEPT ![l] = [NoRow EXCEPT !.gen = row[l].gen]] /\ flagged' = [flagged EXCEPT ![l] = {}]

\* The manifest cannot be read, or one of its LISHs is not valid: none is imported.
FetchFails(o) ==
  /\ op[o].at = "fetch" /\ Event /\ Ends(o)
  /\ UNCHANGED <<storeVars, diskVars, transferVars, ver, moving, creation, gate>>

\* A download goes to a temporary directory of its own; what is shared lies where it is.
Imported(o) ==
  LET l == op[o].lish
      downloading == op[o].then = "download" IN
  /\ op[o].at = "mkdir" /\ Quietly
  /\ downloading => onDisk[l]["temp"] = NoFiles /\ writer[l] # "temp"
  /\ Ends(o) /\ UNCHANGED <<diskVars, transferVars, moving, creation, gate>>
  /\ Adds(l, IF downloading THEN "temp" ELSE "home", IF downloading THEN "home" ELSE Nowhere)
  /\ sharing' = sharing \cup {l}
  /\ ver' = Enqueue(ver, l)

\* The directory cannot be made: what was overwritten is gone.
ImportFails(o) ==
  /\ op[o].at = "mkdir" /\ Event /\ Ends(o)
  /\ UNCHANGED <<storeVars, diskVars, transferVars, ver, moving, creation, gate>>

-----------------------------------------------------------------------------
(* delete, move and finalize: the files of a LISH go or are copied one by  *)
(* one, in the directory the call read at its start.                       *)

\* Mutant: what is deleted with a LISH is always its directory.
Wiping(rec, dir, wipe, then) == [rec EXCEPT !.at = "unlink", !.left = Piece, !.from = dir, !.wipe = TRUE, !.then = then]

\* deleteLISHData: the files of the LISH, or all there is where the LISH is unfinished.
Unlinking(rec, dir, wipe, then) == [rec EXCEPT !.at = "unlink", !.left = Piece, !.from = dir, !.wipe = wipe, !.then = then]

Unlinks(o) ==
  LET l == op[o].lish  dir == op[o].from IN
  /\ op[o].at = "unlink" /\ op[o].left # {} /\ Quietly
  /\ UNCHANGED <<storeVars, crossed, transferVars, ver, moving, creation, gate>>
  /\ IF op[o].wipe
     THEN /\ onDisk' = [onDisk EXCEPT ![l][dir] = NoFiles] /\ mine' = mine \ {dir}
          /\ To(o, [op[o] EXCEPT !.left = {}])
     ELSE LET p == CHOOSE p \in op[o].left : TRUE IN
          /\ onDisk' = [onDisk EXCEPT ![l][dir][p] = "none"] /\ UNCHANGED mine
          /\ To(o, [op[o] EXCEPT !.left = @ \ {p}])

\* delete, up to the end of the active download; the row is read here once for all.
Delete(o, l) ==
  /\ Starts(o, "delete") /\ row[l].on /\ Meets(l, FALSE)
  /\ UNCHANGED <<row, flagged, onDisk, mine, transferVars, moving, creation, gate>>
  /\ \E lishToo, dataToo \in BOOLEAN :
       /\ lishToo \/ dataToo
       /\ To(o, [Unlinking([NoOp EXCEPT !.lish = l], row[l].dir, row[l].final # Nowhere, IF lishToo THEN "drop" ELSE "reset")
                 EXCEPT !.at = "undownload", !.left = IF dataToo THEN Piece ELSE {}])
       /\ sharing' = IF lishToo THEN sharing \ {l} ELSE sharing
       /\ ver' = IF lishToo THEN ver ELSE SetBusy(ver, l, "deleting")

Undownloaded(o) ==
  LET l == op[o].lish IN
  /\ op[o].at = "undownload" /\ Quietly
  /\ writer' = [writer EXCEPT ![l] = Nowhere]
  /\ To(o, [op[o] EXCEPT !.at = "unlink"])
  /\ ver' = IF op[o].then = "drop" THEN ClearBusy(Dequeue(AbortCurrent(ver, l), l), l) ELSE ver
  /\ UNCHANGED <<storeVars, diskVars, reader, moving, creation, gate>>

\* The row goes, and its chunks with it; or its flags are reset and it is verified.
Dropped(o) ==
  /\ op[o].at = "unlink" /\ op[o].left = {} /\ op[o].then = "drop" /\ Quietly /\ Ends(o)
  /\ row' = [row EXCEPT ![op[o].lish] = [NoRow EXCEPT !.gen = row[op[o].lish].gen]]
  /\ flagged' = [flagged EXCEPT ![op[o].lish] = {}]
  /\ UNCHANGED <<sharing, diskVars, transferVars, ver, moving, creation, gate>>

DataDeleted(o) ==
  LET l == op[o].lish IN
  /\ op[o].at = "unlink" /\ op[o].left = {} /\ op[o].then = "reset" /\ Quietly /\ Ends(o)
  /\ flagged' = [flagged EXCEPT ![l] = {}]
  /\ UNCHANGED <<row, sharing, diskVars, transferVars, moving, creation, gate>>
  /\ ver' = Enqueue(SetBusy(ver, l, "verifying"), l)

\* What move and finalize end with, whatever happened.
Finally(o) ==
  /\ Ends(o) /\ moving' = moving \ {op[o].lish}
  /\ ver' = ClearBusy(ver, op[o].lish)

\* moveAdmitted: to whatever directory it is given, its own and one with files in it included, of a LISH
\* that may be downloaded or verified; with the files, or without because the user moves them.
Move(o, l, to) ==
  /\ Starts(o, "move") /\ row[l].on
  /\ UNCHANGED <<flagged, sharing, mine, transferVars, creation, gate>>
  /\ Meets(l, onDisk[l][to] # NoFiles)
  /\ LET given == Dequeue(ForgetCurrent(ver, l), l) IN
     \/ /\ To(o, [NoOp EXCEPT !.at = "copy", !.lish = l, !.left = Piece, !.from = row[l].dir, !.to = to,
                  !.wipe = row[l].final # Nowhere, !.then = "moved"])
        /\ moving' = moving \cup {l} /\ ver' = SetBusy(given, l, "moving")
        /\ UNCHANGED <<row, onDisk>>
     \/ /\ row' = [row EXCEPT ![l].dir = to]
        /\ \/ UNCHANGED onDisk
           \/ /\ onDisk[l][to] = NoFiles
              /\ onDisk' = [onDisk EXCEPT ![l][to] = onDisk[l][row[l].dir], ![l][row[l].dir] = NoFiles]
        /\ moving' = moving \ {l} /\ ver' = ClearBusy(given, l)
        /\ UNCHANGED op

NextFile(left) == CHOOSE p \in left : TRUE    \* the manifest's order

\* A file over whatever is there; over itself, it is opened for writing, and so emptied, before it is read
\* or after.
Copies(o) ==
  LET l == op[o].lish  p == NextFile(op[o].left)  to == op[o].to IN
  /\ op[o].at = "copy" /\ op[o].left # {} /\ Quietly
  /\ onDisk[l][op[o].from][p] # "none"
  /\ \E what \in {onDisk[l][op[o].from][p]} \cup (IF to = op[o].from THEN {"empty"} ELSE {}) :
       onDisk' = [onDisk EXCEPT ![l][to][p] = what]
  /\ To(o, [op[o] EXCEPT !.left = @ \ {p}])
  /\ UNCHANGED <<storeVars, mine, crossed, transferVars, ver, moving, creation, gate>>

\* What is left of a file that was not copied to its end.
HalfCopied(o) ==
  LET p == NextFile(op[o].left) IN
  /\ op[o].at = "copy" /\ op[o].left # {}
  /\ Event \/ (Quietly /\ onDisk[op[o].lish][op[o].from][p] = "none")
  /\ \E what \in {onDisk[op[o].lish][op[o].to][p], "empty"} : onDisk' = [onDisk EXCEPT ![op[o].lish][op[o].to][p] = what]

\* Mutant: the copy goes on with the next file.
CopyGoesOn(o) ==
  /\ HalfCopied(o)
  /\ UNCHANGED <<storeVars, mine, crossed, transferVars, ver, moving, creation, gate>>
  /\ To(o, [op[o] EXCEPT !.left = @ \ {NextFile(@)}])

\* A file that is not there, or cannot be copied: move leaves what it has copied where it
\* is, finalize removes it with its directory.
CopyFails(o) ==
  /\ HalfCopied(o)
  /\ UNCHANGED <<storeVars, mine, crossed, transferVars, creation, gate>>
  /\ IF op[o].then = "moved" THEN Finally(o)
     ELSE To(o, Unlinking(op[o], op[o].to, TRUE, "finalized")) /\ UNCHANGED <<ver, moving>>

\* All copied: move removes the old files and then changes the row, finalize the other
\* way round.
Copied(o) ==
  LET l == op[o].lish IN
  /\ op[o].at = "copy" /\ op[o].left = {} /\ Quietly
  /\ To(o, Unlinking(op[o], op[o].from, op[o].wipe, op[o].then))
  /\ row' = IF op[o].then = "finalized" /\ row[l].on THEN [row EXCEPT ![l].dir = op[o].to, ![l].final = Nowhere] ELSE row
  /\ UNCHANGED <<flagged, sharing, diskVars, transferVars, ver, moving, creation, gate>>

Moved(o) ==
  LET l == op[o].lish IN
  /\ op[o].at = "unlink" /\ op[o].left = {} /\ op[o].then \in {"moved", "finalized"} /\ Quietly
  /\ row' = IF op[o].then = "moved" /\ row[l].on THEN [row EXCEPT ![l].dir = op[o].to] ELSE row
  /\ Finally(o)
  /\ UNCHANGED <<flagged, sharing, diskVars, transferVars, creation, gate>>

\* finalizeDownload: the end of a download whose LISH is still in its temporary directory.
\* A directory without a file of the LISH or of the user does not exist.
Exists(l, dir) == onDisk[l][dir] # NoFiles \/ dir \in mine

Finalize(o, l) ==
  /\ op[o].at = "idle" /\ writer[l] # Nowhere /\ flagged[l] = Piece /\ row[l].on /\ Quietly
  /\ writer' = [writer EXCEPT ![l] = Nowhere]
  /\ UNCHANGED <<storeVars, onDisk, mine, reader, creation, gate>>
  /\ Meets(l, FALSE)
  /\ IF row[l].final = Nowhere \/ Exists(l, row[l].final) THEN UNCHANGED <<op, moving, ver>>
     ELSE /\ To(o, [NoOp EXCEPT !.at = "rename", !.lish = l, !.from = row[l].dir, !.to = row[l].final, !.wipe = TRUE,
                    !.then = "finalized"])
          /\ moving' = moving \cup {l} /\ ver' = SetBusy(ver, l, "moving")

\* One rename where both are on one disk, a copy where they are not.
Renamed(o) ==
  LET l == op[o].lish IN
  /\ op[o].at = "rename" /\ onDisk[l][op[o].from] # NoFiles /\ Quietly
  /\ onDisk' = [onDisk EXCEPT ![l][op[o].to] = onDisk[l][op[o].from], ![l][op[o].from] = NoFiles]
  /\ row' = IF row[l].on THEN [row EXCEPT ![l].dir = op[o].to, ![l].final = Nowhere] ELSE row
  /\ Finally(o)
  /\ UNCHANGED <<flagged, sharing, mine, crossed, transferVars, creation, gate>>

AcrossDisks(o) ==
  /\ op[o].at = "rename" /\ onDisk[op[o].lish][op[o].from] # NoFiles /\ Quietly
  /\ To(o, [op[o] EXCEPT !.at = "copy", !.left = Piece])
  /\ UNCHANGED <<storeVars, diskVars, transferVars, ver, moving, creation, gate>>

RenameFails(o) ==
  /\ op[o].at = "rename" /\ Finally(o)
  /\ \/ Event
     \/ Quietly /\ onDisk[op[o].lish][op[o].from] = NoFiles
  /\ UNCHANGED <<storeVars, diskVars, transferVars, creation, gate>>

-----------------------------------------------------------------------------
(* The transfers, as far as they touch the store.                          *)

\* A download allocates its files in the directory it finds in the row.
DownloadStarts(l) ==
  /\ "download" \in Calls /\ Event /\ row[l].on /\ writer[l] = Nowhere /\ Busy[l] = "no" /\ flagged[l] # Piece
  /\ writer' = [writer EXCEPT ![l] = row[l].dir]
  /\ onDisk' = [onDisk EXCEPT ![l][row[l].dir] = [p \in Piece |-> IF @[p] = "none" THEN "empty" ELSE @[p]]]
  /\ UNCHANGED <<storeVars, mine, crossed, reader, ver, callVars, gate>>

\* writeChunk into a file that is there, and markChunkDownloaded by checksum.
DownloadWrites(l, p) ==
  /\ writer[l] # Nowhere /\ p \notin flagged[l] /\ onDisk[l][writer[l]][p] # "none" /\ Quietly
  /\ onDisk' = [onDisk EXCEPT ![l][writer[l]][p] = "data"]
  /\ flagged' = IF row[l].on THEN [flagged EXCEPT ![l] = @ \cup {p}] ELSE flagged
  /\ crossed' = IF \E o \in Working : op[o].lish = l THEN crossed \cup {l} ELSE crossed
  /\ UNCHANGED <<row, sharing, mine, transferVars, ver, callVars, gate>>

DownloadStops(l) ==
  /\ writer[l] # Nowhere /\ Event
  /\ writer' = [writer EXCEPT ![l] = Nowhere]
  /\ UNCHANGED <<storeVars, diskVars, reader, ver, callVars, gate>>

\* A peer asks for a chunk: the gates of the upload server, then getChunk.
ChunkAsked(l, p) ==
  /\ "upload" \in Calls /\ Event /\ ~reader.on
  /\ l \in sharing /\ Busy[l] = "no" /\ row[l].on /\ p \in flagged[l]
  /\ reader' = [on |-> TRUE, lish |-> l, piece |-> p, dir |-> row[l].dir, gen |-> row[l].gen]
  /\ UNCHANGED <<storeVars, diskVars, writer, ver, callVars, gate>>

\* startVerification, unless the admission is closed.
Triggered(l) == ver' = IF gate.closed THEN ver ELSE Enqueue(ver, l)

\* It was read; or the file is gone, its chunks are reset and the LISH is verified.
ChunkRead ==
  LET l == reader.lish  p == reader.piece IN
  /\ reader.on /\ reader' = NoReader /\ Quietly
  /\ UNCHANGED <<row, sharing, diskVars, writer, callVars, gate>>
  /\ IF onDisk[l][reader.dir][p] # "none" THEN UNCHANGED <<flagged, ver>>
     ELSE /\ flagged' = IF row[l].on /\ row[l].gen = reader.gen THEN [flagged EXCEPT ![l] = @ \ {p}] ELSE flagged
          /\ Triggered(l)

\* The third I/O error in a row: the LISH is not shared any more, and verified.
UploadFails ==
  /\ reader.on /\ reader' = NoReader /\ Event
  /\ sharing' = sharing \ {reader.lish}
  /\ UNCHANGED <<row, flagged, diskVars, writer, callVars, gate>>
  /\ Triggered(reader.lish)

-----------------------------------------------------------------------------
(* The factory reset: pauseMutations, stopVerifyAll, resumeMutations.      *)

PauseMutations ==
  /\ "reset" \in Calls /\ ~gate.used /\ Quietly
  /\ gate' = [closed |-> TRUE, phase |-> "draining", used |-> TRUE]
  /\ UNCHANGED <<storeVars, diskVars, transferVars, ver, callVars>>

Drained ==
  /\ gate.phase = "draining" /\ Admitted = {} /\ Quietly
  /\ gate' = [gate EXCEPT !.phase = "stopping"]
  /\ ver' = StopsAll(ver, "reset")
  /\ UNCHANGED <<storeVars, diskVars, transferVars, callVars>>

ResumeMutations ==
  /\ gate.phase = "quiet" /\ Quietly
  /\ gate' = [gate EXCEPT !.closed = FALSE, !.phase = "open"]
  /\ UNCHANGED <<storeVars, diskVars, transferVars, ver, callVars>>

-----------------------------------------------------------------------------
RunStep == \E r \in Run : RunLooks(r) \/ RunReads(r) \/ RunMarks(r) \/ RunFinishes(r)
OpStep ==
  \E o \in Op : \/ Created(o) \/ Fetched(o) \/ Imported(o) \/ Unlinks(o) \/ Undownloaded(o) \/ Dropped(o)
                \/ DataDeleted(o) \/ Copies(o) \/ Copied(o) \/ Moved(o) \/ Renamed(o) \/ AcrossDisks(o)
Faults == \E o \in Op : FetchFails(o) \/ ImportFails(o) \/ CopyFails(o) \/ RenameFails(o)
UserCalls ==
  \/ \E l \in Lish : Verify(l) \/ StopVerify(l)
  \/ VerifyAll \/ StopVerifyAll \/ StopCreate
  \/ \E o \in Op, l \in Lish : Create(o, l) \/ Imports(o, l) \/ Delete(o, l) \/ \E to \in Place : Move(o, l, to)
Transfers ==
  \/ \E l \in Lish : \/ DownloadStarts(l) \/ DownloadStops(l)
                     \/ \E p \in Piece : DownloadWrites(l, p) \/ ChunkAsked(l, p)
                     \/ \E o \in Op : Finalize(o, l)
  \/ ChunkRead \/ UploadFails
Resets == PauseMutations \/ Drained \/ ResumeMutations \/ \E s \in ver.stops : StopReturns(s)

StoreNext == RunStep \/ OpStep \/ Faults \/ UserCalls \/ Transfers \/ Resets

\* Reads, copies and unlinks come back, and what awaits them goes on.
StoreFairness ==
  /\ WF_lishVars(RunStep) /\ WF_lishVars(OpStep) /\ WF_lishVars(Faults /\ Quietly)
  /\ WF_lishVars(Drained) /\ WF_lishVars(\E s \in ver.stops : StopReturns(s)) /\ WF_lishVars(ResumeMutations)
StoreSpec == StoreInit /\ [][StoreNext]_lishVars
StoreFairSpec == StoreSpec /\ StoreFairness

-----------------------------------------------------------------------------
(* Correctness.                                                            *)

Held(l, p) == \E x \in Place : onDisk[l][x][p] = "data"

\* Of the verification runs of lishs.ts only the current one has not been told to stop, so
\* that two runs never read the files of the node, or write its flags, against each other.
OneVerifier == \A r \in ActiveRuns : ~ver.runs[r].aborted => ver.current = r

\* A LISH in the verification queue is never forgotten there: a run, or a stop, or the end
\* of the factory reset is still to come and starts what waits.
QueueIsWatched == ver.queue # <<>> => ActiveRuns # {} \/ ver.stops # {} \/ gate.closed

\* busy.ts blocks the transfers of a LISH only as long as something works on it: whatever
\* order stops, failures and ends come in, no LISH stays busy for ever.
QuietIsFree == \A l \in Lish : Idle(l) => Busy[l] = "no"

\* No file of a LISH that was complete somewhere is gone from everywhere unless a deletion of the LISH is
\* at work: whatever fails between two files of them, move and finalizeDownload remove what they have
\* copied, not more.  Left out are a move over files that are there (onto itself is one), a copy while a
\* download writes to the LISH, and two calls at work on it.
NothingIsLost == [][\A l \in Lish, p \in Piece : Held(l, p) /\ ~Held(l, p)' =>
   \E o \in Working :
     op[o].lish = l /\ (op[o].then \in {"drop", "reset"} \/ l \in crossed)]_lishVars

\* stopVerifyAll comes back, and with it the factory reset that awaits it.
StopsReturn == ver.stops # {} ~> ver.stops = {}

-----------------------------------------------------------------------------
(* What the code does not guarantee.                                        *)

\* A move of a LISH loses none of its files.  A move to the LISH's own directory, which is what the client
\* fills in, copies the files over themselves and then removes them; one to a directory with files of the
\* LISH overwrites them before it fails; and what a download writes behind the copy goes with the old files.
MoveLosesNothing == [][\A l \in Lish, p \in Piece : Held(l, p) /\ ~Held(l, p)' =>
   ~ \E o \in Working : op[o].lish = l /\ op[o].then = "moved"]_lishVars

\* A flag of a LISH nothing works on has its file behind it.  It does not hold: a deletion of
\* the data resets the flags while a verification of the LISH is about to set one.
FlagIsOnDisk == \A l \in Lish : row[l].on /\ Idle(l) /\ writer[l] = Nowhere => \A p \in flagged[l] : onDisk[l][row[l].dir][p] = "data"

\* The user's own files survive whatever is done to a LISH: deleteLISHData says that files
\* not part of the LISH are left untouched, for the directory it removes is the LISH's own.
MineIsKept == [][mine' = mine]_lishVars
=============================================================================
