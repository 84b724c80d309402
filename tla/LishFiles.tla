------------------------------ MODULE LishFiles ------------------------------
(***************************************************************************)
(* createLISH of lish/lish.ts: a directory is scanned for the progress it  *)
(* announces, then walked again; each file is cut into chunks, which       *)
(* workers hash in parallel.                                               *)
(*                                                                         *)
(* A tree is the sequence of its entries in the order of the walk, which   *)
(* is the order of the scan as well.  The checksum of a chunk is the chunk.*)
(***************************************************************************)
EXTENDS Naturals, Sequences, FiniteSets, SequencesExt

CONSTANTS Trees,      \* sequences of entries
          Threads     \* processors, of which a file takes no more than it has chunks

ASSUME ThreadsAssumption == Threads \in Nat \ {0}

VARIABLES
  tree,      \* what is on the disk
  walk,      \* createLISH: where it is, the announced files, the manifest's files and links, inodes seen
  hashing,   \* calculateChecksumsParallel of the file the walk is at
  stopped    \* the signal of stopCreate

filesVars == <<tree, walk, hashing, stopped>>

\* An entry: a directory, a link, a link to nowhere, or a file with its inode and chunks.
Entry == [kind : {"dir", "link", "broken"}, inode : {0}, chunks : {0}]
         \cup [kind : {"file"}, inode : {1, 2}, chunks : 0..2]

FileRecord(i, sums) == [entry |-> i, sums |-> sums]

\* Mutant: the scan counts every name of a file.
ScannedNames(t) ==
  LET fresh(i) == t[i].kind = "file" IN SelectSeq([i \in DOMAIN t |-> i], fresh)

\* scanFiles: what cannot be looked at and links are skipped, each inode counts once.
Scanned(t) ==
  LET fresh(i) == t[i].kind = "file" /\ \A j \in 1..i - 1 : t[j].kind = "file" => t[j].inode # t[i].inode
  IN  SelectSeq([i \in DOMAIN t |-> i], fresh)

NoHashing == [on |-> FALSE, next |-> 0, workers |-> <<>>, sums |-> <<>>]

FilesInit ==
  /\ tree \in Trees /\ stopped = FALSE
  /\ walk = [at |-> "scan", i |-> 0, announced |-> <<>>, files |-> <<>>, links |-> <<>>, seen |-> {}]
  /\ hashing = NoHashing

CreateFails(error) == walk' = [walk EXCEPT !.at = error] /\ hashing' = [NoHashing EXCEPT !.workers = hashing.workers]

Scan ==
  /\ walk.at = "scan"
  /\ walk' = [walk EXCEPT !.at = "walk", !.announced = Scanned(tree)]
  /\ UNCHANGED <<tree, hashing, stopped>>

\* Mutant: the chunk is taken when its worker is done with the last one.
FedSlowly(h, w, chunks) ==
  IF h.next >= chunks THEN [h EXCEPT !.workers[w] = 0]
  ELSE [h EXCEPT !.next = IF h.workers[w] = 0 THEN @ ELSE @ + 1, !.workers[w] = h.next + 1]

\* The next chunk for a worker that is free: feedWorker.
Fed(h, w, chunks) ==
  IF h.next >= chunks THEN [h EXCEPT !.workers[w] = 0]
  ELSE [h EXCEPT !.next = @ + 1, !.workers[w] = h.next + 1]

\* As many workers as processors, but not more than chunks; each gets its first.
Started(chunks) ==
  LET count == IF Threads < chunks THEN Threads ELSE chunks
      new == [on |-> TRUE, next |-> 0, workers |-> [w \in 1..count |-> 0], sums |-> [c \in 1..chunks |-> 0]]
  IN  FoldLeft(LAMBDA h, w : Fed(h, w, chunks), new, [w \in 1..count |-> w])

\* processDirectory at its next entry: the stop is looked at before the entry, which is then
\* looked at through links, so that a link to nowhere ends the creation.
WalkEntry ==
  LET i == walk.i + 1  e == tree[i] IN
  /\ walk.at = "walk" /\ ~hashing.on /\ i \in DOMAIN tree
  /\ UNCHANGED <<tree, stopped>>
  /\ IF stopped THEN CreateFails("cancelled")
     ELSE CASE e.kind = "broken" -> CreateFails("denied")
            [] e.kind = "dir" -> walk' = [walk EXCEPT !.i = i] /\ UNCHANGED hashing
            [] e.kind = "link" \/ (e.kind = "file" /\ e.inode \in walk.seen) ->
                 walk' = [walk EXCEPT !.i = i, !.links = Append(@, i)] /\ UNCHANGED hashing
            [] OTHER ->
                 /\ walk' = [walk EXCEPT !.i = i, !.seen = @ \cup {e.inode},
                                         !.files = IF e.chunks = 0 THEN Append(@, FileRecord(i, <<>>)) ELSE @]
                 /\ hashing' = IF e.chunks = 0 THEN hashing ELSE Started(e.chunks)

\* A worker answers: its checksum goes to its place, and it is fed again unless all is done.
WorkerAnswers(w) ==
  LET h == [hashing EXCEPT !.sums[hashing.workers[w]] = hashing.workers[w]]
      all == \A c \in DOMAIN h.sums : h.sums[c] # 0
  IN
  /\ hashing.on /\ w \in DOMAIN hashing.workers /\ hashing.workers[w] # 0
  /\ UNCHANGED <<tree, stopped>>
  /\ IF all THEN /\ walk' = [walk EXCEPT !.files = Append(@, FileRecord(walk.i, h.sums))]
                 /\ hashing' = NoHashing
     ELSE hashing' = Fed(h, w, Len(h.sums)) /\ UNCHANGED walk

\* A worker fails, or answers that it could not read; then the other workers stay.
WorkerFails(w) ==
  /\ hashing.on /\ w \in DOMAIN hashing.workers /\ hashing.workers[w] # 0
  /\ UNCHANGED <<tree, stopped>>
  /\ walk' = [walk EXCEPT !.at = "failed"]
  /\ hashing' \in {NoHashing, [NoHashing EXCEPT !.workers = hashing.workers]}

\* stopCreate: hashing ends at once, the walk at its next entry.
StopHashing ==
  /\ walk.at \in {"scan", "walk"} /\ ~stopped /\ stopped' = TRUE /\ UNCHANGED tree
  /\ IF hashing.on THEN walk' = [walk EXCEPT !.at = "cancelled"] /\ hashing' = NoHashing ELSE UNCHANGED <<walk, hashing>>

WalkEnds ==
  /\ walk.at = "walk" /\ ~hashing.on /\ walk.i = Len(tree)
  /\ walk' = [walk EXCEPT !.at = "done"] /\ UNCHANGED <<tree, hashing, stopped>>

FilesStep == Scan \/ WalkEntry \/ WalkEnds \/ \E w \in 1..Threads : WorkerAnswers(w)
FilesNext == FilesStep \/ StopHashing \/ \E w \in 1..Threads : WorkerFails(w)

-----------------------------------------------------------------------------
\* The manifest of a creation that succeeds has the files the scan announced, each with the
\* checksum of every chunk at its place, whatever order the workers answered in; and every
\* other name is a link.
ManifestIsWhole ==
  walk.at = "done" =>
    /\ [k \in DOMAIN walk.files |-> walk.files[k].entry] = walk.announced
    /\ \A k \in DOMAIN walk.files : walk.files[k].sums = [c \in 1..tree[walk.files[k].entry].chunks |-> c]
    /\ \A i \in DOMAIN tree : tree[i].kind # "dir" => i \in Range(walk.links) \cup Range(walk.announced)

\* No chunk is with two workers, and none that was handed out is forgotten: hashing goes on
\* to the end of the file unless a worker fails.
ChunksAreOut ==
  hashing.on => \A c \in DOMAIN hashing.sums :
    \/ c > hashing.next /\ \E w \in DOMAIN hashing.workers : hashing.workers[w] # 0
    \/ c <= hashing.next /\ Cardinality({w \in DOMAIN hashing.workers : hashing.workers[w] = c}) = IF hashing.sums[c] = 0 THEN 1 ELSE 0
=============================================================================
