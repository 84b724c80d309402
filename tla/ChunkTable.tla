------------------------------ MODULE ChunkTable -----------------------------
(***************************************************************************)
(* The rows of one LISH in the database (db/lishs*.ts) and the statements  *)
(* on them: what each call of DataServer reads and changes.  A content may *)
(* occur in several chunks; download marks it by checksum, verification by *)
(* the ids of the rows it read at its start, getChunk looks for one row.   *)
(***************************************************************************)
EXTENDS Naturals, Sequences, FiniteSets, SequencesExt

CONSTANTS Layouts,     \* manifests: per file the sequence of its checksums
          MaxAdds      \* bound: times the LISH is added

ASSUME AddsAssumption == MaxAdds \in Nat

VARIABLES
  lishRow,   \* lishs: is it there, upload_enabled, download_enabled, error_code
  chunkRows, \* lishs_chunks with lishs_files, in the order of their ids: file, checksum, have
  adds,      \* ids go up: rows of an earlier insertion are never met again
  checked    \* a verification: the insertion it read, and the rows it has still to mark

tableVars == <<lishRow, chunkRows, adds, checked>>

NoLish == [on |-> FALSE, up |-> FALSE, down |-> FALSE, error |-> FALSE]
NoCheck == [on |-> FALSE, id |-> 0, left |-> {}]

\* The chunk rows addLISH inserts, file by file; none is held, whoever imports strips the flags.
Inserted(layout) ==
  FlattenSeq([f \in DOMAIN layout |-> [c \in DOMAIN layout[f] |-> [file |-> f, sum |-> layout[f][c], have |-> FALSE]]])

TableInit == lishRow = NoLish /\ chunkRows = <<>> /\ adds = 0 /\ checked = NoCheck

Rows == DOMAIN chunkRows
SumsOf(rs) == {chunkRows[r].sum : r \in rs}
HeldRows == {r \in Rows : chunkRows[r].have}
RowsOf(file) == SelectSeq([r \in Rows |-> r], LAMBDA r : chunkRows[r].file = file)
\* UPDATE lishs_chunks SET have = ... WHERE ...
SetHave(rs, have) == chunkRows' = [r \in Rows |-> IF r \in rs THEN [chunkRows[r] EXCEPT !.have = have] ELSE chunkRows[r]]

-----------------------------------------------------------------------------
(* What is read.                                                           *)

IsComplete == Rows # {} /\ HeldRows = Rows
GetHaveChunks == IF Rows # {} /\ HeldRows = Rows THEN {"all"} ELSE SumsOf(HeldRows)
GetMissingChunks == SelectSeq([r \in Rows |-> r], LAMBDA r : ~chunkRows[r].have)
GetAllChunkSlots == [r \in Rows |-> chunkRows[r].sum]
VerificationProgress == [verified |-> Cardinality(HeldRows), total |-> Cardinality(Rows)]
FileProgress(file) == [verified |-> Cardinality({r \in HeldRows : chunkRows[r].file = file}), total |-> Len(RowsOf(file))]
Files == {chunkRows[r].file : r \in Rows}

\* Mutant: the flag is not looked at.
FindAnyLocation(sum) ==
  LET first(f) == SelectSeq(RowsOf(f), LAMBDA r : chunkRows[r].sum = sum)
      hits == {f \in Files : first(f) # <<>>}
  IN  IF hits = {} THEN 0 ELSE Head(first(CHOOSE f \in hits : \A g \in hits : f <= g))

\* findChunkLocation: per file only the first row of the checksum is looked at.
FindChunkLocation(sum) ==
  LET first(f) == SelectSeq(RowsOf(f), LAMBDA r : chunkRows[r].sum = sum)
      hits == {f \in Files : first(f) # <<>> /\ chunkRows[Head(first(f))].have}
  IN  IF hits = {} THEN 0 ELSE Head(first(CHOOSE f \in hits : \A g \in hits : f <= g))

\* listLISHSummaries and getLISHDetail count what the others read.
Summary == [files |-> Cardinality(Files), verified |-> Cardinality(HeldRows), total |-> Cardinality(Rows)]
Detail == [verified |-> VerificationProgress.verified, total |-> VerificationProgress.total,
           perFile |-> [f \in Files |-> FileProgress(f)]]

-----------------------------------------------------------------------------
(* What is written.                                                        *)

\* addLISH: an upsert of the row, which leaves the switches alone, and new rows for the chunks.
AddRows ==
  /\ adds < MaxAdds /\ adds' = adds + 1
  /\ lishRow' = [lishRow EXCEPT !.on = TRUE]
  /\ \E layout \in Layouts : chunkRows' = Inserted(layout)
  /\ UNCHANGED checked

\* deleteLISH: the rest goes by ON DELETE CASCADE.
DeleteRows ==
  /\ lishRow.on /\ lishRow' = NoLish /\ chunkRows' = <<>>
  /\ UNCHANGED <<adds, checked>>

\* markChunkDownloaded, of a chunk that was missing and is now in all its places.
MarkDownloaded(sum) ==
  /\ sum \in SumsOf(Rows \ HeldRows)
  /\ SetHave({r \in Rows : chunkRows[r].sum = sum}, TRUE)
  /\ UNCHANGED <<lishRow, adds, checked>>

\* getFilesForVerification reads the ids; the marks are of rows, which may be gone.
CheckStarts ==
  /\ ~checked.on /\ lishRow.on
  /\ checked' = [on |-> TRUE, id |-> adds, left |-> Rows]
  /\ UNCHANGED <<lishRow, chunkRows, adds>>

Marks(r, ok) ==
  /\ checked.on /\ r \in checked.left
  /\ checked' = [checked EXCEPT !.left = @ \ {r}]
  /\ IF checked.id = adds /\ r \in Rows THEN SetHave({r}, ok) ELSE UNCHANGED chunkRows
  /\ UNCHANGED <<lishRow, adds>>

CheckEnds == checked.on /\ checked' = NoCheck /\ UNCHANGED <<lishRow, chunkRows, adds>>

\* resetVerification, and resetFileChunks or markAllFileChunksFailed of one file.
ResetAll == HeldRows # {} /\ SetHave(Rows, FALSE) /\ UNCHANGED <<lishRow, adds, checked>>
ResetFile(f) ==
  /\ \E r \in HeldRows : chunkRows[r].file = f
  /\ SetHave({r \in Rows : chunkRows[r].file = f}, FALSE)
  /\ UNCHANGED <<lishRow, adds, checked>>

\* The switches and the error of the row.
SetFlags ==
  /\ lishRow.on
  /\ \E f \in {"up", "down", "error"} : lishRow' = [lishRow EXCEPT ![f] = ~@]
  /\ UNCHANGED <<chunkRows, adds, checked>>

TableNext ==
  \/ AddRows \/ DeleteRows \/ CheckStarts \/ CheckEnds \/ ResetAll \/ SetFlags
  \/ \E sum \in SumsOf(Rows) : MarkDownloaded(sum)
  \/ \E r \in checked.left : \E ok \in BOOLEAN : Marks(r, ok)
  \/ \E f \in Files : ResetFile(f)

-----------------------------------------------------------------------------
\* The queries tell one story whatever was marked and reset: a LISH is complete when nothing
\* is missing, peers are told "all" just then, and the totals of the summary, of the details
\* and of the files agree.
QueriesAgree ==
  /\ IsComplete <=> Rows # {} /\ GetMissingChunks = <<>>
  /\ IsComplete <=> GetHaveChunks = {"all"}
  /\ Len(GetMissingChunks) + Summary.verified = Summary.total
  /\ Detail.verified = FoldFunctionOnSet(LAMBDA p, n : p.verified + n, 0, Detail.perFile, Files)
  /\ \A s \in SumsOf(Rows) : FindChunkLocation(s) # 0 => FindChunkLocation(s) \in HeldRows

\* What a peer is told to be held can be asked for.  It does not hold: a verification may mark
\* the second row of a checksum in a file and not the first, which alone is looked at.
AnnouncedIsFound == GetHaveChunks # {"all"} => \A s \in SumsOf(HeldRows) : FindChunkLocation(s) # 0
=============================================================================
