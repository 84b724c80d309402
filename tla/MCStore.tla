------------------------------- MODULE MCStore -------------------------------
(* The store of LISHs, the rows of one LISH and the making of one, each by  *)
(* itself: mode says which of them moves.                                   *)
EXTENDS LishStore, LishFiles, ChunkTable

VARIABLE mode

mcTrees ==
  LET file(i, c) == [kind |-> "file", inode |-> i, chunks |-> c]
      other(k) == [kind |-> k, inode |-> 0, chunks |-> 0]
  IN  SeqOf({file(1, 2), file(2, 1), file(2, 0), other("dir"), other("link"), other("broken")}, 3)
mcLayouts == {<<<<"a", "b">>, <<"a">>>>, <<<<"a", "a">>, <<"b">>>>, <<<<>>, <<"b">>>>, <<>>}

\* The store as two LISHs that are verified and deleted by one call at a time, as one LISH all that is
\* done to it meets, and as one LISH two calls of which meet.
storeModes == {"queue", "lish", "pair"}
Sameness(m) ==
  /\ m \notin storeModes => UNCHANGED lishVars
  /\ m # "files" => UNCHANGED filesVars
  /\ m # "table" => UNCHANGED tableVars
Aside(l) == row'[l] = NoRow /\ Idle(l)'
Within(m) ==
  /\ m = "queue" => /\ UNCHANGED writer /\ \A l \in Lish : row'[l].dir \in {"home", Nowhere}
                    /\ \A o \in Op : op'[o].at # "scan" /\ op'[o].then \in {"nothing", "drop", "reset"}
  /\ m # "queue" => \A l \in Lish \ {NoOp.lish} : Aside(l)
  /\ m # "pair" => \A o \in Op \ {1} : op'[o].at = "idle"
  /\ m = "pair" => events' < MaxEvents

mcInit ==
  /\ mode \in storeModes \cup {"files", "table"} /\ StoreInit /\ FilesInit /\ TableInit
  /\ mode # "queue" => \A l \in Lish \ {NoOp.lish} : row[l] = NoRow
  /\ mode \notin storeModes => row[NoOp.lish] = NoRow
  /\ mode # "files" => tree = <<>>
mcNext ==
  /\ UNCHANGED mode /\ Sameness(mode)
  /\ \/ mode \in storeModes /\ StoreNext /\ Within(mode)
     \/ mode = "files" /\ FilesNext
     \/ mode = "table" /\ TableNext
mcSpec == mcInit /\ [][mcNext]_<<lishVars, filesVars, tableVars, mode>> /\ StoreFairness

-----------------------------------------------------------------------------
\* One verification works at a time, the queue always has somebody who works
\* on it, and what is quiet is free to be moved or deleted (lishs.ts,
\* the verification queue).
VerificationHolds == StoreTypeOK /\ OneVerifier /\ QueueIsWatched /\ QuietIsFree

\* A new manifest lists every file of the tree with all its chunks in order,
\* whatever the order of the workers' answers, and the queries over its rows
\* agree with each other (lish.ts createLISH, lishs-chunks.ts).
ManifestHolds == ManifestIsWhole /\ ChunksAreOut /\ QueriesAgree

\* A move or a finalization that fails costs no file, and a call that stops
\* verifications returns (lishs.ts moveAdmitted, stopVerifyAll).
StoreGoesOn == NothingIsLost /\ StopsReturn
=============================================================================
