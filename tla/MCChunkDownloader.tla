------------------------- MODULE MCChunkDownloader -------------------------
(* Small downloads for the transfer engine. *)
EXTENDS ChunkDownloader, TLC

Distinct == (1 :> "a") @@ (2 :> "b")
Repeated == (1 :> "a") @@ (2 :> "a")
OneFile == (1 :> 0) @@ (2 :> 0)
TwoFiles == (1 :> 0) @@ (2 :> 1)

\* Two files that share a content, the second with one of its own.
Shared == Repeated @@ (3 :> "b")
SharedFiles == TwoFiles @@ (3 :> 1)

PeerSymmetry == Permutations(Peer)
=============================================================================
