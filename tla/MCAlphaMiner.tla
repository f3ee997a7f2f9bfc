---------------------------- MODULE MCAlphaMiner ----------------------------
(* AlphaMiner for TLC: difficulties and batch sizes.                       *)
EXTENDS AlphaMiner

OneDiff  == {1}
TwoDiffs == {1, 2}
Chunk1   == {1}
Chunk2   == {2}
=============================================================================
