-------------------------- MODULE MCCapStashMiner --------------------------
(***************************************************************************)
(* Instances of CapStashMiner for TLC.                                     *)
(***************************************************************************)
EXTENDS CapStashMiner

OneDiff  == {1}
TwoDiffs == {1, 2}
Chunk1   == {1}
Chunk2   == {2}

=============================================================================
