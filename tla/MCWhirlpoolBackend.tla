------------------------- MODULE MCWhirlpoolBackend -------------------------
(***************************************************************************)
(* WhirlpoolBackend for TLC: bytes of two base 4 digits, hashes of eight   *)
(* bytes in four words.                                                    *)
(***************************************************************************)
EXTENDS WhirlpoolBackend

\* A function that mixes its input well enough to tell coinbases apart.
Mix(bytes) ==
  LET sum == FoldLeft(LAMBDA v, x : (37 * v + x + 1) % 65521, 7, bytes)
  IN [i \in 1..8 |-> (sum \div 2^(2 * i - 1)) % 16]

Bytes(v) == [i \in 1..8 |-> (v \div 16^(i - 1)) % 16]

\* A network target of 5 * 16^0, and one of 2040 * 16 with the sign bit set.
PoolA == [job_id |-> "a", display |-> <<1, 2, 3, 4, 5, 6, 7, 8>>,
          version |-> HexOf(<<2, 0, 0, 1>>), nbits |-> HexOf(<<3, 0, 0, 5>>),
          ntime |-> HexOf(<<6, 5, 4, 3>>), merkle_branch |-> <<>>,
          coinb1 |-> <<1, 0>>, coinb2 |-> <<0, 1>>]
PoolB == [PoolA EXCEPT !.job_id = "b", !.nbits = HexOf(<<4, 15, 15, 8>>),
                       !.merkle_branch = <<HexOf(<<9, 8, 7, 6, 5, 4, 3, 2>>)>>]

Work(pool, en2, size, d) ==
  [pool |-> pool, en1 |-> <<3, 2>>, en2 |-> en2, en2_size |-> size,
   difficulty |-> d]

\* No difficulty and 1.5.
SomeWorks == {Work(PoolA, 3, 1, 0), Work(PoolB, 257, 4, 3)}

\* The network and share targets, the last between 1.5 and 1, and one above.
SomeHashes == {Bytes(v) : v \in {5, 32640, 65280, 65281}}

\* Two threads with a ragged stride, and one elsewhere.
SomeBatches == {[start |-> 0, count |-> 3, threads |-> 0],
                [start |-> 250, count |-> 2, threads |-> 1]}

=============================================================================
