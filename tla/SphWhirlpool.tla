---------------------------- MODULE SphWhirlpool ----------------------------
(***************************************************************************)
(* Whirlpool on the CPU: the three versions of                             *)
(* src/crypto/whirlpool/whirlpool.c over the streaming layer, the wrapper  *)
(* Whirlpool512 and the proof of work of a CapStash header, which the      *)
(* miner verifies its GPU with.                                            *)
(***************************************************************************)
EXTENDS WhirlpoolTables

\* The current version.
plain_row == <<1, 1, 4, 1, 8, 5, 2, 9>>

plain_T0 == Table(plain_S, plain_row, 0)
plain_T1 == Table(plain_S, plain_row, 1)
plain_T2 == Table(plain_S, plain_row, 2)
plain_T3 == Table(plain_S, plain_row, 3)
plain_T4 == Table(plain_S, plain_row, 4)
plain_T5 == Table(plain_S, plain_row, 5)
plain_T6 == Table(plain_S, plain_row, 6)
plain_T7 == Table(plain_S, plain_row, 7)
plain_RC == RoundConstants(plain_S)

plain ==
  [T  |-> <<plain_T0, plain_T1, plain_T2, plain_T3,
            plain_T4, plain_T5, plain_T6, plain_T7>>,
   RC |-> plain_RC, S |-> plain_S, row |-> plain_row]

\* The first version, of 2000.
old0_row == <<1, 1, 3, 1, 5, 8, 9, 5>>

old0_T0 == Table(old0_S, old0_row, 0)
old0_T1 == Table(old0_S, old0_row, 1)
old0_T2 == Table(old0_S, old0_row, 2)
old0_T3 == Table(old0_S, old0_row, 3)
old0_T4 == Table(old0_S, old0_row, 4)
old0_T5 == Table(old0_S, old0_row, 5)
old0_T6 == Table(old0_S, old0_row, 6)
old0_T7 == Table(old0_S, old0_row, 7)
old0_RC == RoundConstants(old0_S)

old0 ==
  [T  |-> <<old0_T0, old0_T1, old0_T2, old0_T3,
            old0_T4, old0_T5, old0_T6, old0_T7>>,
   RC |-> old0_RC, S |-> old0_S, row |-> old0_row]

\* The second version, of 2001.
old1_row == <<1, 1, 3, 1, 5, 8, 9, 5>>

old1_T0 == Table(plain_S, old1_row, 0)
old1_T1 == Table(plain_S, old1_row, 1)
old1_T2 == Table(plain_S, old1_row, 2)
old1_T3 == Table(plain_S, old1_row, 3)
old1_T4 == Table(plain_S, old1_row, 4)
old1_T5 == Table(plain_S, old1_row, 5)
old1_T6 == Table(plain_S, old1_row, 6)
old1_T7 == Table(plain_S, old1_row, 7)
old1_RC == RoundConstants(plain_S)

old1 ==
  [T  |-> <<old1_T0, old1_T1, old1_T2, old1_T3,
            old1_T4, old1_T5, old1_T6, old1_T7>>,
   RC |-> old1_RC, S |-> plain_S, row |-> old1_row]

\* Entries as they are written down in the source, and the sums of all that are
\* written down there.
TablesAsInSource ==
  /\ plain_T0[1] = <<35, 35, 140, 35, 5, 175, 70, 38>>
  /\ plain_T0[255] = <<134, 134, 34, 134, 68, 164, 17, 194>>
  /\ plain_T1[1] = <<38, 35, 35, 140, 35, 5, 175, 70>>
  /\ plain_T2[1] = <<70, 38, 35, 35, 140, 35, 5, 175>>
  /\ plain_T3[1] = <<175, 70, 38, 35, 35, 140, 35, 5>>
  /\ plain_T4[1] = <<5, 175, 70, 38, 35, 35, 140, 35>>
  /\ plain_T5[1] = <<35, 5, 175, 70, 38, 35, 35, 140>>
  /\ plain_T6[1] = <<140, 35, 5, 175, 70, 38, 35, 35>>
  /\ plain_T7[1] = <<35, 140, 35, 5, 175, 70, 38, 35>>
  /\ plain_RC[9] = <<202, 45, 191, 7, 173, 90, 131, 51>>
  /\ old0_T0[1] = <<208, 208, 109, 208, 183, 206, 30, 183>>
  /\ old0_T0[255] = <<130, 130, 155, 130, 176, 100, 230, 176>>
  /\ old0_T1[1] = <<183, 208, 208, 109, 208, 183, 206, 30>>
  /\ old0_T2[1] = <<30, 183, 208, 208, 109, 208, 183, 206>>
  /\ old0_T3[1] = <<206, 30, 183, 208, 208, 109, 208, 183>>
  /\ old0_T4[1] = <<183, 206, 30, 183, 208, 208, 109, 208>>
  /\ old0_T5[1] = <<208, 183, 206, 30, 183, 208, 208, 109>>
  /\ old0_T6[1] = <<109, 208, 183, 206, 30, 183, 208, 208>>
  /\ old0_T7[1] = <<208, 109, 208, 183, 206, 30, 183, 208>>
  /\ old0_RC[9] = <<221, 245, 180, 95, 10, 181, 192, 160>>
  /\ old1_T0[1] = <<35, 35, 101, 35, 175, 5, 38, 175>>
  /\ old1_T0[255] = <<134, 134, 151, 134, 164, 68, 194, 164>>
  /\ old1_T1[1] = <<175, 35, 35, 101, 35, 175, 5, 38>>
  /\ old1_T2[1] = <<38, 175, 35, 35, 101, 35, 175, 5>>
  /\ old1_T3[1] = <<5, 38, 175, 35, 35, 101, 35, 175>>
  /\ old1_T4[1] = <<175, 5, 38, 175, 35, 35, 101, 35>>
  /\ old1_T5[1] = <<35, 175, 5, 38, 175, 35, 35, 101>>
  /\ old1_T6[1] = <<101, 35, 175, 5, 38, 175, 35, 35>>
  /\ old1_T7[1] = <<35, 101, 35, 175, 5, 38, 175, 35>>
  /\ old1_RC[9] = <<202, 45, 191, 7, 173, 90, 131, 51>>
  /\ SumsAsWritten(plain.T, <<4195552, 4195552, 4184179, 4195552,
                              4177271, 4171365, 4187675, 4217437>>)
  /\ SumsAsWritten(old0.T, <<4263619, 4263619, 4202564, 4263619,
                             4242264, 4231741, 4171054, 4242264>>)
  /\ SumsAsWritten(old1.T, <<4195552, 4195552, 4197183, 4195552,
                             4171365, 4177271, 4217437, 4171365>>)
  /\ Weighted(plain_RC, 10) = <<8595, 7183, 6122, 6937, 9383, 5443, 5864, 7019>>
  /\ Weighted(old0_RC, 10) = <<5721, 8079, 6272, 5960, 6900, 5461, 6078, 9206>>
  /\ Weighted(old1_RC, 10) = Weighted(plain_RC, 10)

-----------------------------------------------------------------------------
(* One block.                                                              *)

\* Word j of a round: byte k of word j - k, looked up in table k.  Mutation:
\* the words are taken in the other direction.
ROUND_ELT_Reversed(T, in, j) ==
  XorAll(LAMBDA k : T[k + 1][in[((j + k) % 8) + 1][k + 1]])

ROUND_ELT(T, in, j) ==
  XorAll(LAMBDA k : T[k + 1][in[((j - k) % 8) + 1][k + 1]])

ROUND(T, in, c) == Eight(LAMBDA j : XorWord(ROUND_ELT(T, in, j), c[j + 1]))

\* The key schedule, and a round of the block under its key.
ROUND_KSCHED(T, in, c) == ROUND(T, in, [ZeroWords EXCEPT ![1] = c])
ROUND_WENC(T, in, key) == ROUND(T, in, key)

READ_DATA(src) == Eight(LAMBDA j : Eight(LAMBDA i : src[8 * j + i + 1]))

\* ROUND_FUN: ten rounds of key and block, and both halves of the feed-forward.
ROUND_FUN(v, src, state) ==
  LET n0 == READ_DATA(src)
      Round == [r \in 0..9 |-> [at \in [h : Matrices, n : Matrices] |->
                 LET key == ROUND_KSCHED(v.T, at.h, v.RC[r])
                 IN [h |-> key, n |-> ROUND_WENC(v.T, at.n, key)]]]
      rounds == Rounds(Round, [h |-> state, n |-> XorWords(n0, state)])
  IN XorWords(state, XorWords(rounds[10].n, n0))

-----------------------------------------------------------------------------
(* Messages.                                                               *)

\* Values of the byte counter here, instead of 2^64.
CountBound == 1048576

\* The streaming layer is the same source text for every version.  A block is
\* folded in by remembering it; each version runs its rounds over the blocks.
Remember(block, chain) == Append(chain, block)

Md == INSTANCE MdHelper WITH BLEN <- 64, WLEN <- 8, Radix <- 256,
        CountSpan <- CountBound, UnalignedWords <- TRUE,
        InitialState <- <<>>, RFUN <- Remember

Fresh == [buf |-> [i \in 1..64 |-> 0], val |-> <<>>, count |-> 0]

\* What the rounds get to see of a message that is passed in one call.
Blocks(data) == Md!addbits_and_close(Md!update(Fresh, data, TRUE)).val

\* sph_enc64le of each word of the state.
Digest(state) == [i \in 1..64 |-> state[((i - 1) \div 8) + 1][((i - 1) % 8) + 1]]

\* The rounds of a version over the blocks of a message.
Hash(v, data) ==
  Digest(FoldLeft(LAMBDA state, src : ROUND_FUN(v, src, state), ZeroWords, Blocks(data)))

Whirlpool512(data)   == Hash(plain, data)
sph_whirlpool0(data) == Hash(old0, data)
sph_whirlpool1(data) == Hash(old1, data)

\* Folded from 512 to 256 bits.
cap_pow_hash_header80(header80) ==
  LET wh == Whirlpool512(header80)
  IN [i \in 1..32 |-> XorByte(wh[i], wh[i + 32])]

=============================================================================
