---------------------------- MODULE CpuWhirlpool ----------------------------
(***************************************************************************)
(* Whirlpool as its designers define it, and the table-driven functions of *)
(* SphWhirlpool measured against it: a message is hashed by one of the     *)
(* three versions, and the digest has to be the defined one.               *)
(***************************************************************************)
EXTENDS WhirlpoolTables

CONSTANT Lengths   \* lengths of the messages

Sph == INSTANCE SphWhirlpool

ASSUME TablesAssumption == Sph!TablesAsInSource

\* The byte counter holds the length in bits.
ASSUME CpuAssumption == \A n \in Lengths : n \in Nat /\ 8 * n < Sph!CountBound

VARIABLE cpu   \* the version, the message and the digest of the last call

Versions == {"whirlpool", "whirlpool0", "whirlpool1"}

CpuInit == cpu = [version |-> "none", message |-> <<>>, digest |-> <<>>]

Message(len) == [i \in 1..len |-> (7 * i + 3) % 256]

\* sph_whirlpool, sph_whirlpool0 or sph_whirlpool1, from init to close.
HashMessage(version, len) ==
  cpu' = [version |-> version, message |-> Message(len),
          digest |-> CASE version = "whirlpool"  -> Sph!Whirlpool512(Message(len))
                       [] version = "whirlpool0" -> Sph!sph_whirlpool0(Message(len))
                       [] version = "whirlpool1" -> Sph!sph_whirlpool1(Message(len))]

CpuNext == \E version \in Versions, len \in Lengths : HashMessage(version, len)

CpuSpec == CpuInit /\ [][CpuNext]_cpu

-----------------------------------------------------------------------------
(* The definition: a state of 8 by 8 bytes, row i the word i.              *)

SubBytes(S, M) == Eight(LAMBDA i : Eight(LAMBDA j : S[M[i + 1][j + 1] + 1]))

\* Column j goes down by j rows.
ShiftColumns(M) == Eight(LAMBDA i : Eight(LAMBDA j : M[((i - j) % 8) + 1][j + 1]))

\* Each row times the circulant matrix.
MixRows(c, M) ==
  Eight(LAMBDA i : XorAll(LAMBDA k :
    Eight(LAMBDA j : TimesGF(c[((j - k) % 8) + 1], M[i + 1][k + 1]))))

Rho(S, c, M, key) == XorWords(MixRows(c, ShiftColumns(SubBytes(S, M))), key)

\* W[K](M), and M and K on top of it.
MiyaguchiPreneel(S, c, M, K) ==
  LET Constant(r) == [ZeroWords EXCEPT ![1] = RoundConstants(S)[r]]
      Round == [r \in 0..9 |-> [at \in [key : Matrices, state : Matrices] |->
                 LET next == Rho(S, c, at.key, Constant(r))
                 IN [key |-> next, state |-> Rho(S, c, at.state, next)]]]
      W == Rounds(Round, [key |-> K, state |-> XorWords(M, K)])
  IN XorWords(W[10].state, XorWords(M, K))

\* A 1 bit, 0 bits, and the length in bits as 32 bytes; no message is so long
\* that more than three of them count.
PaddedData(data) ==
  LET zeros == CHOOSE z \in 0..63 : (Len(data) + 1 + z + 32) % 64 = 0
      bits  == 8 * Len(data)
  IN data \o <<128>> \o [i \in 1..zeros + 29 |-> 0]
          \o <<bits \div 65536, (bits \div 256) % 256, bits % 256>>

Defined(S, c, data) ==
  LET padded   == PaddedData(data)
      Block(b) == Sph!READ_DATA(SubSeq(padded, 64 * b - 63, 64 * b))
  IN Sph!Digest(FoldLeft(LAMBDA K, b : MiyaguchiPreneel(S, c, Block(b), K), ZeroWords,
                     [b \in 1..Len(padded) \div 64 |-> b]))

\* The tables, the unrolled rounds, the buffer and the padding compute the
\* function, for messages on both sides of every boundary of the padding; the
\* versions differ in their substitution box and their matrix only.
CpuIsWhirlpool ==
  cpu.version # "none" =>
    cpu.digest =
      Defined(IF cpu.version = "whirlpool0" THEN old0_S ELSE plain_S,
              IF cpu.version = "whirlpool" THEN Sph!plain_row ELSE Sph!old0_row, cpu.message)

=============================================================================
