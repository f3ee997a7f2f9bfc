--------------------------- MODULE DataPathsProofs ---------------------------
(***************************************************************************)
(* The two computations of Whirlpool (SphWhirlpool, CudaWhirlpool), and    *)
(* the definition (CpuWhirlpool), at full size.                            *)
(*                                                                         *)
(* Every round of either side is one function of its tables (RoundOf), so  *)
(* whirlpool_compress_cuda and ROUND_FUN are one function of a block and a *)
(* state (Compress), and the keys the GPU prepares are those of the whole  *)
(* computation (KeysAre, PreparedIs).  What the streaming layer makes of a *)
(* message passed in one call are the blocks of the padded one             *)
(* (BlocksSeen), hence the digest is a chain over those blocks (HashIs).   *)
(* For the 80 bytes of a header this is what each path of the GPU computes *)
(* (PowHash, PlainPath, LaneHash).  The definition's round is the looked   *)
(* up one (RhoIs), its padding the code's (DefinitionPads), so the digests *)
(* of all three versions are the defined ones (DefinedIs).                 *)
(***************************************************************************)
EXTENDS DataPaths, DataLemmas, TLAPS

-----------------------------------------------------------------------------
(* Bytes, words and blocks of Whirlpool.                                   *)

\* A bit of a sum is a bit.
LEMMA XorBitIs == ASSUME NEW x \in Byte, NEW y \in Byte, NEW n \in Nat \ {0}
                  PROVE XorBit(x, y, n) \in 0..1
<1>1. x \in Int /\ y \in Int
  BY DEF Byte
<1>2. x \div n \in Int /\ y \div n \in Int
  BY <1>1
<1>3. (x \div n + y \div n) % 2 \in 0..1
  BY <1>2
<1> QED
  BY <1>3 DEF XorBit

\* The sum of two bytes is a byte.
LEMMA XorByteIs == ASSUME NEW x \in Byte, NEW y \in Byte PROVE XorByte(x, y) \in Byte
<1> DEFINE b(n) == XorBit(x, y, n)
<1>1. /\ b(1) \in 0..1 /\ b(2) \in 0..1 /\ b(4) \in 0..1 /\ b(8) \in 0..1
      /\ b(16) \in 0..1 /\ b(32) \in 0..1 /\ b(64) \in 0..1 /\ b(128) \in 0..1
  BY XorBitIs
<1>2. XorByte(x, y) = b(1) + 2 * b(2) + 4 * b(4) + 8 * b(8)
                        + 16 * b(16) + 32 * b(32) + 64 * b(64) + 128 * b(128)
  BY DEF XorByte, XorTable
<1> HIDE DEF b
<1> QED
  BY <1>1, <1>2 DEF Byte

\* The words.
ByteWord == [1..8 -> Byte]

\* Eight values are a function of eight indices.
LEMMA EightIs ==
  ASSUME NEW S, NEW f \in [0..7 -> S], NEW t,
         t = <<f[0], f[1], f[2], f[3], f[4], f[5], f[6], f[7]>>
  PROVE  t \in [1..8 -> S] /\ \A i \in 0..7 : t[i + 1] = f[i]
  OBVIOUS

\* The sum of two words.
LEMMA XorWordIs ==
  ASSUME NEW a \in ByteWord, NEW b \in ByteWord
  PROVE  XorWord(a, b) \in ByteWord /\ \A i \in 1..8 : XorWord(a, b)[i] = XorByte(a[i], b[i])
<1>1. \A i \in 1..8 : XorByte(a[i], b[i]) \in Byte
  BY XorByteIs DEF ByteWord
<1> QED
  BY <1>1 DEF XorWord, Eight, ByteWord

\* The sum of two blocks.
LEMMA XorWordsIs ==
  ASSUME NEW a \in Matrices, NEW b \in Matrices
  PROVE  /\ XorWords(a, b) \in Matrices
         /\ \A j \in 1..8 : XorWords(a, b)[j] = XorWord(a[j], b[j])
<1>1. \A j \in 1..8 : a[j] \in ByteWord /\ b[j] \in ByteWord
  BY DEF Matrices, ByteWord
<1>2. \A j \in 1..8 : XorWord(a[j], b[j]) \in ByteWord
  BY <1>1, XorWordIs
<1> QED
  BY <1>2 DEF XorWords, Eight, Matrices, ByteWord

\* The sum of eight words.
Sum8(f) ==
  XorWord(XorWord(XorWord(f[0], f[1]), XorWord(f[2], f[3])),
          XorWord(XorWord(f[4], f[5]), XorWord(f[6], f[7])))

\* It is a word.
LEMMA Sum8Is == ASSUME NEW f \in [0..7 -> ByteWord] PROVE Sum8(f) \in ByteWord
<1>1. \A i \in 0..7 : f[i] \in ByteWord
  OBVIOUS
<1>2. \A a, b : a \in ByteWord /\ b \in ByteWord => XorWord(a, b) \in ByteWord
  BY XorWordIs
<1>3. /\ XorWord(f[0], f[1]) \in ByteWord /\ XorWord(f[2], f[3]) \in ByteWord
      /\ XorWord(f[4], f[5]) \in ByteWord /\ XorWord(f[6], f[7]) \in ByteWord
  BY <1>1, <1>2
<1> QED
  BY <1>2, <1>3 DEF Sum8

\* Both substitution boxes hold bytes.
LEMMA BoxesHoldBytes == \A x \in Byte : plain_S[x + 1] \in Byte /\ old0_S[x + 1] \in Byte
<1>1. \A x \in Byte : plain_S[x + 1] \in Byte
  BY DEF plain_S, Byte
<1>2. \A x \in Byte : old0_S[x + 1] \in Byte
  BY DEF old0_S, Byte
<1> QED
  BY <1>1, <1>2

\* Products are bytes.
LEMMA DoubleIs == ASSUME NEW x \in Byte PROVE Double(x) \in Byte
<1>1. CASE x < 128
  BY <1>1 DEF Double, Byte
<1>2. CASE ~(x < 128)
  <2>1. 2 * x - 256 \in Byte /\ 29 \in Byte
    BY <1>2 DEF Byte
  <2> QED
    BY <1>2, <2>1, XorByteIs DEF Double
<1> QED
  BY <1>1, <1>2

\* The same, for any factor.
LEMMA TimesIs == ASSUME NEW c, NEW x \in Byte PROVE TimesGF(c, x) \in Byte
<1> DEFINE x2 == Double(x)
           x4 == Double(x2)
           Bit(n, y) == IF (c \div n) % 2 = 1 THEN y ELSE 0
<1>1. x2 \in Byte /\ x4 \in Byte /\ Double(x4) \in Byte
  BY DoubleIs
<1>2. \A n, y : y \in Byte => Bit(n, y) \in Byte
  BY DEF Byte
<1>3. TimesGF(c, x)
        = XorByte(XorByte(Bit(1, x), Bit(2, x2)), XorByte(Bit(4, x4), Bit(8, Double(x4))))
  BY DEF TimesGF
<1> HIDE DEF x2, x4, Bit
<1> QED
  BY <1>1, <1>2, <1>3, XorByteIs

\* A substitution box.
Box(S) == \A x \in Byte : S[x + 1] \in Byte

\* The entries of a table are words: one product per byte.
LEMMA TableIs ==
  ASSUME NEW S, Box(S), NEW c, NEW k \in 0..7, NEW x \in Byte
  PROVE  /\ Table(S, c, k)[x] \in ByteWord
         /\ \A i \in 0..7 : Table(S, c, k)[x][i + 1] = TimesGF(c[((i - k) % 8) + 1], S[x + 1])
<1> DEFINE f == [i \in 0..7 |-> TimesGF(c[((i - k) % 8) + 1], S[x + 1])]
<1>1. f \in [0..7 -> Byte]
  BY TimesIs DEF Box
<1>2. Table(S, c, k)[x] = <<f[0], f[1], f[2], f[3], f[4], f[5], f[6], f[7]>>
  BY DEF Table, Eight
<1>3. \A i \in 0..7 : f[i] = TimesGF(c[((i - k) % 8) + 1], S[x + 1])
  OBVIOUS
<1> HIDE DEF f
<1> QED
  BY <1>1, <1>2, <1>3, EightIs DEF ByteWord

\* The round constants are words.
LEMMA ConstantsAre == ASSUME NEW S, Box(S), NEW r \in 0..9 PROVE RoundConstants(S)[r] \in ByteWord
<1>1. \A i \in 0..7 : 8 * r + i \in Byte
  BY DEF Byte
<1>2. \A i \in 0..7 : S[8 * r + i + 1] \in Byte
  BY <1>1 DEF Box
<1> QED
  BY <1>2 DEF RoundConstants, Eight, ByteWord

\* Nothing, and a word alone.
LEMMA ZeroIs == ZeroWords \in Matrices /\ ZeroWord \in ByteWord
<1>1. ZeroWord \in ByteWord
  BY DEF ZeroWord, Eight, ByteWord, Byte
<1> QED
  BY <1>1 DEF ZeroWords, Eight, Matrices, ByteWord

\* A word in the first place.
LEMMA FirstIs == ASSUME NEW c \in ByteWord PROVE [ZeroWords EXCEPT ![1] = c] \in Matrices
  BY ZeroIs DEF Matrices, ByteWord

-----------------------------------------------------------------------------
(* Rounds.                                                                 *)

\* The CPU's copy of the arithmetic is the same.
LEMMA SphSame ==
  /\ Sph!Byte = Byte /\ Sph!Matrices = Matrices
  /\ Sph!ZeroWord = ZeroWord /\ Sph!ZeroWords = ZeroWords
  /\ Sph!plain_S = plain_S /\ Sph!old0_S = old0_S
<1>1. Sph!Byte = Byte /\ Sph!Matrices = Matrices
  BY DEF Sph!Byte, Byte, Sph!Matrices, Matrices
<1>2. Sph!ZeroWord = ZeroWord /\ Sph!ZeroWords = ZeroWords
  BY DEF Sph!ZeroWord, ZeroWord, Sph!ZeroWords, ZeroWords, Eight, Sph!Eight
<1>3. Sph!plain_S = plain_S
  BY DEF Sph!plain_S, plain_S
<1>4. Sph!old0_S = old0_S
  BY DEF Sph!old0_S, old0_S
<1> QED
  BY <1>1, <1>2, <1>3, <1>4

\* And its operators.
LEMMA SphSums ==
  ASSUME NEW a, NEW b
  PROVE  /\ Sph!XorByte(a, b) = XorByte(a, b) /\ Sph!XorWord(a, b) = XorWord(a, b)
         /\ Sph!XorWords(a, b) = XorWords(a, b)
         /\ Sph!Rounds(a, b) = Rounds(a, b)
<1>1. \A x, y : Sph!XorByte(x, y) = XorByte(x, y)
  <2>1. Sph!XorTable = XorTable
    BY SphSame DEF Sph!XorTable, XorTable, Sph!XorBit, XorBit
  <2> QED
    BY <2>1 DEF Sph!XorByte, XorByte
<1>2. \A x, y : Sph!XorWord(x, y) = XorWord(x, y)
  BY <1>1 DEF Sph!XorWord, XorWord, Sph!Eight, Eight
<1>3. \A x, y : Sph!XorWords(x, y) = XorWords(x, y)
  BY <1>2 DEF Sph!XorWords, XorWords, Sph!Eight, Eight
<1>4. Sph!Rounds(a, b) = Rounds(a, b)
  BY DEF Sph!Rounds, Rounds
<1> QED
  BY <1>1, <1>2, <1>3, <1>4, Zenon

\* The tables and constants it computes.
LEMMA SphTables ==
  ASSUME NEW S, NEW c
  PROVE  /\ \A k : Sph!Table(S, c, k) = Table(S, c, k)
         /\ Sph!RoundConstants(S) = RoundConstants(S)
<1>1. \A x : Sph!Double(x) = Double(x)
  BY SphSums DEF Sph!Double, Double
<1>2. \A d, x : Sph!TimesGF(d, x) = TimesGF(d, x)
  BY <1>1, SphSums DEF Sph!TimesGF, TimesGF
<1>3. \A k : Sph!Table(S, c, k) = Table(S, c, k)
  BY <1>2, SphSame DEF Sph!Table, Table, Sph!Eight, Eight
<1>4. Sph!RoundConstants(S) = RoundConstants(S)
  BY DEF Sph!RoundConstants, RoundConstants, Sph!Eight, Eight
<1> QED
  BY <1>3, <1>4

\* ByteWord j of a round, and a round.
Elt(T, in, j) == Sum8([k \in 0..7 |-> T[k + 1][in[((j - k) % 8) + 1][k + 1]]])
RoundOf(T, in, c) ==
  <<XorWord(Elt(T, in, 0), c[1]), XorWord(Elt(T, in, 1), c[2]), XorWord(Elt(T, in, 2), c[3]),
    XorWord(Elt(T, in, 3), c[4]), XorWord(Elt(T, in, 4), c[5]), XorWord(Elt(T, in, 5), c[6]),
    XorWord(Elt(T, in, 6), c[7]), XorWord(Elt(T, in, 7), c[8])>>

\* Tables of words.
Tables(T) == \A k \in 0..7 : \A x \in Byte : T[k + 1][x] \in ByteWord

\* A round makes a block of a block.
LEMMA RoundOfIs ==
  ASSUME NEW T, Tables(T), NEW in \in Matrices, NEW c \in Matrices
  PROVE  /\ RoundOf(T, in, c) \in Matrices
         /\ \A j \in 0..7 : RoundOf(T, in, c)[j + 1] = XorWord(Elt(T, in, j), c[j + 1])
<1>1. ASSUME NEW j \in 0..7 PROVE Elt(T, in, j) \in ByteWord
  <2> DEFINE f == [k \in 0..7 |-> T[k + 1][in[((j - k) % 8) + 1][k + 1]]]
  <2>1. \A k \in 0..7 : ((j - k) % 8) + 1 \in 1..8 /\ k + 1 \in 1..8
    OBVIOUS
  <2>2. \A k \in 0..7 : in[((j - k) % 8) + 1][k + 1] \in Byte
    BY <2>1 DEF Matrices
  <2>3. f \in [0..7 -> ByteWord]
    BY <2>2 DEF Tables
  <2>4. Elt(T, in, j) = Sum8(f)
    BY DEF Elt
  <2> HIDE DEF f
  <2> QED
    BY <2>3, <2>4, Sum8Is
<1> DEFINE G == [j \in 0..7 |-> XorWord(Elt(T, in, j), c[j + 1])]
<1>2. \A j \in 0..7 : c[j + 1] \in ByteWord
  BY DEF Matrices, ByteWord
<1>3. G \in [0..7 -> ByteWord]
  BY <1>1, <1>2, XorWordIs
<1>4. RoundOf(T, in, c) = <<G[0], G[1], G[2], G[3], G[4], G[5], G[6], G[7]>>
  BY DEF RoundOf
<1>5. \A j \in 0..7 : G[j] = XorWord(Elt(T, in, j), c[j + 1])
  OBVIOUS
<1> HIDE DEF G
<1>6. RoundOf(T, in, c) \in [1..8 -> ByteWord] /\ \A j \in 0..7 : RoundOf(T, in, c)[j + 1] = G[j]
  BY <1>3, <1>4, EightIs
<1> QED
  BY <1>5, <1>6 DEF Matrices, ByteWord

\* A round of the CPU.
LEMMA SphRound == ASSUME NEW T, NEW in, NEW c PROVE Sph!ROUND(T, in, c) = RoundOf(T, in, c)
<1>1. \A j \in 0..7 : Sph!ROUND_ELT(T, in, j) = Elt(T, in, j)
  BY SphSums DEF Sph!ROUND_ELT, Sph!XorAll, Elt, Sum8
<1> QED
  BY <1>1, SphSums DEF Sph!ROUND, Sph!Eight, RoundOf

\* A round of the GPU, from constant memory.
LEMMA CudaRound == ASSUME NEW in, NEW c PROVE WROUND(in, c) = RoundOf(plain_T, in, c)
<1>1. \A j \in 0..7 : WROUND_ELT(in, j) = Elt(plain_T, in, j)
  BY DEF WROUND_ELT, XorAll, Elt, Sum8
<1> QED
  BY <1>1 DEF WROUND, Eight, RoundOf

\* And from shared memory, once every lane has copied its share.
LEMMA SharedRound ==
  ASSUME copied = Lanes, NEW in \in Matrices, NEW c
  PROVE  WROUND_S(in, c) = RoundOf(plain_T, in, c)
<1>1. ASSUME NEW j \in 0..7, NEW k \in 0..7
      PROVE  s_T(k + 1, in[((j - k) % 8) + 1][k + 1])
               = plain_T[k + 1][in[((j - k) % 8) + 1][k + 1]]
  <2>1. ((j - k) % 8) + 1 \in 1..8 /\ k + 1 \in 1..8
    OBVIOUS
  <2>2. PICK x \in Byte : x = in[((j - k) % 8) + 1][k + 1]
    BY <2>1 DEF Matrices
  <2>3. x % BlockDim \in Lanes
    BY CudaAssumption DEF Lanes, Byte
  <2> QED
    BY <2>2, <2>3 DEF s_T
<1>2. ASSUME NEW j \in 0..7 PROVE WELT_S(in, j) = Elt(plain_T, in, j)
  <2> DEFINE f == [k \in 0..7 |-> s_T(k + 1, in[((j - k) % 8) + 1][k + 1])]
             G == [k \in 0..7 |-> plain_T[k + 1][in[((j - k) % 8) + 1][k + 1]]]
  <2>1. f = G
    BY <1>1
  <2>2. WELT_S(in, j) = Sum8(f)
    BY DEF WELT_S, XorAll, Sum8
  <2>3. Elt(plain_T, in, j) = Sum8(G)
    BY DEF Elt
  <2> QED
    BY <2>1, <2>2, <2>3
<1> QED
  BY <1>2 DEF WROUND_S, Eight, RoundOf

\* Ten rounds, from a value of S.
LEMMA RoundsAre ==
  ASSUME NEW S, NEW start \in S, NEW Round \in [0..9 -> [S -> S]]
  PROVE  /\ \A r \in 0..10 : Rounds(Round, start)[r] \in S
         /\ Rounds(Round, start)[0] = start
         /\ \A r \in 0..9 : Rounds(Round, start)[r + 1] = Round[r][Rounds(Round, start)[r]]
<1> DEFINE h == [p \in (0..9) \X S |-> Round[p[1]][p[2]]]
           Is(x) == x = [r \in 0..10 |-> IF r = 0 THEN start ELSE Round[r - 1][x[r - 1]]]
<1>1. \A r \in 0..9 : \A v \in S : h[<<r, v>>] = Round[r][v] /\ Round[r][v] \in S
  <2> SUFFICES ASSUME NEW r \in 0..9, NEW v \in S
               PROVE  h[<<r, v>>] = Round[r][v] /\ Round[r][v] \in S
    OBVIOUS
  <2>1. <<r, v>> \in (0..9) \X S /\ <<r, v>>[1] = r /\ <<r, v>>[2] = v
    OBVIOUS
  <2> QED
    BY <2>1
<1> HIDE DEF h
<1>2. PICK n \in Nat : n = 10
  OBVIOUS
<1>3. Closed(h, 0..n - 1, S)
  BY <1>1, <1>2 DEF Closed
<1>4. PICK f \in [0..n -> S] : CountsUp(f, start, h, n)
  BY <1>3, Recursion
<1>5. f[0] = start /\ f \in [0..10 -> S] /\ \A r \in 0..9 : f[r + 1] = Round[r][f[r]]
  BY <1>1, <1>2, <1>4 DEF CountsUp
<1>6. Is(f)
  <2>1. ASSUME NEW r \in 0..10
        PROVE  f[r] = IF r = 0 THEN start ELSE Round[r - 1][f[r - 1]]
    <3>1. CASE r = 0
      BY <1>5, <3>1
    <3>2. CASE r # 0
      <4>1. r - 1 \in 0..9 /\ (r - 1) + 1 = r
        BY <3>2
      <4> QED
        BY <1>5, <3>2, <4>1
    <3> QED
      BY <3>1, <3>2
  <2> QED
    BY <1>5, <2>1
<1>7. Rounds(Round, start) = CHOOSE x : Is(x)
  BY DEF Rounds
<1> HIDE DEF Is
<1>8. Is(Rounds(Round, start))
  BY <1>6, <1>7, Zenon
<1>9. PICK x : x = Rounds(Round, start)
  OBVIOUS
<1>10. x = [r \in 0..10 |-> IF r = 0 THEN start ELSE Round[r - 1][x[r - 1]]]
  BY <1>8, <1>9 DEF Is
<1>11. x[0] = start /\ \A r \in 0..9 : x[r + 1] = Round[r][x[r]]
  <2>1. x[0] = start
    BY <1>10
  <2>2. ASSUME NEW r \in 0..9 PROVE x[r + 1] = Round[r][x[r]]
    <3>1. r + 1 \in 0..10 /\ r + 1 # 0 /\ (r + 1) - 1 = r
      OBVIOUS
    <3> QED
      BY <1>10, <3>1
  <2> QED
    BY <2>1, <2>2
<1>12. \A r \in 0..10 : x[r] \in S
  <2> DEFINE T == {m \in Nat : m <= 10 => x[m] \in S}
  <2>1. 0 \in T
    BY <1>11
  <2>2. \A m \in Nat : m \in T => m + 1 \in T
    <3> SUFFICES ASSUME NEW m \in Nat, m \in T, m + 1 <= 10 PROVE x[m + 1] \in S
      OBVIOUS
    <3>1. m \in 0..9 /\ x[m] \in S
      OBVIOUS
    <3> QED
      BY <1>1, <1>11, <3>1
  <2> HIDE DEF T
  <2>3. \A m \in Nat : m \in T
    BY <2>1, <2>2, SetInduction, Zenon
  <2> QED
    BY <2>3 DEF T
<1> QED
  BY <1>9, <1>11, <1>12

\* A version: its tables and round constants.
IsVersion(v) == Tables(v.T) /\ \A r \in 0..9 : v.RC[r] \in ByteWord

\* Each of the eight tables a version writes down.
LEMMA VersionIs ==
  ASSUME NEW S, Box(S), NEW c, NEW v,
         v.T = <<Table(S, c, 0), Table(S, c, 1), Table(S, c, 2), Table(S, c, 3),
                 Table(S, c, 4), Table(S, c, 5), Table(S, c, 6), Table(S, c, 7)>>,
         v.RC = RoundConstants(S)
  PROVE  IsVersion(v) /\ \A k \in 0..7 : v.T[k + 1] = Table(S, c, k)
<1>1. \A k \in 0..7 : v.T[k + 1] = Table(S, c, k)
  OBVIOUS
<1>2. Tables(v.T)
  <2> SUFFICES ASSUME NEW k \in 0..7, NEW x \in Byte PROVE v.T[k + 1][x] \in ByteWord
    BY DEF Tables
  <2>1. Table(S, c, k)[x] \in ByteWord
    BY TableIs
  <2> QED
    BY <1>1, <2>1
<1>3. \A r \in 0..9 : v.RC[r] \in ByteWord
  BY ConstantsAre
<1> QED
  BY <1>1, <1>2, <1>3 DEF IsVersion

\* The three versions, and the GPU's copy of the present one.
LEMMA Versions3 ==
  /\ IsVersion(Sph!plain) /\ IsVersion(Sph!old0) /\ IsVersion(Sph!old1)
  /\ Sph!plain.T = plain_T /\ Sph!plain.RC = plain_RC
  /\ \A k \in 0..7 : Sph!plain.T[k + 1] = Table(plain_S, Sph!plain_row, k)
  /\ \A k \in 0..7 : Sph!old0.T[k + 1] = Table(old0_S, Sph!old0_row, k)
  /\ \A k \in 0..7 : Sph!old1.T[k + 1] = Table(plain_S, Sph!old1_row, k)
  /\ Sph!plain.RC = RoundConstants(plain_S) /\ Sph!old0.RC = RoundConstants(old0_S)
  /\ Sph!old1.RC = RoundConstants(plain_S)
<1> DEFINE Eights(S, c) ==
             <<Table(S, c, 0), Table(S, c, 1), Table(S, c, 2), Table(S, c, 3),
               Table(S, c, 4), Table(S, c, 5), Table(S, c, 6), Table(S, c, 7)>>
<1>1. Box(plain_S) /\ Box(old0_S)
  BY BoxesHoldBytes DEF Box
<1>2. /\ Sph!plain.T = Eights(plain_S, Sph!plain_row)
      /\ Sph!plain.RC = RoundConstants(plain_S)
  BY SphSame, SphTables
     DEF Sph!plain, Sph!plain_T0, Sph!plain_T1, Sph!plain_T2, Sph!plain_T3, Sph!plain_T4,
         Sph!plain_T5, Sph!plain_T6, Sph!plain_T7, Sph!plain_RC
<1>3. /\ Sph!old0.T = Eights(old0_S, Sph!old0_row)
      /\ Sph!old0.RC = RoundConstants(old0_S)
  BY SphSame, SphTables
     DEF Sph!old0, Sph!old0_T0, Sph!old0_T1, Sph!old0_T2, Sph!old0_T3, Sph!old0_T4,
         Sph!old0_T5, Sph!old0_T6, Sph!old0_T7, Sph!old0_RC
<1>4. /\ Sph!old1.T = Eights(plain_S, Sph!old1_row)
      /\ Sph!old1.RC = RoundConstants(plain_S)
  BY SphSame, SphTables
     DEF Sph!old1, Sph!old1_T0, Sph!old1_T1, Sph!old1_T2, Sph!old1_T3, Sph!old1_T4,
         Sph!old1_T5, Sph!old1_T6, Sph!old1_T7, Sph!old1_RC
<1>5. plain_T = Eights(plain_S, Sph!plain_row) /\ plain_RC = RoundConstants(plain_S)
  <2>1. row = Sph!plain_row
    BY DEF row, Sph!plain_row
  <2> QED
    BY <2>1 DEF plain_T, plain_T0, plain_T1, plain_T2, plain_T3, plain_T4, plain_T5, plain_T6,
                plain_T7, plain_RC
<1>6. PICK a : a = Sph!plain
  OBVIOUS
<1>7. PICK b : b = Sph!old0
  OBVIOUS
<1>8. PICK d : d = Sph!old1
  OBVIOUS
<1>9. IsVersion(a) /\ \A k \in 0..7 : a.T[k + 1] = Table(plain_S, Sph!plain_row, k)
  BY <1>1, <1>2, <1>6, VersionIs
<1>10. IsVersion(b) /\ \A k \in 0..7 : b.T[k + 1] = Table(old0_S, Sph!old0_row, k)
  BY <1>1, <1>3, <1>7, VersionIs
<1>11. IsVersion(d) /\ \A k \in 0..7 : d.T[k + 1] = Table(plain_S, Sph!old1_row, k)
  BY <1>1, <1>4, <1>8, VersionIs
<1> QED
  BY <1>2, <1>3, <1>4, <1>5, <1>6, <1>7, <1>8, <1>9, <1>10, <1>11

\* Round key and block, and the ten rounds of both.
Pairs == [h : Matrices, n : Matrices]
KeyOf(v, h, r) == RoundOf(v.T, h, [ZeroWords EXCEPT ![1] = v.RC[r]])
Step(v) ==
  [r \in 0..9 |-> [at \in Pairs |->
     [h |-> KeyOf(v, at.h, r), n |-> RoundOf(v.T, at.n, KeyOf(v, at.h, r))]]]
Run(v, m, state) == Rounds(Step(v), [h |-> state, n |-> XorWords(m, state)])

\* The state after a block m.
Compress(v, m, state) == XorWords(state, XorWords(Run(v, m, state)[10].n, m))

\* The rounds make blocks of blocks.
LEMMA RunIs ==
  ASSUME NEW v, IsVersion(v), NEW m \in Matrices, NEW state \in Matrices
  PROVE  /\ \A r \in 0..10 : Run(v, m, state)[r] \in Pairs
         /\ Run(v, m, state)[0] = [h |-> state, n |-> XorWords(m, state)]
         /\ \A r \in 0..9 : Run(v, m, state)[r + 1] = Step(v)[r][Run(v, m, state)[r]]
<1>1. ASSUME NEW r \in 0..9, NEW at \in Pairs
      PROVE  /\ KeyOf(v, at.h, r) \in Matrices
             /\ RoundOf(v.T, at.n, KeyOf(v, at.h, r)) \in Matrices
  <2>1. [ZeroWords EXCEPT ![1] = v.RC[r]] \in Matrices
    BY FirstIs DEF IsVersion
  <2>2. at.h \in Matrices /\ at.n \in Matrices
    BY DEF Pairs
  <2>3. Tables(v.T)
    BY DEF IsVersion
  <2>4. KeyOf(v, at.h, r) \in Matrices
    BY <2>1, <2>2, <2>3, RoundOfIs DEF KeyOf
  <2> QED
    BY <2>2, <2>3, <2>4, RoundOfIs
<1>2. Step(v) \in [0..9 -> [Pairs -> Pairs]]
  <2>1. \A r \in 0..9, at \in Pairs :
          [h |-> KeyOf(v, at.h, r), n |-> RoundOf(v.T, at.n, KeyOf(v, at.h, r))] \in Pairs
    BY <1>1 DEF Pairs
  <2> QED
    BY <2>1 DEF Step
<1>3. [h |-> state, n |-> XorWords(m, state)] \in Pairs
  BY XorWordsIs DEF Pairs
<1>4. PICK R \in [0..9 -> [Pairs -> Pairs]] : R = Step(v)
  BY <1>2
<1>5. PICK s \in Pairs : s = [h |-> state, n |-> XorWords(m, state)]
  BY <1>3
<1>6. Run(v, m, state) = Rounds(R, s)
  BY <1>4, <1>5 DEF Run
<1>7. /\ \A r \in 0..10 : Rounds(R, s)[r] \in Pairs
      /\ Rounds(R, s)[0] = s
      /\ \A r \in 0..9 : Rounds(R, s)[r + 1] = R[r][Rounds(R, s)[r]]
  BY RoundsAre
<1> QED
  BY <1>4, <1>5, <1>6, <1>7, Zenon

\* So does the whole.
LEMMA CompressIs ==
  ASSUME NEW v, IsVersion(v), NEW m \in Matrices, NEW state \in Matrices
  PROVE  Compress(v, m, state) \in Matrices
<1>1. Run(v, m, state)[10] \in Pairs
  <2>1. \A r \in 0..10 : Run(v, m, state)[r] \in Pairs
    BY RunIs
  <2>2. 10 \in 0..10
    OBVIOUS
  <2> QED
    BY <2>1, <2>2, Zenon
<1>2. Run(v, m, state)[10].n \in Matrices
  BY <1>1 DEF Pairs
<1> QED
  BY <1>2, XorWordsIs DEF Compress

\* ROUND_FUN is that.
LEMMA RoundFunIs ==
  ASSUME NEW v, NEW src, NEW state
  PROVE  Sph!ROUND_FUN(v, src, state) = Compress(v, Sph!READ_DATA(src), state)
<1>1. \A c : [Sph!ZeroWords EXCEPT ![1] = c] = [ZeroWords EXCEPT ![1] = c]
  BY SphSame
<1>2. \A h, r : Sph!ROUND_KSCHED(v.T, h, v.RC[r]) = KeyOf(v, h, r)
  BY <1>1, SphRound DEF Sph!ROUND_KSCHED, KeyOf
<1>3. \A n, key : Sph!ROUND_WENC(v.T, n, key) = RoundOf(v.T, n, key)
  BY SphRound DEF Sph!ROUND_WENC
<1>4. [r \in 0..9 |-> [at \in [h : Sph!Matrices, n : Sph!Matrices] |->
         [h |-> Sph!ROUND_KSCHED(v.T, at.h, v.RC[r]),
          n |-> Sph!ROUND_WENC(v.T, at.n, Sph!ROUND_KSCHED(v.T, at.h, v.RC[r]))]]]
        = Step(v)
  BY <1>2, <1>3, SphSame DEF Step, Pairs
<1>5. \A a, b : Sph!XorWords(a, b) = XorWords(a, b) /\ Sph!Rounds(a, b) = Rounds(a, b)
  BY SphSums
<1> QED
  BY <1>4, <1>5 DEF Sph!ROUND_FUN, Compress, Run

\* So is whirlpool_compress_cuda, which has the present version's tables.
LEMMA CudaCompress ==
  ASSUME NEW block, NEW state
  PROVE  whirlpool_compress_cuda(block, state) = Compress(Sph!plain, Words(block), state)
<1>1. \A h, r : NextKey(h, r) = KeyOf(Sph!plain, h, r)
  BY CudaRound, Versions3 DEF NextKey, KeyOf
<1>2. \A n, key : WROUND(n, key) = RoundOf(Sph!plain.T, n, key)
  BY CudaRound, Versions3
<1>3. [r \in 0..9 |-> [at \in [h : Matrices, n : Matrices] |->
         [h |-> NextKey(at.h, r), n |-> WROUND(at.n, NextKey(at.h, r))]]]
        = Step(Sph!plain)
  BY <1>1, <1>2 DEF Step, Pairs
<1> QED
  BY <1>3 DEF whirlpool_compress_cuda, Compress, Run

\* Words of a block of bytes, read by either side.
LEMMA WordsAre ==
  ASSUME NEW src, \A i \in 1..64 : src[i] \in Byte
  PROVE  /\ Words(src) \in Matrices /\ Sph!READ_DATA(src) = Words(src)
         /\ \A j \in 0..7, i \in 0..7 : Words(src)[j + 1][i + 1] = src[8 * j + i + 1]
<1>1. ASSUME NEW j \in 0..7
      PROVE  /\ <<src[8 * j + 0 + 1], src[8 * j + 1 + 1], src[8 * j + 2 + 1], src[8 * j + 3 + 1],
                  src[8 * j + 4 + 1], src[8 * j + 5 + 1], src[8 * j + 6 + 1],
                  src[8 * j + 7 + 1]>> \in ByteWord
             /\ \A i \in 0..7 :
                  <<src[8 * j + 0 + 1], src[8 * j + 1 + 1], src[8 * j + 2 + 1],
                    src[8 * j + 3 + 1], src[8 * j + 4 + 1], src[8 * j + 5 + 1],
                    src[8 * j + 6 + 1], src[8 * j + 7 + 1]>>[i + 1] = src[8 * j + i + 1]
  <2> DEFINE f == [i \in 0..7 |-> src[8 * j + i + 1]]
  <2>1. \A i \in 0..7 : 8 * j + i + 1 \in 1..64
    OBVIOUS
  <2>2. f \in [0..7 -> Byte] /\ \A i \in 0..7 : f[i] = src[8 * j + i + 1]
    BY <2>1
  <2>3. <<src[8 * j + 0 + 1], src[8 * j + 1 + 1], src[8 * j + 2 + 1], src[8 * j + 3 + 1],
          src[8 * j + 4 + 1], src[8 * j + 5 + 1], src[8 * j + 6 + 1], src[8 * j + 7 + 1]>>
          = <<f[0], f[1], f[2], f[3], f[4], f[5], f[6], f[7]>>
    OBVIOUS
  <2> HIDE DEF f
  <2> QED
    BY <2>2, <2>3, EightIs DEF ByteWord
<1> DEFINE G == [j \in 0..7 |->
  <<src[8 * j + 0 + 1], src[8 * j + 1 + 1], src[8 * j + 2 + 1], src[8 * j + 3 + 1],
    src[8 * j + 4 + 1], src[8 * j + 5 + 1], src[8 * j + 6 + 1], src[8 * j + 7 + 1]>>]
<1>2. /\ G \in [0..7 -> ByteWord]
      /\ \A j \in 0..7, i \in 0..7 : G[j][i + 1] = src[8 * j + i + 1]
  BY <1>1
<1>3. Words(src) = <<G[0], G[1], G[2], G[3], G[4], G[5], G[6], G[7]>>
  BY DEF Words, Eight
<1>4. Sph!READ_DATA(src) = Words(src)
  BY DEF Words, Sph!READ_DATA, Eight, Sph!Eight
<1> HIDE DEF G
<1>5. Words(src) \in [1..8 -> ByteWord] /\ \A j \in 0..7 : Words(src)[j + 1] = G[j]
  BY <1>2, <1>3, EightIs
<1> QED
  BY <1>2, <1>4, <1>5 DEF Matrices, ByteWord

-----------------------------------------------------------------------------
(* The prepared path of the GPU.                                           *)

\* The round keys of the second block depend on the midstate only.
LEMMA KeysAre ==
  ASSUME NEW mid \in Matrices, NEW m \in Matrices, NEW r \in 1..10
  PROVE  whirlpool_round_keys_cuda(mid)[r] = Run(Sph!plain, m, mid)[r].h
<1> DEFINE K == [i \in 0..9 |-> [h \in Matrices |-> NextKey(h, i)]]
<1>1. IsVersion(Sph!plain)
  BY Versions3
<1>2. PICK x : x = Run(Sph!plain, m, mid)
  OBVIOUS
<1>3. /\ \A i \in 0..10 : x[i] \in Pairs
      /\ x[0] = [h |-> mid, n |-> XorWords(m, mid)]
      /\ \A i \in 0..9 : x[i + 1] = Step(Sph!plain)[i][x[i]]
  BY <1>1, <1>2, RunIs
<1>4. \A h, i : NextKey(h, i) = KeyOf(Sph!plain, h, i)
  BY CudaRound, Versions3 DEF NextKey, KeyOf
<1>5. ASSUME NEW i \in 0..9 PROVE x[i + 1].h = NextKey(x[i].h, i)
  <2>1. x[i] \in Pairs
    BY <1>3
  <2>2. x[i + 1] = [h |-> KeyOf(Sph!plain, x[i].h, i),
                    n |-> RoundOf(Sph!plain.T, x[i].n, KeyOf(Sph!plain, x[i].h, i))]
    BY <1>3, <2>1 DEF Step
  <2> QED
    BY <1>4, <2>2
<1>6. K \in [0..9 -> [Matrices -> Matrices]]
  <2> SUFFICES ASSUME NEW i \in 0..9, NEW h \in Matrices PROVE NextKey(h, i) \in Matrices
    OBVIOUS
  <2>1. [ZeroWords EXCEPT ![1] = Sph!plain.RC[i]] \in Matrices
    BY <1>1, FirstIs DEF IsVersion
  <2>2. Tables(Sph!plain.T)
    BY <1>1 DEF IsVersion
  <2> QED
    BY <1>4, <2>1, <2>2, RoundOfIs DEF KeyOf
<1>7. PICK y : y = Rounds(K, mid)
  OBVIOUS
<1>8. \A i \in 0..9, h \in Matrices : K[i][h] = NextKey(h, i)
  OBVIOUS
<1>9. whirlpool_round_keys_cuda(mid)[r] = y[r]
  BY <1>7 DEF whirlpool_round_keys_cuda
<1> HIDE DEF K
<1>10. PICK k \in [0..9 -> [Matrices -> Matrices]] : k = K
  BY <1>6
<1>11. /\ \A i \in 0..10 : Rounds(k, mid)[i] \in Matrices
       /\ Rounds(k, mid)[0] = mid
       /\ \A i \in 0..9 : Rounds(k, mid)[i + 1] = k[i][Rounds(k, mid)[i]]
  BY RoundsAre
<1>12. \A i \in 0..10 : y[i] \in Matrices
  BY <1>7, <1>10, <1>11
<1>13. y[0] = mid
  BY <1>7, <1>10, <1>11
<1>14. ASSUME NEW i \in 0..9 PROVE y[i + 1] = NextKey(y[i], i)
  <2>1. y[i] \in Matrices
    BY <1>12
  <2>2. y[i + 1] = k[i][y[i]]
    BY <1>7, <1>10, <1>11
  <2> QED
    BY <1>8, <1>10, <2>1, <2>2
<1> DEFINE T == {i \in Nat : i <= 10 => y[i] = x[i].h}
<1>15. 0 \in T
  BY <1>3, <1>13
<1>16. \A i \in Nat : i \in T => i + 1 \in T
  <2> SUFFICES ASSUME NEW i \in Nat, i \in T, i + 1 <= 10 PROVE y[i + 1] = x[i + 1].h
    OBVIOUS
  <2>1. i \in 0..9 /\ y[i] = x[i].h
    OBVIOUS
  <2> QED
    BY <1>5, <1>14, <2>1
<1> HIDE DEF T
<1>17. \A i \in Nat : i \in T
  BY <1>15, <1>16, SetInduction, Zenon
<1>18. y[r] = x[r].h
  BY <1>17 DEF T
<1> QED
  BY <1>2, <1>9, <1>18

\* The second block as the lane puts it together.
Block1(num) ==
  [ZeroWords EXCEPT ![1] = c_block1_w0,
                    ![2] = c_block1_nbits \o LowFirst(num),
                    ![3] = <<128, 0, 0, 0, 0, 0, 0, 0>>,
                    ![8] = <<0, 0, 0, 0, 0, 0, 2, 128>>]

\* A state folded to four words.
FoldedWords(f) == [j \in 1..4 |-> XorWord(f[j], f[j + 4])]

\* With the keys of the midstate and all tables in place, the lane's rounds are
\* those of the whole computation.
LEMMA PreparedIs ==
  ASSUME copied = Lanes, c_midstate \in Matrices,
         c_rk = whirlpool_round_keys_cuda(c_midstate), NEW num, Block1(num) \in Matrices
  PROVE  BLOCK1_FOLD(num) = FoldedWords(Compress(Sph!plain, Block1(num), c_midstate))
<1> DEFINE R == [i \in 0..9 |-> [n \in Matrices |-> WROUND_S(n, c_rk[i + 1])]]
<1>1. IsVersion(Sph!plain)
  BY Versions3
<1>2. PICK m \in Matrices : m = Block1(num)
  OBVIOUS
<1>3. PICK mid \in Matrices : mid = c_midstate
  OBVIOUS
<1>4. PICK x : x = Run(Sph!plain, m, mid)
  OBVIOUS
<1>5. /\ \A i \in 0..10 : x[i] \in Pairs
      /\ x[0] = [h |-> mid, n |-> XorWords(m, mid)]
      /\ \A i \in 0..9 : x[i + 1] = Step(Sph!plain)[i][x[i]]
  BY <1>1, <1>4, RunIs
<1>6. ASSUME NEW i \in 0..9 PROVE c_rk[i + 1] = x[i + 1].h /\ x[i + 1].h \in Matrices
  <2>1. i + 1 \in 1..10 /\ i + 1 \in 0..10
    OBVIOUS
  <2>2. PICK r \in 1..10 : r = i + 1
    BY <2>1
  <2>3. c_rk[r] = Run(Sph!plain, m, mid)[r].h
    BY <1>3, KeysAre
  <2>4. x[i + 1] \in Pairs
    BY <1>5, <2>1
  <2> QED
    BY <1>4, <2>2, <2>3, <2>4 DEF Pairs
<1>7. ASSUME NEW i \in 0..9, NEW n \in Matrices
      PROVE  /\ WROUND_S(n, c_rk[i + 1]) = RoundOf(plain_T, n, x[i + 1].h)
             /\ RoundOf(plain_T, n, x[i + 1].h) \in Matrices
  <2>1. Tables(plain_T)
    BY <1>1, Versions3 DEF IsVersion
  <2> QED
    BY <1>6, <2>1, SharedRound, RoundOfIs
<1>8. ASSUME NEW i \in 0..9 PROVE x[i + 1].n = RoundOf(plain_T, x[i].n, x[i + 1].h)
  <2>1. x[i] \in Pairs
    BY <1>5
  <2>2. x[i + 1] = [h |-> KeyOf(Sph!plain, x[i].h, i),
                    n |-> RoundOf(Sph!plain.T, x[i].n, KeyOf(Sph!plain, x[i].h, i))]
    BY <1>5, <2>1 DEF Step
  <2> QED
    BY <2>2, Versions3
<1>9. R \in [0..9 -> [Matrices -> Matrices]]
  BY <1>7
<1>10. \A i \in 0..9, n \in Matrices : R[i][n] = RoundOf(plain_T, n, x[i + 1].h)
  BY <1>7
<1>11. BLOCK1_FOLD(num)
         = FoldedWords(XorWords(mid, XorWords(Rounds(R, XorWords(m, mid))[10], m)))
  BY <1>2, <1>3 DEF BLOCK1_FOLD, Block1, FoldedWords
<1> HIDE DEF R
<1>12. PICK k \in [0..9 -> [Matrices -> Matrices]] : k = R
  BY <1>9
<1>13. PICK s \in Matrices : s = XorWords(m, mid)
  BY XorWordsIs
<1>14. /\ \A i \in 0..10 : Rounds(k, s)[i] \in Matrices
       /\ Rounds(k, s)[0] = s
       /\ \A i \in 0..9 : Rounds(k, s)[i + 1] = k[i][Rounds(k, s)[i]]
  BY RoundsAre
<1>15. PICK y : y = Rounds(k, s)
  OBVIOUS
<1>16. /\ y[0] = s
       /\ \A i \in 0..9 : y[i + 1] = RoundOf(plain_T, y[i], x[i + 1].h)
  <2>1. ASSUME NEW i \in 0..9 PROVE y[i + 1] = RoundOf(plain_T, y[i], x[i + 1].h)
    <3>1. i \in 0..10 /\ y[i] \in Matrices
      BY <1>14, <1>15
    <3>2. y[i + 1] = k[i][y[i]]
      BY <1>14, <1>15
    <3> QED
      BY <1>10, <1>12, <3>1, <3>2
  <2> QED
    BY <1>14, <1>15, <2>1
<1> DEFINE T == {i \in Nat : i <= 10 => y[i] = x[i].n}
<1>17. 0 \in T
  BY <1>5, <1>13, <1>16
<1>18. \A i \in Nat : i \in T => i + 1 \in T
  <2> SUFFICES ASSUME NEW i \in Nat, i \in T, i + 1 <= 10 PROVE y[i + 1] = x[i + 1].n
    OBVIOUS
  <2>1. i \in 0..9 /\ y[i] = x[i].n
    OBVIOUS
  <2> QED
    BY <1>8, <1>16, <2>1
<1> HIDE DEF T
<1>19. \A i \in Nat : i \in T
  BY <1>17, <1>18, SetInduction, Zenon
<1>20. y[10] = x[10].n
  BY <1>19 DEF T
<1>21. Compress(Sph!plain, m, mid) = XorWords(mid, XorWords(x[10].n, m))
  BY <1>4 DEF Compress
<1> QED
  BY <1>2, <1>3, <1>11, <1>12, <1>13, <1>15, <1>20, <1>21

\* f takes the values of a fold over the indices one after the other.
Goes(f, a, h, n) == f[0] = a /\ \A i \in 0..n - 1 : f[i + 1] = h[<<i + 1, f[i]>>]

\* x is made of s by one step of a fold, where its value before is known.
OneStepOn(x, h, V, s) ==
  s # {} /\ x[s \ {Max(s)}] \in V => x[s] = h[<<Max(s), x[s \ {Max(s)}]>>]

\* x is made of the subsets like a fold, where its values are known.
FoldsLike(x, a, h, n, V) ==
  x[{}] = a /\ \A s \in SUBSET (1..n) : OneStepOn(x, h, V, s)

\* G is made of the subsets by folding.
FoldsBy(G, a, h, n) ==
  G = [s \in SUBSET (1..n) |-> IF s = {} THEN a ELSE h[<<Max(s), G[s \ {Max(s)}]>>]]

\* Whatever is made of the subsets like a fold, where its values are known, goes
\* through the indices in their order.
LEMMA FoldGoes ==
  ASSUME NEW n \in Nat, NEW V, NEW a \in V, NEW h, Closed(h, 1..n, V), NEW x,
         FoldsLike(x, a, h, n, V)
  PROVE  \E f \in [0..n -> V] : Goes(f, a, h, n) /\ x[1..n] = f[n]
<1>1. PICK G \in [SUBSET (1..n) -> V], f \in [0..n -> V] : FoldsInOrder(G, f, a, h, n)
  BY FoldInOrder
<1>2. G = [s \in SUBSET (1..n) |-> IF s = {} THEN a ELSE h[<<Max(s), G[s \ {Max(s)}]>>]]
  BY <1>1 DEF FoldsInOrder
<1>3. x[{}] = G[{}]
  BY <1>2 DEF FoldsLike, OneStepOn
<1>4. \A s \in SUBSET (1..n) :
        s # {} => (x[s \ {Max(s)}] = G[s \ {Max(s)}] => x[s] = G[s])
  <2> SUFFICES ASSUME NEW s \in SUBSET (1..n), s # {}, x[s \ {Max(s)}] = G[s \ {Max(s)}]
               PROVE  x[s] = G[s]
    OBVIOUS
  <2>1. G[s \ {Max(s)}] \in V
    OBVIOUS
  <2> QED
    BY <1>2, <2>1 DEF FoldsLike, OneStepOn
<1>5. x[1..n] = G[1..n]
  BY <1>3, <1>4, FoldIsOne
<1> QED
  BY <1>1, <1>5 DEF FoldsInOrder, Goes

\* And there is something that is made like it.
LEMMA FoldMade ==
  ASSUME NEW n \in Nat, NEW V, NEW a \in V, NEW h, Closed(h, 1..n, V)
  PROVE  \E G \in [SUBSET (1..n) -> V] : FoldsBy(G, a, h, n)
<1>1. PICK G \in [SUBSET (1..n) -> V], f \in [0..n -> V] : FoldsInOrder(G, f, a, h, n)
  BY FoldInOrder
<1> QED
  BY <1>1 DEF FoldsInOrder, FoldsBy

-----------------------------------------------------------------------------
(* The blocks of a message.                                                *)

\* A turn of the loop of short.
SphTurn(at) ==
  IF at.left = <<>> THEN at
  ELSE [sc |-> Sph!Md!ShortTurn(at.sc, at.left),
        left |-> SubSeq(at.left, 1 + 64 - Sph!Md!current(at.sc), Len(at.left))]

\* A loop of one turn or two.
LEMMA SphShort ==
  ASSUME NEW sc, NEW data, NEW n \in Nat, n = 1 \/ n = 2, n = (Sph!Md!current(sc) + Len(data)) \div 64 + 1,
         NEW at1, at1 = SphTurn([sc |-> sc, left |-> data]),
         NEW at2, at2 = SphTurn(at1), at2.left = <<>>
  PROVE  Sph!Md!short(sc, data) = IF n = 1 THEN at1.sc ELSE at2.sc
<1> DEFINE a == [sc |-> sc, left |-> data]
           V == {a, at1, at2}
           h == [p \in (1..n) \X V |-> SphTurn(p[2])]
           seq == [i \in 1..((Sph!Md!current(sc) + Len(data)) \div 64 + 1) |-> i]
           OneTurn(v, i) ==
             IF v.left = <<>> THEN v
             ELSE [sc |-> Sph!Md!ShortTurn(v.sc, v.left),
                   left |-> SubSeq(v.left, 1 + 64 - Sph!Md!current(v.sc), Len(v.left))]
           Is(x) == x = [s \in SUBSET DOMAIN seq |->
                           IF s = {} THEN a
                           ELSE OneTurn(x[s \ {Sph!Md!Max(s)}], seq[Sph!Md!Max(s)])]
           x == CHOOSE y : Is(y)
<1>1. Sph!Md!short(sc, data) = x[DOMAIN seq].sc
  BY Zenon DEF Sph!Md!short, Sph!Md!FoldLeft, Sph!Md!MapThenFoldSet
<1>2. DOMAIN seq = 1..n /\ \A i \in 1..n : seq[i] = i
  OBVIOUS
<1>3. \A s : Sph!Md!Max(s) = Max(s)
  BY Zenon DEF Max, Sph!Md!Max
<1>4. \A v, i : OneTurn(v, i) = SphTurn(v)
  BY Zenon DEF SphTurn
<1>5. SphTurn(a) = at1 /\ SphTurn(at1) = at2 /\ SphTurn(at2) = at2
  BY DEF SphTurn
<1> HIDE DEF OneTurn, seq
<1>6. \A i \in 1..n : \A v \in V : h[<<i, v>>] = SphTurn(v) /\ SphTurn(v) \in V
  <2> SUFFICES ASSUME NEW i \in 1..n, NEW v \in V
               PROVE  h[<<i, v>>] = SphTurn(v) /\ SphTurn(v) \in V
    OBVIOUS
  <2>1. <<i, v>> \in (1..n) \X V /\ <<i, v>>[2] = v
    OBVIOUS
  <2>2. SphTurn(v) \in V
    <3> HIDE DEF a
    <3> QED
      BY <1>5
  <2> HIDE DEF V
  <2> QED
    BY <2>1, <2>2, Zenon
<1>7. a \in V
  OBVIOUS
<1> HIDE DEF h, V, a
<1>8. Closed(h, 1..n, V)
  BY <1>6 DEF Closed
<1>9. PICK G \in [SUBSET (1..n) -> V] : FoldsBy(G, a, h, n)
  BY <1>7, <1>8, FoldMade
<1>10. Is(G)
  <2>1. ASSUME NEW s \in SUBSET (1..n)
        PROVE  (IF s = {} THEN a ELSE h[<<Max(s), G[s \ {Max(s)}]>>])
                 = (IF s = {} THEN a ELSE OneTurn(G[s \ {Sph!Md!Max(s)}], seq[Sph!Md!Max(s)]))
    <3>1. CASE s = {}
      BY <3>1
    <3>2. CASE s # {}
      <4>1. Max(s) \in 1..n /\ s \ {Max(s)} \in SUBSET (1..n)
        BY <3>2, MaxOf
      <4>2. h[<<Max(s), G[s \ {Max(s)}]>>] = SphTurn(G[s \ {Max(s)}])
        BY <1>6, <4>1
      <4> QED
        BY <1>3, <1>4, <3>2, <4>2
    <3> QED
      BY <3>1, <3>2
  <2> QED
    BY <1>2, <1>9, <2>1 DEF FoldsBy
<1> HIDE DEF Is
<1>11. Is(x)
  BY <1>10, Zenon
<1> HIDE DEF x
<1>12. x = [s \in SUBSET (1..n) |-> IF s = {} THEN a
                                    ELSE OneTurn(x[s \ {Sph!Md!Max(s)}], seq[Sph!Md!Max(s)])]
  BY <1>2, <1>11 DEF Is
<1>13. FoldsLike(x, a, h, n, V)
  <2>1. x[{}] = a
    BY <1>12
  <2>2. ASSUME NEW s \in SUBSET (1..n), s # {}, x[s \ {Max(s)}] \in V
        PROVE  x[s] = h[<<Max(s), x[s \ {Max(s)}]>>]
    <3>1. Max(s) \in 1..n
      BY <2>2, MaxOf
    <3>2. h[<<Max(s), x[s \ {Max(s)}]>>] = SphTurn(x[s \ {Max(s)}])
      BY <1>6, <2>2, <3>1
    <3>3. x[s] = OneTurn(x[s \ {Sph!Md!Max(s)}], seq[Sph!Md!Max(s)])
      BY <1>12, <2>2
    <3> QED
      BY <1>3, <1>4, <3>2, <3>3
  <2> QED
    BY <2>1, <2>2 DEF FoldsLike, OneStepOn
<1>15. PICK f \in [0..n -> V] : Goes(f, a, h, n) /\ x[1..n] = f[n]
  BY <1>7, <1>8, <1>13, FoldGoes
<1>16. f[0] = a /\ \A i \in 0..n - 1 : f[i + 1] = SphTurn(f[i])
  <2>1. ASSUME NEW i \in 0..n - 1 PROVE f[i + 1] = SphTurn(f[i])
    <3>1. i \in 0..n /\ i + 1 \in 1..n
      OBVIOUS
    <3>1a. f[i] \in V
      BY <3>1
    <3>2. f[i + 1] = h[<<i + 1, f[i]>>]
      BY <1>15 DEF Goes
    <3> QED
      BY <1>6, <3>1, <3>1a, <3>2
  <2> QED
    BY <1>15, <2>1 DEF Goes
<1>17. f[1] = at1
  <2>1. 0 \in 0..n - 1 /\ 0 + 1 = 1
    OBVIOUS
  <2> QED
    BY <1>5, <1>16, <2>1
<1>18. n = 2 => f[2] = at2
  <2>1. n = 2 => 1 \in 0..n - 1 /\ 1 + 1 = 2
    OBVIOUS
  <2> QED
    BY <1>5, <1>16, <1>17, <2>1
<1> QED
  BY <1>1, <1>2, <1>15, <1>17, <1>18

\* The byte counter counts far enough for the lengths to come.
LEMMA SpanIs == Sph!CountBound \in Nat /\ Sph!CountBound > 1024
  BY SMT DEF Sph!CountBound

\* Strings of bytes, and blocks.
Bytes(n) == [1..n -> Byte]
Block64 == Bytes(64)

\* e is the part of d behind the o-th byte.
Cut(e, d, o, l) == e \in Bytes(l) /\ Holds(d, o, e, l)

\* What SubSeq cuts out.
LEMMA CutIs ==
  ASSUME NEW n \in Nat, NEW d \in Bytes(n), NEW o \in Nat, NEW l \in Nat, o + l <= n
  PROVE  Cut(SubSeq(d, o + 1, o + l), d, o, l)
<1>1. d \in Seq(Byte) /\ Len(d) = n
  BY IsSeq DEF Bytes
<1>2. o + l <= Len(d)
  BY <1>1
<1>3. /\ SubSeq(d, o + 1, o + l) \in [1..l -> Byte]
      /\ Holds(d, o, SubSeq(d, o + 1, o + l), l)
  BY <1>1, <1>2, SubSeqHolds
<1> QED
  BY <1>3 DEF Cut, Bytes

\* Strings of the same bytes are the same.
LEMMA SameBytes ==
  ASSUME NEW n \in Nat, NEW d \in Bytes(n), NEW e \in Bytes(n), \A i \in 1..n : d[i] = e[i]
  PROVE  d = e
  BY DEF Bytes

\* The length of a string.
LEMMA BytesAre == ASSUME NEW n \in Nat, NEW d \in Bytes(n)
                  PROVE  d \in Seq(Byte) /\ Len(d) = n /\ (n # 0 => d # <<>>)
<1>1. d \in Seq(Byte) /\ Len(d) = n
  BY IsSeq DEF Bytes
<1> QED
  BY <1>1

\* Block b of the data, and the first q blocks.
Chunk(data, b) == [i \in 1..64 |-> data[64 * b + i]]
Chunks(data, q) == [b \in 1..q |-> Chunk(data, b - 1)]

\* A block cut out of the data.
LEMMA ChunkIs ==
  ASSUME NEW n \in Nat, NEW d \in Bytes(n), NEW b \in Nat, 64 * b + 64 <= n
  PROVE  Chunk(d, b) \in Block64 /\ SubSeq(d, 64 * b + 1, 64 * b + 64) = Chunk(d, b)
<1>1. PICK o \in Nat : o = 64 * b
  OBVIOUS
<1>2. PICK m \in Nat : m = 64
  OBVIOUS
<1>3. o + m <= n
  BY <1>1, <1>2
<1>4. PICK e : e = SubSeq(d, o + 1, o + m)
  OBVIOUS
<1>5. Cut(e, d, o, m)
  BY <1>3, <1>4, CutIs
<1>6. e \in Bytes(m) /\ \A i \in 1..m : e[i] = d[o + i]
  BY <1>5 DEF Cut, Holds
<1>7. e = Chunk(d, b)
  BY <1>1, <1>2, <1>6 DEF Chunk, Bytes
<1> QED
  BY <1>1, <1>2, <1>4, <1>6, <1>7 DEF Block64

\* A chain of q blocks.
IsChain(s, q) == s \in [1..q -> Block64] /\ s \in Seq(Block64) /\ Len(s) = q

\* The blocks of the data are one.
LEMMA ChunksAre ==
  ASSUME NEW n \in Nat, NEW d \in Bytes(n), NEW q \in Nat, 64 * q <= n
  PROVE  IsChain(Chunks(d, q), q)
<1>1. ASSUME NEW b \in 1..q PROVE Chunk(d, b - 1) \in Block64
  <2>1. PICK k \in Nat : k = b - 1
    OBVIOUS
  <2>2. 64 * k + 64 <= n
    BY <2>1
  <2>3. Chunk(d, k) \in Block64
    BY <2>2, ChunkIs
  <2> QED
    BY <2>1, <2>3
<1>2. Chunks(d, q) \in [1..q -> Block64]
  BY <1>1 DEF Chunks
<1>3. PICK S : S = Block64
  OBVIOUS
<1>4. PICK v \in [1..q -> S] : v = Chunks(d, q)
  BY <1>2, <1>3
<1>5. v \in Seq(S) /\ Len(v) = q
  BY IsSeq
<1> QED
  BY <1>2, <1>3, <1>4, <1>5 DEF IsChain

\* No blocks.
LEMMA NoChunks == \A d : Chunks(d, 0) = <<>>
  BY DEF Chunks

\* t is the chain s and one more block.
IsLonger(t, s, c, q) == IsChain(t, q + 1) /\ t[q + 1] = c /\ \A b \in 1..q : t[b] = s[b]

\* One more block at the end of a chain.
LEMMA ChainNext ==
  ASSUME NEW q \in Nat, NEW s, IsChain(s, q), NEW c \in Block64
  PROVE  IsLonger(Append(s, c), s, c, q)
<1>1. PICK S : S = Block64
  OBVIOUS
<1>2. s \in Seq(S) /\ Len(s) = q /\ c \in S
  BY <1>1 DEF IsChain
<1>3. Append(s, c) \in Seq(S) /\ Len(Append(s, c)) = q + 1
  BY <1>2
<1>4. Append(s, c)[q + 1] = c /\ \A b \in 1..q : Append(s, c)[b] = s[b]
  BY <1>2
<1>5. PICK v \in Seq(S) : v = Append(s, c)
  BY <1>3
<1>6. v \in [1..Len(v) -> S]
  BY IsFun
<1> QED
  BY <1>1, <1>3, <1>4, <1>5, <1>6 DEF IsChain, IsLonger

\* Chains of the same blocks are the same.
LEMMA SameChain ==
  ASSUME NEW q \in Nat, NEW s, IsChain(s, q), NEW t, IsChain(t, q), \A b \in 1..q : s[b] = t[b]
  PROVE  s = t
  BY DEF IsChain

\* One more block of the data.
LEMMA ChunksNext ==
  ASSUME NEW n \in Nat, NEW d \in Bytes(n), NEW q \in Nat, 64 * q + 64 <= n
  PROVE  Append(Chunks(d, q), Chunk(d, q)) = Chunks(d, q + 1)
<1>1. PICK p \in Nat : p = q + 1
  OBVIOUS
<1>2. 64 * q <= n /\ 64 * p <= n
  BY <1>1
<1>3. IsChain(Chunks(d, q), q) /\ IsChain(Chunks(d, p), p) /\ Chunk(d, q) \in Block64
  BY <1>2, ChunksAre, ChunkIs
<1>4. PICK s : s = Chunks(d, q)
  OBVIOUS
<1>5. PICK c \in Block64 : c = Chunk(d, q)
  BY <1>3
<1>6. IsLonger(Append(s, c), s, c, q)
  BY <1>3, <1>4, ChainNext
<1>7. PICK t : t = Append(s, c) /\ IsLonger(t, s, c, q)
  BY <1>6
<1>8. PICK w : w = Chunks(d, p)
  OBVIOUS
<1>9. ASSUME NEW b \in 1..p PROVE t[b] = w[b]
  <2>0. w[b] = Chunk(d, b - 1)
    BY <1>8 DEF Chunks
  <2>1. CASE b = p
    <3>1. b - 1 = q
      BY <1>1, <2>1
    <3> QED
      BY <1>1, <1>5, <1>7, <2>0, <2>1, <3>1 DEF IsLonger
  <2>2. CASE b # p
    <3>1. b \in 1..q
      BY <1>1, <2>2
    <3>2. t[b] = s[b]
      BY <1>7, <3>1 DEF IsLonger
    <3>3. s[b] = Chunk(d, b - 1)
      BY <1>4, <3>1 DEF Chunks
    <3> QED
      BY <2>0, <3>2, <3>3
  <2> QED
    BY <2>1, <2>2
<1>10. IsChain(t, p) /\ IsChain(w, p)
  BY <1>1, <1>3, <1>7, <1>8 DEF IsLonger
<1>11. t = w
  BY <1>9, <1>10, SameChain
<1> QED
  BY <1>1, <1>4, <1>5, <1>7, <1>8, <1>11

\* c is mem but for l bytes of d behind the at-th.
Placed(c, mem, at, d, l) ==
  /\ c \in Block64 /\ Holds(c, at, d, l)
  /\ \A i \in 1..64 : i <= at \/ i > at + l => c[i] = mem[i]

\* Memcpy, byte by byte.
LEMMA SphMemcpy ==
  ASSUME NEW mem \in Block64, NEW at \in Nat, NEW l \in Nat, NEW d \in Bytes(l), at + l <= 64
  PROVE  Placed(Sph!Md!Memcpy(mem, at, d), mem, at, d, l)
<1> DEFINE c == Sph!Md!Memcpy(mem, at, d)
<1>1. Len(d) = l
  BY BytesAre
<1>2. c = [i \in 1..64 |-> IF i - at \in 1..l THEN d[i - at] ELSE mem[i]]
  BY <1>1 DEF Sph!Md!Memcpy
<1>3. c \in Block64
  <2>1. ASSUME NEW i \in 1..64
        PROVE  (IF i - at \in 1..l THEN d[i - at] ELSE mem[i]) \in Byte
    <3>1. i - at \in 1..l => d[i - at] \in Byte
      BY DEF Bytes
    <3>2. mem[i] \in Byte
      BY DEF Block64, Bytes
    <3> QED
      BY <3>1, <3>2
  <2> QED
    BY <1>2, <2>1 DEF Block64, Bytes
<1>4. ASSUME NEW i \in 1..l PROVE c[at + i] = d[i]
  <2>1. at + i \in 1..64 /\ (at + i) - at = i
    OBVIOUS
  <2> QED
    BY <1>2, <2>1
<1>5. ASSUME NEW i \in 1..64, i <= at \/ i > at + l PROVE c[i] = mem[i]
  <2>1. i - at \notin 1..l
    BY <1>5
  <2> QED
    BY <1>2, <2>1
<1> QED
  BY <1>3, <1>4, <1>5 DEF Placed, Holds

\* A hash object.
IsObject(sc) == sc = [buf |-> sc.buf, val |-> sc.val, count |-> sc.count]

\* The hash object holds q blocks and r bytes of the data d.
HasTaken(sc, d, q, r) ==
  /\ sc.buf \in Block64 /\ Holds(d, 64 * q, sc.buf, r)
  /\ sc.val = Chunks(d, q) /\ sc.count = 64 * q + r /\ IsObject(sc)

\* At a block boundary nothing of the buffer counts.
LEMMA AtBoundary ==
  ASSUME NEW sc, NEW d, NEW q \in Nat, HasTaken(sc, d, q, 0)
  PROVE  Sph!Md!current(sc) = 0 /\ sc.count = 64 * q
<1>1. sc.count = 64 * q
  BY DEF HasTaken
<1>2. (64 * q) % 64 = 0
  OBVIOUS
<1> QED
  BY <1>1, <1>2 DEF Sph!Md!current

\* A count below the bound is not wrapped.
LEMMA CountIs == ASSUME NEW n \in Nat, n < Sph!CountBound PROVE n % Sph!CountBound = n
<1>1. PICK s \in Nat : s = Sph!CountBound
  BY SpanIs
<1>2. n < s
  BY <1>1
<1>3. n % s = n
  BY <1>2, Wrapping
<1> QED
  BY <1>1, <1>3

\* A turn with less than a block takes all of it.
LEMMA PartTurn ==
  ASSUME NEW n \in Nat, NEW d \in Bytes(n), NEW q \in Nat, NEW r \in Nat, n = 64 * q + r,
         r < 64, n < Sph!CountBound, NEW sc, HasTaken(sc, d, q, 0), NEW e, Cut(e, d, 64 * q, r)
  PROVE  /\ HasTaken(Sph!Md!ShortTurn(sc, e), d, q, r)
         /\ SubSeq(e, 1 + 64 - Sph!Md!current(sc), Len(e)) = <<>>
<1>1. Sph!Md!current(sc) = 0 /\ sc.count = 64 * q
  BY AtBoundary
<1>2. e \in Bytes(r) /\ Holds(d, 64 * q, e, r)
  BY DEF Cut
<1>3. e \in Seq(Byte) /\ Len(e) = r
  BY <1>2, BytesAre
<1>4. PICK o \in Nat : o = 0 /\ o + r <= r /\ o + r <= 64
  OBVIOUS
<1>5. PICK f : f = SubSeq(e, o + 1, o + r)
  OBVIOUS
<1>6. Cut(f, e, o, r)
  BY <1>2, <1>4, <1>5, CutIs
<1>7. f \in Bytes(r) /\ Holds(e, o, f, r)
  BY <1>6 DEF Cut
<1>8. f = SubSeq(e, 1, r)
  BY <1>4, <1>5
<1>9. sc.buf \in Block64
  BY DEF HasTaken
<1>10. PICK mem \in Block64 : mem = sc.buf
  BY <1>9
<1>11. PICK c : c = Sph!Md!Memcpy(mem, o, f)
  OBVIOUS
<1>12. Placed(c, mem, o, f, r)
  BY <1>4, <1>7, <1>11, SphMemcpy
<1>13. Sph!Md!ShortTurn(sc, e)
         = [buf |-> Sph!Md!Memcpy(sc.buf, 0, SubSeq(e, 1, r)), val |-> sc.val,
            count |-> (sc.count + r) % Sph!CountBound]
  <2>1. 64 - 0 > r /\ 0 + r # 64
    OBVIOUS
  <2> QED
    BY <1>1, <1>3, <2>1 DEF Sph!Md!ShortTurn
<1>14. (sc.count + r) % Sph!CountBound = n
  BY <1>1, CountIs
<1>15. PICK t : t = Sph!Md!ShortTurn(sc, e)
  OBVIOUS
<1>16. t = [buf |-> c, val |-> sc.val, count |-> n]
  BY <1>4, <1>8, <1>10, <1>11, <1>13, <1>14, <1>15
<1>17. t.buf = c /\ t.val = sc.val /\ t.count = n /\ IsObject(t)
  BY <1>16 DEF IsObject
<1>18. Holds(d, 64 * q, c, r)
  BY <1>2, <1>4, <1>7, <1>12 DEF Holds, Placed
<1>19. c \in Block64
  BY <1>12 DEF Placed
<1>20. sc.val = Chunks(d, q)
  BY DEF HasTaken
<1>21. HasTaken(t, d, q, r)
  BY <1>17, <1>18, <1>19, <1>20 DEF HasTaken
<1>22. SubSeq(e, 1 + 64 - Sph!Md!current(sc), Len(e)) = <<>>
  BY <1>1, <1>3
<1> QED
  BY <1>15, <1>21, <1>22

\* A turn with a block or more takes the block.
LEMMA FullTurn ==
  ASSUME NEW n \in Nat, NEW d \in Bytes(n), NEW q \in Nat, NEW l \in Nat, n = 64 * q + l,
         l >= 64, n < Sph!CountBound, NEW sc, HasTaken(sc, d, q, 0), NEW e, Cut(e, d, 64 * q, l)
  PROVE  /\ HasTaken(Sph!Md!ShortTurn(sc, e), d, q + 1, 0)
         /\ Cut(SubSeq(e, 1 + 64 - Sph!Md!current(sc), Len(e)), d, 64 * (q + 1), l - 64)
<1>1. Sph!Md!current(sc) = 0 /\ sc.count = 64 * q
  BY AtBoundary
<1>2. e \in Bytes(l) /\ Holds(d, 64 * q, e, l)
  BY DEF Cut
<1>3. e \in Seq(Byte) /\ Len(e) = l
  BY <1>2, BytesAre
<1>4. PICK o \in Nat : o = 0
  OBVIOUS
<1>5. PICK m \in Nat : m = 64
  OBVIOUS
<1>6. PICK k \in Nat : k = l - 64
  OBVIOUS
<1>7. o + m <= l /\ m + k <= l /\ o + m <= 64
  BY <1>4, <1>5, <1>6
<1>8. PICK f : f = SubSeq(e, o + 1, o + m)
  OBVIOUS
<1>9. Cut(f, e, o, m)
  BY <1>2, <1>7, <1>8, CutIs
<1>10. f \in Bytes(m) /\ Holds(e, o, f, m)
  BY <1>9 DEF Cut
<1>11. PICK mem \in Block64 : mem = sc.buf
  BY DEF HasTaken
<1>12. PICK c : c = Sph!Md!Memcpy(mem, o, f)
  OBVIOUS
<1>13. Placed(c, mem, o, f, m)
  BY <1>7, <1>10, <1>12, SphMemcpy
<1>14. PICK b \in Block64 : b = c
  BY <1>13 DEF Placed
<1>15. PICK ch : ch = Chunk(d, q)
  OBVIOUS
<1>16. ch \in Block64 /\ \A i \in 1..64 : ch[i] = d[64 * q + i]
  <2>1. 64 * q + 64 <= n
    OBVIOUS
  <2>2. Chunk(d, q) \in Block64
    BY <2>1, ChunkIs
  <2> QED
    BY <1>15, <2>2 DEF Chunk
<1>17. \A i \in 1..64 : b[i] = ch[i]
  <2> SUFFICES ASSUME NEW i \in 1..64 PROVE b[i] = ch[i]
    OBVIOUS
  <2>1. i \in 1..m /\ i \in 1..l /\ o + i = i
    BY <1>4, <1>5
  <2>2. b[i] = f[i]
    BY <1>13, <1>14, <2>1 DEF Placed, Holds
  <2>3. e[i] = f[i]
    BY <1>10, <2>1 DEF Holds
  <2>4. d[64 * q + i] = e[i]
    BY <1>2, <2>1 DEF Holds
  <2> QED
    BY <1>16, <2>2, <2>3, <2>4
<1>18. c = Chunk(d, q)
  BY <1>14, <1>15, <1>16, <1>17, SameBytes DEF Block64
<1>19. Sph!Md!ShortTurn(sc, e)
         = [buf   |-> Sph!Md!Memcpy(sc.buf, 0, SubSeq(e, 1, 64)),
            val   |-> Append(sc.val, Sph!Md!Memcpy(sc.buf, 0, SubSeq(e, 1, 64))),
            count |-> (sc.count + 64) % Sph!CountBound]
  <2>1. ~(64 - 0 > l) /\ 0 + (64 - 0) = 64
    OBVIOUS
  <2> QED
    BY <1>1, <1>3, <2>1 DEF Sph!Md!ShortTurn, Sph!Remember
<1>20. f = SubSeq(e, 1, 64)
  BY <1>4, <1>5, <1>8
<1>21. (sc.count + 64) % Sph!CountBound = 64 * q + 64
  <2>1. 64 * q + 64 \in Nat /\ 64 * q + 64 < Sph!CountBound
    BY SpanIs
  <2> QED
    BY <1>1, <2>1, CountIs
<1>22. PICK t : t = Sph!Md!ShortTurn(sc, e)
  OBVIOUS
<1>23. t = [buf |-> c, val |-> Append(sc.val, c), count |-> 64 * q + 64]
  BY <1>4, <1>11, <1>12, <1>19, <1>20, <1>21, <1>22
<1>24. t.buf = c /\ t.val = Append(sc.val, c) /\ t.count = 64 * q + 64 /\ IsObject(t)
  BY <1>23 DEF IsObject
<1>25. t.val = Chunks(d, q + 1)
  <2>1. sc.val = Chunks(d, q)
    BY DEF HasTaken
  <2>2. 64 * q + 64 <= n
    OBVIOUS
  <2> QED
    BY <1>18, <1>24, <2>1, <2>2, ChunksNext
<1>26. HasTaken(t, d, q + 1, 0)
  <2>1. 64 * q + 64 = 64 * (q + 1) + 0
    OBVIOUS
  <2>2. Holds(d, 64 * (q + 1), t.buf, 0)
    BY DEF Holds
  <2> QED
    BY <1>14, <1>24, <1>25, <2>1, <2>2 DEF HasTaken
<1>27. PICK G : G = SubSeq(e, m + 1, m + k)
  OBVIOUS
<1>28. Cut(G, e, m, k)
  BY <1>2, <1>7, <1>27, CutIs
<1>29. G = SubSeq(e, 1 + 64 - Sph!Md!current(sc), Len(e))
  BY <1>1, <1>3, <1>5, <1>6, <1>27
<1>30. Cut(G, d, 64 * (q + 1), l - 64)
  <2>1. ASSUME NEW i \in 1..k PROVE d[64 * (q + 1) + i] = G[i]
    <3>1. m + i \in 1..l /\ 64 * q + (m + i) = 64 * (q + 1) + i
      BY <1>5, <1>6
    <3>2. e[m + i] = G[i]
      BY <1>28 DEF Cut, Holds
    <3>3. d[64 * q + (m + i)] = e[m + i]
      BY <1>2, <3>1 DEF Holds
    <3> QED
      BY <3>1, <3>2, <3>3
  <2> QED
    BY <1>6, <1>28, <2>1 DEF Cut, Holds
<1> QED
  BY <1>22, <1>26, <1>29, <1>30

\* A fresh object has taken nothing.
LEMMA FreshIs == ASSUME NEW d PROVE HasTaken(Sph!Fresh, d, 0, 0)
<1>1. \A i \in 1..64 : 0 \in Byte
  BY DEF Byte
<1> QED
  BY <1>1, NoChunks DEF HasTaken, Sph!Fresh, Block64, Bytes, Holds, IsObject

\* Everything is a part of itself.
LEMMA CutAll == ASSUME NEW n \in Nat, NEW d \in Bytes(n) PROVE Cut(d, d, 64 * 0, n)
<1>1. \A i \in 1..n : 64 * 0 + i = i
  OBVIOUS
<1> QED
  BY <1>1 DEF Cut, Holds

\* A turn of the loop of short with something left.
LEMMA TurnWith ==
  ASSUME NEW sc, NEW e, e # <<>>
  PROVE  SphTurn([sc |-> sc, left |-> e])
           = [sc |-> Sph!Md!ShortTurn(sc, e),
              left |-> SubSeq(e, 1 + 64 - Sph!Md!current(sc), Len(e))]
  BY DEF SphTurn

\* A turn with nothing left.
LEMMA TurnWithout ==
  ASSUME NEW sc PROVE SphTurn([sc |-> sc, left |-> <<>>]) = [sc |-> sc, left |-> <<>>]
  BY DEF SphTurn

\* Less than a block.
LEMMA ShortPart ==
  ASSUME NEW n \in Nat, n < 64, n < Sph!CountBound, NEW d \in Bytes(n)
  PROVE  HasTaken(Sph!Md!short(Sph!Fresh, d), d, 0, n)
<1>1. HasTaken(Sph!Fresh, d, 0, 0)
  BY FreshIs
<1>2. d \in Seq(Byte) /\ Len(d) = n /\ (n # 0 => d # <<>>)
  BY BytesAre
<1>3. PICK o \in Nat : o = 0
  OBVIOUS
<1>4. PICK sc : sc = Sph!Fresh
  OBVIOUS
<1>5. Sph!Md!current(sc) = 0
  BY <1>1, <1>3, <1>4, AtBoundary
<1>6. PICK at1 : at1 = SphTurn([sc |-> sc, left |-> d])
  OBVIOUS
<1>7. HasTaken(at1.sc, d, 0, n) /\ at1.left = <<>> /\ at1 = [sc |-> at1.sc, left |-> <<>>]
  <2>1. CASE n = 0
    <3>1. d = <<>>
      BY <1>2, <2>1
    <3>2. at1 = [sc |-> sc, left |-> <<>>]
      BY <1>6, <3>1, TurnWithout
    <3>3. at1.sc = sc /\ at1.left = <<>>
      BY <3>2
    <3> QED
      BY <1>1, <1>4, <2>1, <3>2, <3>3
  <2>2. CASE n # 0
    <3>1. n = 64 * o + n /\ Cut(d, d, 64 * o, n)
      BY <1>3, CutAll
    <3>2. HasTaken(sc, d, o, 0)
      BY <1>1, <1>3, <1>4
    <3>3. /\ HasTaken(Sph!Md!ShortTurn(sc, d), d, o, n)
          /\ SubSeq(d, 1 + 64 - Sph!Md!current(sc), Len(d)) = <<>>
      BY <3>1, <3>2, PartTurn
    <3>4. d # <<>>
      BY <1>2, <2>2
    <3>5. at1 = [sc |-> Sph!Md!ShortTurn(sc, d),
                 left |-> SubSeq(d, 1 + 64 - Sph!Md!current(sc), Len(d))]
      BY <1>6, <3>4, TurnWith
    <3> HIDE <1>2, <1>6
    <3> QED
      BY <1>3, <3>3, <3>5
  <2> QED
    BY <2>1, <2>2
<1>8. PICK k \in Nat : k = 1
  OBVIOUS
<1>9. k = (Sph!Md!current(sc) + Len(d)) \div 64 + 1
  BY <1>2, <1>5, <1>8
<1>10. SphTurn(at1) = at1
  BY <1>7, TurnWithout
<1>11. Sph!Md!short(sc, d) = IF k = 1 THEN at1.sc ELSE at1.sc
  BY <1>6, <1>7, <1>8, <1>9, <1>10, SphShort
<1> QED
  BY <1>4, <1>7, <1>11

\* A block and less than another.
LEMMA ShortMore ==
  ASSUME NEW n \in Nat, n < 128, n >= 64, n < Sph!CountBound, NEW d \in Bytes(n)
  PROVE  HasTaken(Sph!Md!short(Sph!Fresh, d), d, 1, n - 64)
<1>1. HasTaken(Sph!Fresh, d, 0, 0)
  BY FreshIs
<1>2. d \in Seq(Byte) /\ Len(d) = n /\ d # <<>>
  BY BytesAre
<1>3. PICK o \in Nat : o = 0
  OBVIOUS
<1>4. PICK sc : sc = Sph!Fresh
  OBVIOUS
<1>5. Sph!Md!current(sc) = 0
  BY <1>1, <1>3, <1>4, AtBoundary
<1>6. PICK at1 : at1 = SphTurn([sc |-> sc, left |-> d])
  OBVIOUS
<1>7. PICK r \in Nat : r = n - 64 /\ r < 64
  OBVIOUS
<1>8. PICK p \in Nat : p = 1
  OBVIOUS
<1>9. HasTaken(at1.sc, d, p, 0) /\ Cut(at1.left, d, 64 * p, r)
  <2>1. n = 64 * o + n /\ Cut(d, d, 64 * o, n)
    BY <1>3, CutAll
  <2>2. HasTaken(sc, d, o, 0)
    BY <1>1, <1>3, <1>4
  <2>3. /\ HasTaken(Sph!Md!ShortTurn(sc, d), d, o + 1, 0)
        /\ Cut(SubSeq(d, 1 + 64 - Sph!Md!current(sc), Len(d)), d, 64 * (o + 1), n - 64)
    BY <2>1, <2>2, FullTurn
  <2>4. at1 = [sc |-> Sph!Md!ShortTurn(sc, d),
               left |-> SubSeq(d, 1 + 64 - Sph!Md!current(sc), Len(d))]
    BY <1>2, <1>6, TurnWith
  <2>5. at1.sc = Sph!Md!ShortTurn(sc, d)
        /\ at1.left = SubSeq(d, 1 + 64 - Sph!Md!current(sc), Len(d))
    BY <2>4
  <2>6. o + 1 = p
    BY <1>3, <1>8
  <2> QED
    BY <1>7, <2>3, <2>5, <2>6
<1>10. PICK b, e : at1 = [sc |-> b, left |-> e]
  BY <1>6, <1>2, TurnWith
<1>11. b = at1.sc /\ e = at1.left
  BY <1>10
<1>12. HasTaken(b, d, p, 0) /\ Cut(e, d, 64 * p, r)
  BY <1>9, <1>11
<1>13. PICK at2 : at2 = SphTurn(at1)
  OBVIOUS
<1>14. HasTaken(at2.sc, d, 1, r) /\ at2.left = <<>>
  <2>1. e \in Seq(Byte) /\ Len(e) = r
    BY <1>12, BytesAre DEF Cut
  <2>2. CASE e = <<>>
    <3>1. r = 0
      BY <2>1, <2>2
    <3>2. at2 = [sc |-> b, left |-> <<>>]
      BY <1>10, <1>13, <2>2, TurnWithout
    <3>3. at2.sc = b /\ at2.left = <<>>
      BY <3>2
    <3> QED
      BY <1>8, <1>12, <3>1, <3>3
  <2>3. CASE e # <<>>
    <3>1. n = 64 * p + r
      BY <1>7, <1>8
    <3>2. /\ HasTaken(Sph!Md!ShortTurn(b, e), d, p, r)
          /\ SubSeq(e, 1 + 64 - Sph!Md!current(b), Len(e)) = <<>>
      BY <1>7, <1>12, <3>1, PartTurn
    <3>3. at2 = [sc |-> Sph!Md!ShortTurn(b, e),
                 left |-> SubSeq(e, 1 + 64 - Sph!Md!current(b), Len(e))]
      BY <1>10, <1>13, <2>3, TurnWith
    <3>4. at2.sc = Sph!Md!ShortTurn(b, e)
          /\ at2.left = SubSeq(e, 1 + 64 - Sph!Md!current(b), Len(e))
      BY <3>3
    <3> QED
      BY <1>8, <3>2, <3>4
  <2> QED
    BY <2>2, <2>3
<1>15. PICK k \in Nat : k = 2
  OBVIOUS
<1>16. k = (Sph!Md!current(sc) + Len(d)) \div 64 + 1
  BY <1>2, <1>5, <1>15
<1>17. Sph!Md!short(sc, d) = IF k = 1 THEN at1.sc ELSE at2.sc
  BY <1>6, <1>13, <1>14, <1>15, <1>16, SphShort
<1> QED
  BY <1>4, <1>7, <1>14, <1>15, <1>17

\* The blocks straight from the caller's memory.
LEMMA SphLongBlocks ==
  ASSUME NEW n \in Nat, NEW d \in Bytes(n), NEW p \in Nat, p = n \div 64, NEW sc, sc.val = <<>>
  PROVE  Sph!Md!Long(sc, d).val = Chunks(d, p)
<1> DEFINE V == Seq(Block64)
           D(i) == Chunk(d, i - 1)
           h == [z \in (1..p) \X V |-> Append(z[2], D(z[1]))]
           a == <<>>
           seq == [i \in 1..(Len(d) \div 64) |-> i]
           S(i) == SubSeq(d, (i - 1) * 64 + 1, i * 64)
           Is(x) == x = [s \in SUBSET DOMAIN seq |->
                           IF s = {} THEN sc.val
                           ELSE Append(x[s \ {Sph!Md!Max(s)}], S(seq[Sph!Md!Max(s)]))]
           x == CHOOSE y : Is(y)
<1>0. 64 * p <= n
  OBVIOUS
<1>1. \A i \in 1..p : D(i) \in Block64 /\ S(i) = D(i)
  <2> SUFFICES ASSUME NEW i \in 1..p PROVE D(i) \in Block64 /\ S(i) = D(i)
    OBVIOUS
  <2>1. PICK k \in Nat : k = i - 1
    OBVIOUS
  <2>2. 64 * k + 64 <= n
    BY <1>0, <2>1
  <2>3. Chunk(d, k) \in Block64 /\ SubSeq(d, 64 * k + 1, 64 * k + 64) = Chunk(d, k)
    BY <2>2, ChunkIs
  <2>4. 64 * k + 1 = (i - 1) * 64 + 1 /\ 64 * k + 64 = i * 64
    BY <2>1
  <2> QED
    BY <2>1, <2>3, <2>4
<1>2. \A i \in 1..p : \A v \in V : h[<<i, v>>] = Append(v, D(i)) /\ Append(v, D(i)) \in V
  <2> SUFFICES ASSUME NEW i \in 1..p, NEW v \in V
               PROVE  h[<<i, v>>] = Append(v, D(i)) /\ Append(v, D(i)) \in V
    OBVIOUS
  <2>1. <<i, v>> \in (1..p) \X V /\ <<i, v>>[2] = v /\ <<i, v>>[1] = i
    OBVIOUS
  <2>2. D(i) \in Block64
    BY <1>1
  <2>3. Append(v, D(i)) \in V
    <3> HIDE DEF D
    <3> QED
      BY <2>2
  <2> HIDE DEF V, D
  <2>4. h[<<i, v>>] = Append(v, D(i))
    BY <2>1, Zenon
  <2> QED
    BY <2>3, <2>4
<1>3. a \in V
  OBVIOUS
<1>4. Closed(h, 1..p, V)
  <2> HIDE DEF h, V, D
  <2> QED
    BY <1>2 DEF Closed
<1>5. Len(d) = n
  BY BytesAre
<1>6. DOMAIN seq = 1..p /\ \A i \in 1..p : seq[i] = i
  BY <1>5
<1>7. Sph!Md!Long(sc, d).val = x[DOMAIN seq]
  BY Zenon DEF Sph!Md!Long, Sph!Md!FoldLeft, Sph!Md!MapThenFoldSet, Sph!Remember
<1>8. \A s : Sph!Md!Max(s) = Max(s)
  BY Zenon DEF Max, Sph!Md!Max
<1> HIDE DEF h, V, D, S, seq, a
<1>9. PICK G \in [SUBSET (1..p) -> V] : FoldsBy(G, a, h, p)
  BY <1>3, <1>4, FoldMade
<1>10. Is(G)
  <2>1. ASSUME NEW s \in SUBSET (1..p)
        PROVE  (IF s = {} THEN a ELSE h[<<Max(s), G[s \ {Max(s)}]>>])
                 = (IF s = {} THEN sc.val ELSE Append(G[s \ {Sph!Md!Max(s)}], S(seq[Sph!Md!Max(s)])))
    <3>1. CASE s = {}
      BY <3>1 DEF a
    <3>2. CASE s # {}
      <4>1. Max(s) \in 1..p /\ s \ {Max(s)} \in SUBSET (1..p)
        BY <3>2, MaxOf
      <4>2. h[<<Max(s), G[s \ {Max(s)}]>>] = Append(G[s \ {Max(s)}], D(Max(s)))
        BY <1>2, <4>1
      <4>3. seq[Max(s)] = Max(s) /\ S(Max(s)) = D(Max(s))
        BY <1>1, <1>6, <4>1
      <4> QED
        BY <1>8, <3>2, <4>2, <4>3
    <3> QED
      BY <3>1, <3>2
  <2> QED
    BY <1>6, <1>9, <2>1 DEF FoldsBy
<1> HIDE DEF Is
<1>11. Is(x)
  BY <1>10, Zenon
<1> HIDE DEF x
<1>12. x = [s \in SUBSET (1..p) |-> IF s = {} THEN sc.val
                                    ELSE Append(x[s \ {Sph!Md!Max(s)}], S(seq[Sph!Md!Max(s)]))]
  BY <1>6, <1>11 DEF Is
<1>13. FoldsLike(x, a, h, p, V)
  <2>1. x[{}] = a
    BY <1>12 DEF a
  <2>2. ASSUME NEW s \in SUBSET (1..p), s # {}, x[s \ {Max(s)}] \in V
        PROVE  x[s] = h[<<Max(s), x[s \ {Max(s)}]>>]
    <3>1. Max(s) \in 1..p
      BY <2>2, MaxOf
    <3>2. h[<<Max(s), x[s \ {Max(s)}]>>] = Append(x[s \ {Max(s)}], D(Max(s)))
      BY <1>2, <2>2, <3>1
    <3>3. x[s] = Append(x[s \ {Sph!Md!Max(s)}], S(seq[Sph!Md!Max(s)]))
      BY <1>12, <2>2
    <3>4. seq[Max(s)] = Max(s) /\ S(Max(s)) = D(Max(s))
      BY <1>1, <1>6, <3>1
    <3> QED
      BY <1>8, <3>2, <3>3, <3>4
  <2> QED
    BY <2>1, <2>2 DEF FoldsLike, OneStepOn
<1>14. PICK f \in [0..p -> V] : Goes(f, a, h, p) /\ x[1..p] = f[p]
  BY <1>3, <1>4, <1>13, FoldGoes
<1> DEFINE T == {i \in Nat : i <= p => f[i] = Chunks(d, i)}
<1>15. 0 \in T
  <2>1. f[0] = <<>>
    BY <1>14 DEF Goes, a
  <2> QED
    BY <2>1, NoChunks
<1>16. ASSUME NEW i \in Nat, i \in T PROVE i + 1 \in T
  <2> SUFFICES ASSUME i + 1 <= p PROVE f[i + 1] = Chunks(d, i + 1)
    OBVIOUS
  <2>1. i \in 0..p - 1 /\ i + 1 \in 1..p /\ i \in 0..p /\ i <= p /\ (i + 1) - 1 = i
        /\ 64 * i + 64 <= n
    BY <1>0
  <2>2. f[i + 1] = h[<<i + 1, f[i]>>]
    BY <1>14, <2>1 DEF Goes
  <2>3. f[i + 1] = Append(f[i], D(i + 1))
    BY <1>2, <2>1, <2>2
  <2>4. f[i] = Chunks(d, i)
    BY <1>16, <2>1
  <2>5. Append(Chunks(d, i), Chunk(d, i)) = Chunks(d, i + 1)
    BY <2>1, ChunksNext
  <2> QED
    BY <2>1, <2>3, <2>4, <2>5 DEF D
<1> HIDE DEF T
<1>17. \A i \in Nat : i \in T
  BY <1>15, <1>16, SetInduction, Zenon
<1>18. f[p] = Chunks(d, p)
  BY <1>17 DEF T
<1> QED
  BY <1>6, <1>7, <1>14, <1>18

\* Whole blocks, and the rest into the buffer.
LEMMA SphLong ==
  ASSUME NEW n \in Nat, n < Sph!CountBound, NEW d \in Bytes(n), NEW sc, HasTaken(sc, d, 0, 0),
         NEW q \in Nat, NEW r \in Nat, n = 64 * q + r, r < 64
  PROVE  HasTaken(Sph!Md!Long(sc, d), d, q, r)
<1>1. sc.buf \in Block64 /\ sc.val = <<>> /\ sc.count = 0
  BY NoChunks DEF HasTaken
<1>2. Len(d) = n
  BY BytesAre
<1>3. n \div 64 = q
  OBVIOUS
<1>4. PICK t : t = Sph!Md!Long(sc, d)
  OBVIOUS
<1>5. t.val = Chunks(d, q)
  BY <1>1, <1>3, <1>4, SphLongBlocks
<1>6. t.count = n
  <2>1. t.count = (sc.count + n) % Sph!CountBound
    BY <1>2, <1>4 DEF Sph!Md!Long
  <2>2. n % Sph!CountBound = n
    BY CountIs
  <2> QED
    BY <1>1, <2>1, <2>2
<1>7. PICK o \in Nat : o = 64 * q
  OBVIOUS
<1>8. PICK f : f = SubSeq(d, o + 1, o + r)
  OBVIOUS
<1>9. Cut(f, d, o, r)
  <2>1. o + r <= n
    BY <1>7
  <2> QED
    BY <1>8, <2>1, CutIs
<1>10. PICK z \in Nat : z = 0 /\ z + r <= 64
  OBVIOUS
<1>11. PICK mem \in Block64 : mem = sc.buf
  BY <1>1
<1>12. f \in Bytes(r)
  BY <1>9 DEF Cut
<1>13. PICK c : c = Sph!Md!Memcpy(mem, z, f)
  OBVIOUS
<1>14. Placed(c, mem, z, f, r)
  BY <1>10, <1>12, <1>13, SphMemcpy
<1>15. t.buf = c
  <2>1. t.buf = Sph!Md!Memcpy(sc.buf, 0, SubSeq(d, q * 64 + 1, n))
    BY <1>2, <1>3, <1>4 DEF Sph!Md!Long
  <2>2. q * 64 + 1 = o + 1 /\ n = o + r
    BY <1>7
  <2> QED
    BY <1>8, <1>10, <1>11, <1>13, <2>1, <2>2
<1>16. Holds(d, 64 * q, c, r)
  BY <1>7, <1>9, <1>10, <1>14 DEF Cut, Holds, Placed
<1>17. c \in Block64
  BY <1>14 DEF Placed
<1>18. HasTaken(t, d, q, r)
  <2>1. IsObject(t)
    BY <1>4 DEF Sph!Md!Long, IsObject
  <2> QED
    BY <1>5, <1>6, <1>15, <1>16, <1>17, <2>1 DEF HasTaken
<1> QED
  BY <1>4, <1>18

\* Whatever is passed in one call is absorbed.
LEMMA SphUpdate ==
  ASSUME NEW n \in Nat, n < Sph!CountBound, NEW d \in Bytes(n),
         NEW q \in Nat, NEW r \in Nat, n = 64 * q + r, r < 64
  PROVE  HasTaken(Sph!Md!update(Sph!Fresh, d, TRUE), d, q, r)
<1>1. HasTaken(Sph!Fresh, d, 0, 0)
  BY FreshIs
<1>2. Len(d) = n
  BY BytesAre
<1>3. PICK sc : sc = Sph!Fresh
  OBVIOUS
<1>4. PICK z \in Nat : z = 0
  OBVIOUS
<1>5. Sph!Md!current(sc) = 0
  BY <1>1, <1>3, <1>4, AtBoundary
<1>6. CASE n < 128
  <2>1. Sph!Md!update(sc, d, TRUE) = Sph!Md!short(sc, d)
    BY <1>2, <1>6 DEF Sph!Md!update
  <2>2. CASE n < 64
    <3>1. HasTaken(Sph!Md!short(Sph!Fresh, d), d, 0, n)
      BY <2>2, ShortPart
    <3>2. q = 0 /\ r = n
      BY <2>2
    <3> QED
      BY <1>3, <2>1, <3>1, <3>2
  <2>3. CASE n >= 64
    <3>1. HasTaken(Sph!Md!short(Sph!Fresh, d), d, 1, n - 64)
      BY <1>6, <2>3, ShortMore
    <3>2. q = 1 /\ r = n - 64
      BY <1>6, <2>3
    <3> QED
      BY <1>3, <2>1, <3>1, <3>2
  <2>4. n < 64 \/ n >= 64
    OBVIOUS
  <2> QED
    BY <2>2, <2>3, <2>4, Zenon
<1>7. CASE n >= 128
  <2>1. Sph!Md!update(sc, d, TRUE)
          = Sph!Md!Long(Sph!Md!short(sc, SubSeq(d, 1, 0)), SubSeq(d, 0 + 1, Len(d)))
    BY <1>2, <1>5, <1>7 DEF Sph!Md!update
  <2>2. SubSeq(d, 0 + 1, Len(d)) = d
    <3>1. PICK e : e = SubSeq(d, z + 1, z + n)
      OBVIOUS
    <3>2. Cut(e, d, z, n)
      <4>1. z + n <= n
        BY <1>4
      <4> QED
        BY <3>1, <4>1, CutIs
    <3>3. e \in Bytes(n) /\ \A i \in 1..n : d[i] = e[i]
      BY <1>4, <3>2 DEF Cut, Holds
    <3>4. d = e
      BY <3>3, SameBytes
    <3> QED
      BY <1>2, <1>4, <3>1, <3>4
  <2>3. PICK e : e = SubSeq(d, 1, 0)
    OBVIOUS
  <2>4. e \in Bytes(z)
    <3>1. PICK f : f = SubSeq(d, z + 1, z + z)
      OBVIOUS
    <3>2. Cut(f, d, z, z)
      <4>1. z + z <= n
        BY <1>4
      <4> QED
        BY <3>1, <4>1, CutIs
    <3> QED
      BY <1>4, <2>3, <3>1, <3>2 DEF Cut
  <2>5. HasTaken(Sph!Md!short(Sph!Fresh, e), e, 0, z)
    <3>1. z < 64 /\ z < Sph!CountBound
      BY <1>4, SpanIs
    <3> QED
      BY <2>4, <3>1, ShortPart
  <2>6. PICK b : b = Sph!Md!short(Sph!Fresh, e)
    OBVIOUS
  <2>7. HasTaken(b, d, 0, 0)
    BY <1>4, <2>5, <2>6, NoChunks DEF HasTaken, Holds
  <2>8. HasTaken(Sph!Md!Long(b, d), d, q, r)
    BY <2>7, SphLong
  <2> QED
    BY <1>3, <2>1, <2>2, <2>3, <2>6, <2>8
<1>8. n < 128 \/ n >= 128
  OBVIOUS
<1> QED
  BY <1>6, <1>7, <1>8, Zenon

-----------------------------------------------------------------------------
(* The padding.                                                            *)

\* The low three bytes of a number below the bound are all there is of it.
LEMMA SmallIs ==
  ASSUME NEW n \in Nat, 8 * n < Sph!CountBound
  PROVE  /\ n < Sph!CountBound /\ n \div (Sph!CountBound \div 8) = 0
         /\ (8 * n) % Sph!CountBound = 8 * n
         /\ (((8 * n) \div 256) \div 256) \div 256 = 0
<1>1. n < Sph!CountBound /\ n \div (Sph!CountBound \div 8) = 0
  BY SMT DEF Sph!CountBound
<1>2. (8 * n) % Sph!CountBound = 8 * n
  <2>1. PICK k \in Nat : k = 8 * n
    OBVIOUS
  <2> QED
    BY <2>1, CountIs
<1>3. (((8 * n) \div 256) \div 256) \div 256 = 0
  BY SMT DEF Sph!CountBound
<1> QED
  BY <1>1, <1>2, <1>3

\* A byte, high bytes first.
HighBytes(e, x) ==
  /\ e \in Bytes(8) /\ \A i \in 1..5 : e[i] = 0
  /\ e[6] = ((x \div 256) \div 256) % 256 /\ e[7] = (x \div 256) % 256 /\ e[8] = x % 256

\* What sph_enc64be makes of a number of three bytes.
LEMMA EncIs ==
  ASSUME NEW x \in Nat, ((x \div 256) \div 256) \div 256 = 0
  PROVE  HighBytes(Sph!Md!sph_enc64be(x), x)
<1> DEFINE Is(y) == y = [i \in 1..8 |-> IF i = 8 THEN x ELSE y[i + 1] \div 256]
           y == CHOOSE z : Is(z)
           G == [i \in 1..8 |-> IF i = 8 THEN x ELSE IF i = 7 THEN x \div 256
                                ELSE IF i = 6 THEN (x \div 256) \div 256 ELSE 0]
<1>1. Sph!Md!sph_enc64be(x) = [i \in 1..8 |-> y[i] % 256]
  BY Zenon DEF Sph!Md!sph_enc64be
<1>2. PICK b \in Nat : b = x \div 256
  OBVIOUS
<1>3. PICK c \in Nat : c = b \div 256
  OBVIOUS
<1>4. c \div 256 = 0 /\ 0 \div 256 = 0
  BY <1>2, <1>3
<1>5. Is(G)
  <2>1. ASSUME NEW i \in 1..8 PROVE G[i] = IF i = 8 THEN x ELSE G[i + 1] \div 256
    <3>1. CASE i = 8
      BY <3>1
    <3>2. CASE i = 7
      BY <3>2
    <3>3. CASE i = 6
      BY <3>3
    <3>4. CASE i = 5
      <4>1. G[6] = c /\ G[5] = 0
        BY <1>2, <1>3
      <4> QED
        BY <1>4, <3>4, <4>1
    <3>5. CASE i \in 1..4
      <4>1. i + 1 \in 1..5
        BY <3>5
      <4>2. G[i] = 0 /\ G[i + 1] = 0
        BY <3>5, <4>1
      <4> QED
        BY <1>4, <3>5, <4>2
    <3> QED
      BY <3>1, <3>2, <3>3, <3>4, <3>5
  <2> QED
    BY <2>1
<1> HIDE DEF Is
<1>6. Is(y)
  BY <1>5, Zenon
<1> HIDE DEF y
<1>7. y = [i \in 1..8 |-> IF i = 8 THEN x ELSE y[i + 1] \div 256]
  BY <1>6 DEF Is
<1>8. y[8] = x /\ y[7] = x \div 256 /\ y[6] = c
  <2>1. y[8] = x
    BY <1>7
  <2>2. y[7] = y[8] \div 256
    BY <1>7
  <2>3. y[6] = y[7] \div 256
    BY <1>7
  <2> QED
    BY <1>2, <1>3, <2>1, <2>2, <2>3
<1>9. y[5] = 0 /\ y[4] = 0 /\ y[3] = 0 /\ y[2] = 0 /\ y[1] = 0
  <2>1. y[5] = y[6] \div 256
    BY <1>7
  <2>2. y[4] = y[5] \div 256
    BY <1>7
  <2>3. y[3] = y[4] \div 256
    BY <1>7
  <2>4. y[2] = y[3] \div 256
    BY <1>7
  <2>5. y[1] = y[2] \div 256
    BY <1>7
  <2> QED
    BY <1>4, <1>8, <2>1, <2>2, <2>3, <2>4, <2>5
<1>10. PICK e : e = [i \in 1..8 |-> y[i] % 256]
  OBVIOUS
<1>11. 0 % 256 = 0
  OBVIOUS
<1>12. e[1] = 0 /\ e[2] = 0 /\ e[3] = 0 /\ e[4] = 0 /\ e[5] = 0
  BY <1>9, <1>10, <1>11
<1>13. e[6] = c % 256 /\ e[7] = b % 256 /\ e[8] = x % 256
  BY <1>2, <1>8, <1>10
<1>14. \A k \in Nat : k % 256 \in Byte
  BY DEF Byte
<1>15. e \in Bytes(8)
  <2>1. ASSUME NEW i \in 1..8 PROVE y[i] % 256 \in Byte
    <3>1. y[i] \in Nat
      <4>1. i = 1 \/ i = 2 \/ i = 3 \/ i = 4 \/ i = 5 \/ i = 6 \/ i = 7 \/ i = 8
        OBVIOUS
      <4> QED
        BY <1>2, <1>8, <1>9, <4>1
    <3> QED
      BY <1>14, <3>1
  <2> QED
    BY <1>10, <2>1 DEF Bytes
<1>16. \A i \in 1..5 : e[i] = 0
  <2> SUFFICES ASSUME NEW i \in 1..5 PROVE e[i] = 0
    OBVIOUS
  <2>1. i = 1 \/ i = 2 \/ i = 3 \/ i = 4 \/ i = 5
    OBVIOUS
  <2> QED
    BY <1>12, <2>1
<1>17. HighBytes(e, x)
  BY <1>2, <1>3, <1>13, <1>15, <1>16 DEF HighBytes
<1> QED
  BY <1>1, <1>10, <1>17

\* Zero bytes.
LEMMA SphZeros ==
  ASSUME NEW n \in Nat
  PROVE  Sph!Md!Zeros(n) \in Bytes(n) /\ \A i \in 1..n : Sph!Md!Zeros(n)[i] = 0
<1>1. 0 \in Byte
  BY DEF Byte
<1> QED
  BY <1>1 DEF Sph!Md!Zeros, Bytes

\* The last 32 bytes of a message of n bytes.
IsLength(e, n) ==
  /\ e \in Bytes(32) /\ \A i \in 1..29 : e[i] = 0
  /\ e[30] = (((8 * n) \div 256) \div 256) % 256 /\ e[31] = ((8 * n) \div 256) % 256
  /\ e[32] = (8 * n) % 256

\* Strings one behind the other.
LEMMA JoinedIs ==
  ASSUME NEW n \in Nat, NEW a \in Bytes(n), NEW m \in Nat, NEW b \in Bytes(m)
  PROVE  a \o b \in Bytes(n + m) /\ Holds(a \o b, 0, a, n) /\ Holds(a \o b, n, b, m)
  BY Concat DEF Bytes

\* The length in bits, over four words.
LEMMA LengthBytes ==
  ASSUME NEW n \in Nat, 8 * n < Sph!CountBound
  PROVE  IsLength(Sph!Md!Zeros(16)
                    \o Sph!Md!sph_enc64be(n \div (Sph!CountBound \div 8))
                    \o Sph!Md!sph_enc64be((8 * n) % Sph!CountBound), n)
<1>1. PICK x \in Nat : x = 8 * n
  OBVIOUS
<1>2. ((x \div 256) \div 256) \div 256 = 0 /\ x = (8 * n) % Sph!CountBound
  <2>1. (((8 * n) \div 256) \div 256) \div 256 = 0 /\ (8 * n) % Sph!CountBound = 8 * n
    BY SmallIs
  <2> QED
    BY <1>1, <2>1, Zenon
<1>3. PICK b : b = Sph!Md!sph_enc64be((8 * n) % Sph!CountBound) /\ HighBytes(b, x)
  BY <1>2, EncIs
<1>4. PICK z \in Nat : z = 0 /\ ((z \div 256) \div 256) \div 256 = 0
  OBVIOUS
<1>5. HighBytes(Sph!Md!sph_enc64be(z), z)
  BY <1>4, EncIs
<1>6. n \div (Sph!CountBound \div 8) = 0
  BY SmallIs
<1>7. PICK a : a = Sph!Md!sph_enc64be(n \div (Sph!CountBound \div 8)) /\ HighBytes(a, z)
  BY <1>4, <1>5, <1>6
<1>8. a \in Bytes(8) /\ \A i \in 1..8 : a[i] = 0
  <2>1. ((z \div 256) \div 256) % 256 = 0 /\ (z \div 256) % 256 = 0 /\ z % 256 = 0
    BY <1>4
  <2>2. a \in Bytes(8) /\ (\A i \in 1..5 : a[i] = 0) /\ a[6] = 0 /\ a[7] = 0 /\ a[8] = 0
    BY <1>7, <2>1 DEF HighBytes
  <2>3. \A i \in 1..8 : i \in 1..5 \/ i = 6 \/ i = 7 \/ i = 8
    OBVIOUS
  <2> QED
    BY <2>2, <2>3
<1>9. PICK s \in Nat : s = 16
  OBVIOUS
<1>10. PICK w \in Nat : w = 8
  OBVIOUS
<1>11. PICK o : o = Sph!Md!Zeros(s) /\ o \in Bytes(s) /\ \A i \in 1..s : o[i] = 0
  BY SphZeros
<1>12. a \in Bytes(w) /\ b \in Bytes(w)
  BY <1>3, <1>8, <1>10 DEF HighBytes
<1>13. PICK c : c = o \o a /\ c \in Bytes(s + w) /\ Holds(c, 0, o, s) /\ Holds(c, s, a, w)
  BY <1>11, <1>12, JoinedIs
<1>14. PICK t \in Nat : t = s + w
  OBVIOUS
<1>15. c \in Bytes(t)
  BY <1>13, <1>14
<1>16. PICK e : e = c \o b /\ e \in Bytes(t + w) /\ Holds(e, 0, c, t) /\ Holds(e, t, b, w)
  BY <1>12, <1>15, JoinedIs
<1>17. t = 24 /\ t + w = 32
  BY <1>9, <1>10, <1>14
<1>18. \A i \in 1..24 : e[i] = 0
  <2> SUFFICES ASSUME NEW i \in 1..24 PROVE e[i] = 0
    OBVIOUS
  <2>0. i \in 1..t /\ 0 + i = i
    BY <1>17
  <2>1. e[i] = c[i]
    <3>1. e[0 + i] = c[i]
      BY <1>16, <2>0 DEF Holds
    <3> QED
      BY <2>0, <3>1
  <2>2. CASE i <= 16
    <3>1. i \in 1..s
      BY <1>9, <2>2
    <3>2. c[0 + i] = o[i] /\ o[i] = 0
      BY <1>11, <1>13, <3>1 DEF Holds
    <3> QED
      BY <2>0, <2>1, <3>2
  <2>3. CASE i > 16
    <3>1. PICK j \in 1..8 : i = 16 + j
      BY <2>3
    <3> QED
      BY <1>8, <1>9, <1>10, <1>13, <2>1, <3>1 DEF Holds
  <2> QED
    BY <2>2, <2>3
<1>19. \A j \in 1..8 : e[24 + j] = b[j]
  BY <1>10, <1>16, <1>17 DEF Holds
<1>20. \A i \in 1..29 : e[i] = 0
  <2> SUFFICES ASSUME NEW i \in 1..29 PROVE e[i] = 0
    OBVIOUS
  <2>1. CASE i <= 24
    BY <1>18, <2>1
  <2>2. CASE i > 24
    <3>1. PICK j \in 1..5 : i = 24 + j
      BY <2>2
    <3>2. b[j] = 0
      BY <1>3 DEF HighBytes
    <3> QED
      BY <1>19, <3>1, <3>2
  <2> QED
    BY <2>1, <2>2
<1>21. e[30] = b[6] /\ e[31] = b[7] /\ e[32] = b[8]
  <2>1. 30 = 24 + 6 /\ 31 = 24 + 7 /\ 32 = 24 + 8
    OBVIOUS
  <2> QED
    BY <1>19, <2>1
<1>22. IsLength(e, n)
  <2>1. e \in Bytes(32)
    BY <1>16, <1>17
  <2>2. /\ e[30] = ((x \div 256) \div 256) % 256 /\ e[31] = (x \div 256) % 256
        /\ e[32] = x % 256
    BY <1>3, <1>21, Zenon DEF HighBytes
  <2>3. /\ e[30] = (((8 * n) \div 256) \div 256) % 256 /\ e[31] = ((8 * n) \div 256) % 256
        /\ e[32] = (8 * n) % 256
    BY <1>1, <2>2, Zenon
  <2> QED
    BY <1>20, <2>1, <2>3, Zenon DEF IsLength
<1>23. e = Sph!Md!Zeros(16) \o a \o b
  BY <1>9, <1>11, <1>13, <1>16
<1> QED
  BY <1>3, <1>7, <1>22, <1>23

\* p is the padded message of the n bytes d: a 1 bit, 0 bits, and the length at
\* the end of the last of the fewest blocks that have room for it.
Pads(p, d, n, N) ==
  /\ p \in Bytes(64 * N) /\ 64 * N - 64 < n + 33 /\ n + 33 <= 64 * N
  /\ (\A i \in 1..n : p[i] = d[i]) /\ p[n + 1] = 128
  /\ \A i \in n + 2..64 * N - 32 : p[i] = 0
  /\ IsLength([i \in 1..32 |-> p[64 * N - 32 + i]], n)

\* Where the message has whole blocks, so has the padded one.
LEMMA PaddedChunks ==
  ASSUME NEW n \in Nat, NEW d, NEW N \in Nat, NEW p, Pads(p, d, n, N),
         NEW q \in Nat, 64 * q <= n
  PROVE  Chunks(d, q) = Chunks(p, q)
<1>1. ASSUME NEW b \in 1..q PROVE Chunk(d, b - 1) = Chunk(p, b - 1)
  <2>1. \A i \in 1..64 : 64 * (b - 1) + i \in 1..n
    OBVIOUS
  <2>2. \A i \in 1..64 : d[64 * (b - 1) + i] = p[64 * (b - 1) + i]
    BY <2>1 DEF Pads
  <2> QED
    BY <2>2 DEF Chunk
<1> QED
  BY <1>1 DEF Chunks

\* A block that agrees with the padded message is the block of it.
LEMMA BlockIs ==
  ASSUME NEW N \in Nat, NEW p \in Bytes(64 * N), NEW b \in Nat, 64 * b + 64 <= 64 * N,
         NEW c \in Block64, \A i \in 1..64 : c[i] = p[64 * b + i]
  PROVE  c = Chunk(p, b)
  BY DEF Chunk, Block64, Bytes

\* What Memcpy makes of a block.
LEMMA CopyIs ==
  ASSUME NEW mem \in Block64, NEW at \in Nat, NEW l \in Nat, NEW d \in Bytes(l), at + l <= 64
  PROVE  \E c \in Block64 : c = Sph!Md!Memcpy(mem, at, d) /\ Placed(c, mem, at, d, l)
<1>1. PICK c : c = Sph!Md!Memcpy(mem, at, d) /\ Placed(c, mem, at, d, l)
  BY SphMemcpy
<1> QED
  BY <1>1 DEF Placed

\* The mark behind the data.
LEMMA MarkIs ==
  ASSUME NEW n \in Nat, NEW d \in Bytes(n), NEW q \in Nat, NEW r \in Nat, r < 64,
         NEW sc, HasTaken(sc, d, q, r)
  PROVE  \E c \in Block64 : /\ c = Sph!Md!Memcpy(sc.buf, r, << 128 >>)
                            /\ c[r + 1] = 128 /\ \A i \in 1..r : c[i] = d[64 * q + i]
<1>1. PICK mem \in Block64 : mem = sc.buf /\ \A i \in 1..r : d[64 * q + i] = mem[i]
  BY DEF HasTaken, Holds
<1>2. PICK l \in Nat : l = 1
  OBVIOUS
<1>3. PICK m : m = << 128 >>
  OBVIOUS
<1>4. m \in Bytes(l) /\ m[1] = 128
  BY <1>2, <1>3 DEF Bytes, Byte
<1>5. r + l <= 64
  BY <1>2
<1>6. PICK c \in Block64 : c = Sph!Md!Memcpy(mem, r, m) /\ Placed(c, mem, r, m, l)
  BY <1>4, <1>5, CopyIs
<1>7. c[r + 1] = 128
  BY <1>2, <1>4, <1>6 DEF Placed, Holds
<1>8. \A i \in 1..r : c[i] = d[64 * q + i]
  <2> SUFFICES ASSUME NEW i \in 1..r PROVE c[i] = d[64 * q + i]
    OBVIOUS
  <2>1. i \in 1..64 /\ i <= r
    OBVIOUS
  <2> QED
    BY <1>1, <1>6, <2>1 DEF Placed
<1> QED
  BY <1>1, <1>3, <1>6, <1>7, <1>8

\* Zero bytes behind the mark.
LEMMA ClearIs ==
  ASSUME NEW c \in Block64, NEW at \in Nat, NEW to \in Nat, at <= to, to <= 64
  PROVE  \E e \in Block64 : /\ e = Sph!Md!Memcpy(c, at, Sph!Md!Zeros(to - at))
                            /\ \A i \in 1..at : e[i] = c[i]
                            /\ \A i \in at + 1..to : e[i] = 0
<1>1. PICK l \in Nat : l = to - at /\ at + l <= 64 /\ at + l = to
  OBVIOUS
<1>2. PICK z : z = Sph!Md!Zeros(l) /\ z \in Bytes(l) /\ \A i \in 1..l : z[i] = 0
  BY SphZeros
<1>3. PICK e \in Block64 : e = Sph!Md!Memcpy(c, at, z) /\ Placed(e, c, at, z, l)
  BY <1>1, <1>2, CopyIs
<1>4. ASSUME NEW i \in 1..at PROVE e[i] = c[i]
  <2>1. i \in 1..64 /\ i <= at
    BY <1>1
  <2> QED
    BY <1>3, <2>1 DEF Placed
<1>5. ASSUME NEW i \in at + 1..to PROVE e[i] = 0
  <2>1. PICK j \in 1..l : i = at + j
    BY <1>1
  <2> QED
    BY <1>2, <1>3, <2>1 DEF Placed, Holds
<1> QED
  BY <1>1, <1>2, <1>3, <1>4, <1>5

\* The length in the upper half.
LEMMA LengthIn ==
  ASSUME NEW c \in Block64, NEW e \in Bytes(32)
  PROVE  \E b \in Block64 : /\ b = Sph!Md!Memcpy(c, 32, e)
                            /\ \A i \in 1..32 : b[i] = c[i]
                            /\ \A i \in 1..32 : b[32 + i] = e[i]
<1>1. PICK l \in Nat : l = 32 /\ l + l <= 64
  OBVIOUS
<1>2. e \in Bytes(l)
  BY <1>1
<1>3. PICK b \in Block64 : b = Sph!Md!Memcpy(c, l, e) /\ Placed(b, c, l, e, l)
  BY <1>1, <1>2, CopyIs
<1>4. ASSUME NEW i \in 1..32 PROVE b[i] = c[i]
  <2>1. i \in 1..64 /\ i <= l
    BY <1>1
  <2> QED
    BY <1>3, <2>1 DEF Placed
<1>5. ASSUME NEW i \in 1..32 PROVE b[32 + i] = e[i]
  BY <1>1, <1>3 DEF Placed, Holds
<1> QED
  BY <1>1, <1>3, <1>4, <1>5

\* The length as addbits_and_close puts it together.
LengthOf(n) ==
  Sph!Md!Zeros(16) \o Sph!Md!sph_enc64be(n \div (Sph!CountBound \div 8))
    \o Sph!Md!sph_enc64be((8 * n) % Sph!CountBound)

\* What addbits_and_close leaves in the state.
LEMMA CloseVal ==
  ASSUME NEW sc, NEW n, sc.count = n, IsObject(sc), NEW pad, pad = Sph!Md!Padded(sc)
  PROVE  Sph!Md!addbits_and_close(sc).val
           = Append(pad.val, Sph!Md!Memcpy(pad.buf, 32, LengthOf(n)))
<1>1. Sph!Md!MAXPAD = 32 /\ 2 * 8 = 16
  BY DEF Sph!Md!MAXPAD
<1>2. \A a, b : [sc EXCEPT !.buf = a, !.val = b].val = b
  <2> SUFFICES ASSUME NEW a, NEW b PROVE [sc EXCEPT !.buf = a, !.val = b].val = b
    OBVIOUS
  <2>1. PICK x, y, z : sc = [buf |-> x, val |-> y, count |-> z]
    BY DEF IsObject
  <2> QED
    BY <2>1
<1> QED
  BY <1>1, <1>2 DEF Sph!Md!addbits_and_close, LengthOf, Sph!Remember

\* The current block, if it has room for the length.
LEMMA PadOne ==
  ASSUME NEW sc, NEW r \in Nat, Sph!Md!current(sc) = r, r + 1 <= 32, NEW c,
         c = Sph!Md!Memcpy(sc.buf, r, << 128 >>)
  PROVE  Sph!Md!Padded(sc)
           = [buf |-> Sph!Md!Memcpy(c, r + 1, Sph!Md!Zeros(32 - (r + 1))), val |-> sc.val]
<1>1. Sph!Md!MAXPAD = 32 /\ 256 \div 2 = 128 /\ ~(r + 1 > 32)
  BY DEF Sph!Md!MAXPAD
<1> QED
  BY <1>1 DEF Sph!Md!Padded

\* A block that has no room for the length, filled up.
FilledUp(sc, r) ==
  Sph!Md!Memcpy(Sph!Md!Memcpy(sc.buf, r, << 128 >>), r + 1, Sph!Md!Zeros(64 - (r + 1)))

\* It is folded in first.
LEMMA PadTwo ==
  ASSUME NEW sc, NEW r \in Nat, Sph!Md!current(sc) = r, r + 1 > 32
  PROVE  Sph!Md!Padded(sc)
           = [buf |-> Sph!Md!Memcpy(FilledUp(sc, r), 0, Sph!Md!Zeros(32)),
              val |-> Append(sc.val, FilledUp(sc, r))]
<1>1. Sph!Md!MAXPAD = 32 /\ 256 \div 2 = 128
  BY DEF Sph!Md!MAXPAD
<1> QED
  BY <1>1 DEF Sph!Md!Padded, Sph!Remember, FilledUp

\* The remainder in the current block.
LEMMA CurrentOf ==
  ASSUME NEW sc, NEW d, NEW q \in Nat, NEW r \in Nat, r < 64, HasTaken(sc, d, q, r)
  PROVE  Sph!Md!current(sc) = r
<1>1. sc.count = 64 * q + r
  BY DEF HasTaken
<1>2. (64 * q + r) % 64 = r
  OBVIOUS
<1> QED
  BY <1>1, <1>2 DEF Sph!Md!current

\* There is one such end.
LEMMA SameLength ==
  ASSUME NEW n \in Nat, NEW a, IsLength(a, n), NEW b, IsLength(b, n), NEW j \in 1..32
  PROVE  a[j] = b[j]
<1>1. j \in 1..29 \/ j = 30 \/ j = 31 \/ j = 32
  OBVIOUS
<1> QED
  BY <1>1 DEF IsLength

\* Closed in one block.
LEMMA CloseOne ==
  ASSUME NEW n \in Nat, 8 * n < Sph!CountBound, NEW d \in Bytes(n), NEW q \in Nat, NEW r \in Nat,
         n = 64 * q + r, r < 64, r + 1 <= 32, NEW sc, HasTaken(sc, d, q, r),
         NEW N \in Nat, NEW p, Pads(p, d, n, N)
  PROVE  Sph!Md!addbits_and_close(sc).val = Chunks(p, N)
<1>1. N = q + 1 /\ 64 * q + 64 <= 64 * N /\ 64 * N = 64 * q + 64 /\ 64 * q <= n
  <2>1. 64 * N - 64 < n + 33 /\ n + 33 <= 64 * N
    BY DEF Pads
  <2> QED
    BY <2>1
<1>2. PICK c \in Block64 : /\ c = Sph!Md!Memcpy(sc.buf, r, << 128 >>)
                           /\ c[r + 1] = 128 /\ \A i \in 1..r : c[i] = d[64 * q + i]
  BY MarkIs
<1>3. PICK at \in Nat : at = r + 1
  OBVIOUS
<1>4. PICK to \in Nat : to = 32 /\ at <= to /\ to <= 64
  BY <1>3
<1>5. PICK e \in Block64 : /\ e = Sph!Md!Memcpy(c, at, Sph!Md!Zeros(to - at))
                           /\ \A i \in 1..at : e[i] = c[i]
                           /\ \A i \in at + 1..to : e[i] = 0
  BY <1>4, ClearIs
<1>6. PICK l : l = LengthOf(n) /\ IsLength(l, n)
  BY LengthBytes DEF LengthOf
<1>7. l \in Bytes(32)
  BY <1>6 DEF IsLength
<1>8. PICK b \in Block64 : /\ b = Sph!Md!Memcpy(e, 32, l)
                           /\ \A i \in 1..32 : b[i] = e[i]
                           /\ \A i \in 1..32 : b[32 + i] = l[i]
  BY <1>7, LengthIn
<1>9. Sph!Md!current(sc) = r
  BY CurrentOf
<1>10. PICK pad : pad = Sph!Md!Padded(sc)
  OBVIOUS
<1>11. pad = [buf |-> Sph!Md!Memcpy(c, r + 1, Sph!Md!Zeros(32 - (r + 1))), val |-> sc.val]
  BY <1>2, <1>9, <1>10, PadOne
<1>12. pad.buf = e /\ pad.val = Chunks(d, q)
  <2>1. sc.val = Chunks(d, q)
    BY DEF HasTaken
  <2>2. pad.buf = Sph!Md!Memcpy(c, r + 1, Sph!Md!Zeros(32 - (r + 1))) /\ pad.val = sc.val
    BY <1>11
  <2> QED
    BY <1>3, <1>4, <1>5, <2>1, <2>2
<1>13. Sph!Md!addbits_and_close(sc).val = Append(Chunks(d, q), b)
  <2>1. sc.count = n /\ IsObject(sc)
    BY DEF HasTaken
  <2>2. Sph!Md!addbits_and_close(sc).val
          = Append(pad.val, Sph!Md!Memcpy(pad.buf, 32, LengthOf(n)))
    BY <1>10, <2>1, CloseVal
  <2> QED
    BY <1>6, <1>8, <1>12, <2>2
<1>14. p \in Bytes(64 * N)
  BY DEF Pads
<1>15. ASSUME NEW i \in 1..64 PROVE b[i] = p[64 * q + i]
  <2>1. CASE i <= r
    <3>1. i \in 1..32 /\ i \in 1..at /\ i \in 1..r /\ 64 * q + i \in 1..n
      BY <1>3, <2>1
    <3>2. b[i] = d[64 * q + i]
      BY <1>2, <1>5, <1>8, <3>1
    <3>3. p[64 * q + i] = d[64 * q + i]
      BY <3>1 DEF Pads
    <3> QED
      BY <3>2, <3>3
  <2>2. CASE i = r + 1
    <3>1. i \in 1..32 /\ i \in 1..at /\ 64 * q + i = n + 1
      BY <1>3, <2>2
    <3>2. b[i] = 128
      BY <1>2, <1>5, <1>8, <2>2, <3>1
    <3>3. p[n + 1] = 128
      BY DEF Pads
    <3> QED
      BY <3>1, <3>2, <3>3
  <2>3. CASE i > r + 1 /\ i <= 32
    <3>1. i \in 1..32 /\ i \in at + 1..to /\ 64 * q + i \in n + 2..64 * N - 32
      BY <1>1, <1>3, <1>4, <2>3
    <3>2. b[i] = 0
      BY <1>5, <1>8, <3>1
    <3>3. p[64 * q + i] = 0
      BY <3>1 DEF Pads
    <3> QED
      BY <3>2, <3>3
  <2>4. CASE i > 32
    <3>1. PICK j \in 1..32 : i = 32 + j
      BY <2>4
    <3>2. b[i] = l[j]
      BY <1>8, <3>1
    <3>3. 64 * q + i = 64 * N - 32 + j
      BY <1>1, <3>1
    <3>4. PICK t : t = [k \in 1..32 |-> p[64 * N - 32 + k]] /\ IsLength(t, n)
      BY DEF Pads
    <3>5. t[j] = l[j]
      BY <1>6, <3>4, SameLength
    <3> QED
      BY <3>2, <3>3, <3>4, <3>5
  <2>5. i <= r \/ i = r + 1 \/ (i > r + 1 /\ i <= 32) \/ i > 32
    OBVIOUS
  <2> QED
    BY <2>1, <2>2, <2>3, <2>4, <2>5, Zenon
<1>16. b = Chunk(p, q)
  BY <1>1, <1>14, <1>15, BlockIs
<1>17. Chunks(d, q) = Chunks(p, q)
  BY <1>1, PaddedChunks
<1>18. Append(Chunks(p, q), Chunk(p, q)) = Chunks(p, q + 1)
  <2>1. PICK m \in Nat : m = 64 * N
    OBVIOUS
  <2>2. p \in Bytes(m) /\ 64 * q + 64 <= m
    BY <1>1, <1>14, <2>1
  <2> QED
    BY <2>2, ChunksNext
<1> QED
  BY <1>1, <1>13, <1>16, <1>17, <1>18

\* Closed in two blocks.
LEMMA CloseTwo ==
  ASSUME NEW n \in Nat, 8 * n < Sph!CountBound, NEW d \in Bytes(n), NEW q \in Nat, NEW r \in Nat,
         n = 64 * q + r, r < 64, r + 1 > 32, NEW sc, HasTaken(sc, d, q, r),
         NEW N \in Nat, NEW p, Pads(p, d, n, N)
  PROVE  Sph!Md!addbits_and_close(sc).val = Chunks(p, N)
<1>1. N = q + 2 /\ 64 * N = 64 * q + 128 /\ 64 * q <= n
  <2>1. 64 * N - 64 < n + 33 /\ n + 33 <= 64 * N
    BY DEF Pads
  <2> QED
    BY <2>1
<1>2. PICK c \in Block64 : /\ c = Sph!Md!Memcpy(sc.buf, r, << 128 >>)
                           /\ c[r + 1] = 128 /\ \A i \in 1..r : c[i] = d[64 * q + i]
  BY MarkIs
<1>3. PICK at \in Nat : at = r + 1
  OBVIOUS
<1>4. PICK to \in Nat : to = 64 /\ at <= to /\ to <= 64
  BY <1>3
<1>5. PICK e \in Block64 : /\ e = Sph!Md!Memcpy(c, at, Sph!Md!Zeros(to - at))
                           /\ \A i \in 1..at : e[i] = c[i]
                           /\ \A i \in at + 1..to : e[i] = 0
  BY <1>4, ClearIs
<1>6. PICK z \in Nat : z = 0
  OBVIOUS
<1>7. PICK h \in Nat : h = 32 /\ z <= h /\ h <= 64
  BY <1>6
<1>8. PICK G \in Block64 : /\ G = Sph!Md!Memcpy(e, z, Sph!Md!Zeros(h - z))
                           /\ \A i \in 1..z : G[i] = e[i]
                           /\ \A i \in z + 1..h : G[i] = 0
  BY <1>7, ClearIs
<1>9. PICK l : l = LengthOf(n) /\ IsLength(l, n)
  BY LengthBytes DEF LengthOf
<1>10. l \in Bytes(32)
  BY <1>9 DEF IsLength
<1>11. PICK b \in Block64 : /\ b = Sph!Md!Memcpy(G, 32, l)
                            /\ \A i \in 1..32 : b[i] = G[i]
                            /\ \A i \in 1..32 : b[32 + i] = l[i]
  BY <1>10, LengthIn
<1>12. Sph!Md!current(sc) = r
  BY CurrentOf
<1>13. PICK pad : pad = Sph!Md!Padded(sc)
  OBVIOUS
<1>14. e = Sph!Md!Memcpy(c, r + 1, Sph!Md!Zeros(64 - (r + 1)))
  BY <1>3, <1>4, <1>5
<1>15. pad = [buf |-> Sph!Md!Memcpy(e, 0, Sph!Md!Zeros(32)), val |-> Append(sc.val, e)]
  <2>1. FilledUp(sc, r) = e
    BY <1>2, <1>14 DEF FilledUp
  <2>2. Sph!Md!Padded(sc)
          = [buf |-> Sph!Md!Memcpy(FilledUp(sc, r), 0, Sph!Md!Zeros(32)),
             val |-> Append(sc.val, FilledUp(sc, r))]
    BY <1>12, PadTwo
  <2> QED
    BY <1>13, <2>1, <2>2, Zenon
<1>16. pad.buf = G /\ pad.val = Append(Chunks(d, q), e)
  <2>1. sc.val = Chunks(d, q)
    BY DEF HasTaken
  <2>2. pad.buf = Sph!Md!Memcpy(e, 0, Sph!Md!Zeros(32)) /\ pad.val = Append(sc.val, e)
    BY <1>15
  <2>3. h - z = 32
    BY <1>6, <1>7
  <2> QED
    BY <1>6, <1>8, <2>1, <2>2, <2>3
<1>17. Sph!Md!addbits_and_close(sc).val = Append(Append(Chunks(d, q), e), b)
  <2>1. sc.count = n /\ IsObject(sc)
    BY DEF HasTaken
  <2>2. Sph!Md!addbits_and_close(sc).val
          = Append(pad.val, Sph!Md!Memcpy(pad.buf, 32, LengthOf(n)))
    BY <1>13, <2>1, CloseVal
  <2> QED
    BY <1>9, <1>11, <1>16, <2>2
<1>18. p \in Bytes(64 * N)
  BY DEF Pads
<1>19. ASSUME NEW i \in 1..64 PROVE e[i] = p[64 * q + i]
  <2>1. CASE i <= r
    <3>1. i \in 1..at /\ i \in 1..r /\ 64 * q + i \in 1..n
      BY <1>3, <2>1
    <3>2. e[i] = d[64 * q + i]
      BY <1>2, <1>5, <3>1
    <3>3. p[64 * q + i] = d[64 * q + i]
      BY <3>1 DEF Pads
    <3> QED
      BY <3>2, <3>3
  <2>2. CASE i = r + 1
    <3>1. i \in 1..at /\ 64 * q + i = n + 1
      BY <1>3, <2>2
    <3>2. e[i] = 128
      BY <1>2, <1>5, <2>2, <3>1
    <3>3. p[n + 1] = 128
      BY DEF Pads
    <3> QED
      BY <3>1, <3>2, <3>3
  <2>3. CASE i > r + 1
    <3>1. i \in at + 1..to /\ 64 * q + i \in n + 2..64 * N - 32
      BY <1>1, <1>3, <1>4, <2>3
    <3>2. e[i] = 0
      BY <1>5, <3>1
    <3>3. p[64 * q + i] = 0
      BY <3>1 DEF Pads
    <3> QED
      BY <3>2, <3>3
  <2>4. i <= r \/ i = r + 1 \/ i > r + 1
    OBVIOUS
  <2> QED
    BY <2>1, <2>2, <2>3, <2>4, Zenon
<1>20. PICK o \in Nat : o = q + 1 /\ 64 * q + 64 = 64 * o /\ 64 * o + 64 = 64 * N /\ o + 1 = N
  BY <1>1
<1>21. ASSUME NEW i \in 1..64 PROVE b[i] = p[64 * o + i]
  <2>1. CASE i <= 32
    <3>1. i \in 1..32 /\ i \in z + 1..h /\ 64 * o + i \in n + 2..64 * N - 32
      BY <1>1, <1>6, <1>7, <1>20, <2>1
    <3>2. b[i] = 0
      BY <1>8, <1>11, <3>1
    <3>3. p[64 * o + i] = 0
      BY <3>1 DEF Pads
    <3> QED
      BY <3>2, <3>3
  <2>2. CASE i > 32
    <3>1. PICK j \in 1..32 : i = 32 + j
      BY <2>2
    <3>2. b[i] = l[j]
      BY <1>11, <3>1
    <3>3. 64 * o + i = 64 * N - 32 + j
      BY <1>20, <3>1
    <3>4. PICK t : t = [k \in 1..32 |-> p[64 * N - 32 + k]] /\ IsLength(t, n)
      BY DEF Pads
    <3>5. t[j] = l[j]
      BY <1>9, <3>4, SameLength
    <3> QED
      BY <3>2, <3>3, <3>4, <3>5
  <2>3. i <= 32 \/ i > 32
    OBVIOUS
  <2> QED
    BY <2>1, <2>2, <2>3, Zenon
<1>22. PICK m \in Nat : m = 64 * N
  OBVIOUS
<1>23. p \in Bytes(m) /\ 64 * q + 64 <= m /\ 64 * o + 64 <= m
  BY <1>1, <1>18, <1>20, <1>22
<1>24. e = Chunk(p, q)
  <2>1. 64 * q + 64 <= 64 * N
    BY <1>1
  <2> QED
    BY <1>18, <1>19, <2>1, BlockIs
<1>25. b = Chunk(p, o)
  <2>1. 64 * o + 64 <= 64 * N
    BY <1>20
  <2> QED
    BY <1>18, <1>21, <2>1, BlockIs
<1>26. Chunks(d, q) = Chunks(p, q)
  BY <1>1, PaddedChunks
<1>27. Append(Chunks(p, q), Chunk(p, q)) = Chunks(p, q + 1)
  BY <1>23, ChunksNext
<1>28. Append(Chunks(p, o), Chunk(p, o)) = Chunks(p, o + 1)
  BY <1>23, ChunksNext
<1> QED
  BY <1>17, <1>20, <1>24, <1>25, <1>26, <1>27, <1>28

\* The rounds get to see the blocks of the padded message.
LEMMA BlocksSeen ==
  ASSUME NEW n \in Nat, 8 * n < Sph!CountBound, NEW d \in Bytes(n),
         NEW N \in Nat, NEW p, Pads(p, d, n, N)
  PROVE  Sph!Blocks(d) = Chunks(p, N)
<1>1. PICK q \in Nat, r \in Nat : n = 64 * q + r /\ r < 64
  <2>1. n = 64 * (n \div 64) + (n % 64) /\ n \div 64 \in Nat /\ n % 64 \in Nat /\ n % 64 < 64
    OBVIOUS
  <2> QED
    BY <2>1
<1>2. n < Sph!CountBound
  BY SmallIs
<1>3. PICK sc : sc = Sph!Md!update(Sph!Fresh, d, TRUE)
  OBVIOUS
<1>4. HasTaken(sc, d, q, r)
  BY <1>1, <1>2, <1>3, SphUpdate
<1>5. r + 1 <= 32 \/ r + 1 > 32
  OBVIOUS
<1>6. Sph!Md!addbits_and_close(sc).val = Chunks(p, N)
  BY <1>1, <1>4, <1>5, CloseOne, CloseTwo
<1> QED
  BY <1>3, <1>6 DEF Sph!Blocks

-----------------------------------------------------------------------------
(* The digest of a message.                                                *)

\* f is the state after each block of p.
ChainOf(f, v, p, N) ==
  /\ f[0] = ZeroWords
  /\ \A i \in 0..N - 1 : f[i + 1] = Compress(v, Words(Chunk(p, i)), f[i])

\* There is one such chain only.
LEMMA OneChain ==
  ASSUME NEW v, NEW p, NEW N \in Nat, NEW f, ChainOf(f, v, p, N), NEW G, ChainOf(G, v, p, N)
  PROVE  f[N] = G[N]
<1> DEFINE T == {i \in Nat : i <= N => f[i] = G[i]}
<1>1. 0 \in T
  BY DEF ChainOf
<1>2. \A i \in Nat : i \in T => i + 1 \in T
  <2> SUFFICES ASSUME NEW i \in Nat, i \in T, i + 1 <= N PROVE f[i + 1] = G[i + 1]
    OBVIOUS
  <2>1. i \in 0..N - 1 /\ f[i] = G[i]
    OBVIOUS
  <2> QED
    BY <2>1 DEF ChainOf
<1> HIDE DEF T
<1>3. \A i \in Nat : i \in T
  BY <1>1, <1>2, SetInduction, Zenon
<1> QED
  BY <1>3 DEF T

\* The words of a block of bytes.
LEMMA ChunkWords ==
  ASSUME NEW c \in Block64 PROVE Words(c) \in Matrices /\ Sph!READ_DATA(c) = Words(c)
<1>1. \A i \in 1..64 : c[i] \in Byte
  BY DEF Block64, Bytes
<1> QED
  BY <1>1, WordsAre

\* The digest of a message comes from the blocks of the padded one.
LEMMA HashIs ==
  ASSUME NEW n \in Nat, 8 * n < Sph!CountBound, NEW d \in Bytes(n), NEW N \in Nat, NEW p,
         Pads(p, d, n, N), NEW v, IsVersion(v)
  PROVE  \E f \in [0..N -> Matrices] :
           ChainOf(f, v, p, N) /\ Sph!Hash(v, d) = Sph!Digest(f[N])
<1> DEFINE V == Matrices
           D(i) == Words(Chunk(p, i - 1))
           h == [z \in (1..N) \X V |-> Compress(v, D(z[1]), z[2])]
           a == ZeroWords
           seq == Sph!Blocks(d)
           Is(x) == x = [s \in SUBSET DOMAIN seq |->
                           IF s = {} THEN Sph!ZeroWords
                           ELSE Sph!ROUND_FUN(v, seq[Sph!Max(s)], x[s \ {Sph!Max(s)}])]
           x == CHOOSE y : Is(y)
<1>1. seq = Chunks(p, N)
  BY BlocksSeen
<1>2. IsChain(seq, N)
  <2>1. PICK m \in Nat : m = 64 * N
    OBVIOUS
  <2>2. p \in Bytes(m) /\ 64 * N <= m
    BY <2>1 DEF Pads
  <2>3. IsChain(Chunks(p, N), N)
    BY <2>2, ChunksAre
  <2> QED
    BY <1>1, <2>3
<1>3. DOMAIN seq = 1..N /\ \A i \in 1..N : seq[i] = Chunk(p, i - 1) /\ seq[i] \in Block64
  <2> HIDE DEF seq
  <2>1. DOMAIN seq = 1..N /\ \A i \in 1..N : seq[i] \in Block64
    BY <1>2 DEF IsChain
  <2>2. \A i \in 1..N : seq[i] = Chunk(p, i - 1)
    BY <1>1 DEF Chunks
  <2> QED
    BY <2>1, <2>2
<1>4. Sph!Hash(v, d) = Sph!Digest(x[DOMAIN seq])
  BY Zenon DEF Sph!Hash, Sph!FoldLeft, Sph!MapThenFoldSet
<1>5. \A s : Sph!Max(s) = Max(s)
  BY Zenon DEF Max, Sph!Max
<1> HIDE DEF seq
<1>6. ASSUME NEW i \in 1..N
      PROVE  D(i) \in Matrices /\ \A w : Sph!ROUND_FUN(v, seq[i], w) = Compress(v, D(i), w)
  <2>1. PICK c \in Block64 : c = seq[i] /\ c = Chunk(p, i - 1)
    BY <1>3
  <2>2. Words(c) \in Matrices /\ Sph!READ_DATA(c) = Words(c)
    BY ChunkWords
  <2>3. \A w : Sph!ROUND_FUN(v, c, w) = Compress(v, Sph!READ_DATA(c), w)
    BY RoundFunIs
  <2> QED
    BY <2>1, <2>2, <2>3
<1> HIDE DEF D
<1>7. \A i \in 1..N : \A w \in V : h[<<i, w>>] = Compress(v, D(i), w) /\ Compress(v, D(i), w) \in V
  <2> SUFFICES ASSUME NEW i \in 1..N, NEW w \in V
               PROVE  h[<<i, w>>] = Compress(v, D(i), w) /\ Compress(v, D(i), w) \in V
    OBVIOUS
  <2>1. <<i, w>> \in (1..N) \X V /\ <<i, w>>[2] = w /\ <<i, w>>[1] = i
    OBVIOUS
  <2>2. PICK m \in Matrices : m = D(i)
    BY <1>6
  <2>3. Compress(v, m, w) \in V
    BY CompressIs
  <2> HIDE DEF V
  <2>4. h[<<i, w>>] = Compress(v, D(i), w)
    BY <2>1, Zenon
  <2> QED
    BY <2>2, <2>3, <2>4
<1>8. a \in V
  BY ZeroIs
<1> HIDE DEF h, V, a
<1>9. Closed(h, 1..N, V)
  BY <1>7 DEF Closed
<1>10. PICK G \in [SUBSET (1..N) -> V] : FoldsBy(G, a, h, N)
  BY <1>8, <1>9, FoldMade
<1>11. ASSUME NEW s \in SUBSET (1..N), s # {}, NEW w \in V
       PROVE  h[<<Max(s), w>>] = Sph!ROUND_FUN(v, seq[Sph!Max(s)], w)
  <2>1. Max(s) \in 1..N
    BY <1>11, MaxOf
  <2> QED
    BY <1>5, <1>6, <1>7, <2>1
<1>12. Is(G)
  <2>1. ASSUME NEW s \in SUBSET (1..N)
        PROVE  (IF s = {} THEN a ELSE h[<<Max(s), G[s \ {Max(s)}]>>])
                 = (IF s = {} THEN Sph!ZeroWords
                    ELSE Sph!ROUND_FUN(v, seq[Sph!Max(s)], G[s \ {Sph!Max(s)}]))
    <3>1. CASE s = {}
      BY <3>1, SphSame DEF a
    <3>2. CASE s # {}
      <4>1. G[s \ {Max(s)}] \in V
        OBVIOUS
      <4> QED
        BY <1>5, <1>11, <3>2, <4>1
    <3> QED
      BY <3>1, <3>2
  <2> QED
    BY <1>3, <1>10, <2>1 DEF FoldsBy
<1> HIDE DEF Is
<1>13. Is(x)
  BY <1>12, Zenon
<1> HIDE DEF x
<1>14. x = [s \in SUBSET (1..N) |-> IF s = {} THEN Sph!ZeroWords
                                    ELSE Sph!ROUND_FUN(v, seq[Sph!Max(s)], x[s \ {Sph!Max(s)}])]
  BY <1>3, <1>13 DEF Is
<1>15. FoldsLike(x, a, h, N, V)
  <2>1. x[{}] = a
    BY <1>14, SphSame DEF a
  <2>2. ASSUME NEW s \in SUBSET (1..N), s # {}, x[s \ {Max(s)}] \in V
        PROVE  x[s] = h[<<Max(s), x[s \ {Max(s)}]>>]
    <3>1. x[s] = Sph!ROUND_FUN(v, seq[Sph!Max(s)], x[s \ {Sph!Max(s)}])
      BY <1>14, <2>2
    <3> QED
      BY <1>5, <1>11, <2>2, <3>1
  <2>3. ASSUME NEW s \in SUBSET (1..N) PROVE OneStepOn(x, h, V, s)
    BY <2>2 DEF OneStepOn
  <2> QED
    BY <2>1, <2>3 DEF FoldsLike
<1>16. PICK f \in [0..N -> V] : Goes(f, a, h, N) /\ x[1..N] = f[N]
  BY <1>8, <1>9, <1>15, FoldGoes
<1>17. ChainOf(f, v, p, N)
  <2>1. ASSUME NEW i \in 0..N - 1 PROVE f[i + 1] = Compress(v, Words(Chunk(p, i)), f[i])
    <3>1. i \in 0..N /\ i + 1 \in 1..N /\ (i + 1) - 1 = i
      OBVIOUS
    <3>2. f[i + 1] = h[<<i + 1, f[i]>>] /\ f[i] \in V
      BY <1>16, <3>1 DEF Goes
    <3>3. f[i + 1] = Compress(v, D(i + 1), f[i])
      BY <1>7, <3>1, <3>2
    <3> QED
      BY <3>1, <3>3 DEF D
  <2> QED
    BY <1>16, <2>1 DEF ChainOf, Goes, a
<1> QED
  BY <1>3, <1>4, <1>16, <1>17 DEF V

-----------------------------------------------------------------------------
(* Headers of 80 bytes.                                                    *)

\* The second block of a header.
Second(h) ==
  [i \in 1..64 |-> IF i <= 16 THEN h[64 + i] ELSE IF i = 17 THEN 128
                   ELSE IF i = 63 THEN 2 ELSE IF i = 64 THEN 128 ELSE 0]

\* The state after the first block, and after the second.
Mid(h) == Compress(Sph!plain, Words(Chunk(h, 0)), ZeroWords)
End(h) == Compress(Sph!plain, Words(Second(h)), Mid(h))

\* Numbers of bytes.
LEMMA SomeBytes == 0 \in Byte /\ 128 \in Byte /\ 2 \in Byte
  BY DEF Byte

\* The blocks are blocks, the states are states.
LEMMA HeaderStates ==
  ASSUME NEW h \in Bytes(80)
  PROVE  /\ Chunk(h, 0) \in Block64 /\ Second(h) \in Block64
         /\ Mid(h) \in Matrices /\ End(h) \in Matrices
<1>1. Second(h) \in Block64
  <2>1. \A i \in 1..16 : h[64 + i] \in Byte
    BY DEF Bytes
  <2> QED
    BY <2>1, SomeBytes DEF Second, Block64, Bytes
<1>2. Chunk(h, 0) \in Block64
  <2>1. PICK n \in Nat : n = 80
    OBVIOUS
  <2>2. PICK b \in Nat : b = 0
    OBVIOUS
  <2>3. h \in Bytes(n) /\ 64 * b + 64 <= n
    BY <2>1, <2>2
  <2>4. Chunk(h, b) \in Block64
    BY <2>3, ChunkIs
  <2> QED
    BY <2>2, <2>4
<1>3. IsVersion(Sph!plain)
  BY Versions3
<1>4. Words(Chunk(h, 0)) \in Matrices /\ Words(Second(h)) \in Matrices
  BY <1>1, <1>2, ChunkWords
<1>5. Mid(h) \in Matrices
  BY <1>3, <1>4, ZeroIs, CompressIs DEF Mid
<1>6. End(h) \in Matrices
  BY <1>3, <1>4, <1>5, CompressIs DEF End
<1> QED
  BY <1>1, <1>2, <1>5, <1>6

\* A header of 80 bytes takes two blocks, and 640 bits are written down.
LEMMA HeaderPads ==
  ASSUME NEW h \in Bytes(80)
  PROVE  \E p : Pads(p, h, 80, 2) /\ Chunk(p, 0) = Chunk(h, 0) /\ Chunk(p, 1) = Second(h)
<1>1. PICK p : p = [i \in 1..128 |-> IF i <= 80 THEN h[i] ELSE IF i = 81 THEN 128
                                     ELSE IF i = 127 THEN 2 ELSE IF i = 128 THEN 128 ELSE 0]
  OBVIOUS
<1>2. p \in Bytes(64 * 2)
  <2>1. \A i \in 1..80 : h[i] \in Byte
    BY DEF Bytes
  <2>2. 64 * 2 = 128
    OBVIOUS
  <2> QED
    BY <1>1, <2>1, <2>2, SomeBytes DEF Bytes
<1>3. /\ \A i \in 1..80 : p[i] = h[i]
      /\ p[81] = 128 /\ p[127] = 2 /\ p[128] = 128
      /\ \A i \in 82..126 : p[i] = 0
  BY <1>1
<1>4. IsLength([i \in 1..32 |-> p[64 * 2 - 32 + i]], 80)
  <2>1. PICK e : e = [i \in 1..32 |-> p[64 * 2 - 32 + i]]
    OBVIOUS
  <2>2. \A i \in 1..32 : e[i] = p[96 + i] /\ 96 + i \in 1..128
    BY <2>1
  <2>3. e \in Bytes(32)
    BY <1>2, <2>1, <2>2 DEF Bytes
  <2>4. ASSUME NEW i \in 1..29 PROVE e[i] = 0
    <3>1. 96 + i \in 82..126
      OBVIOUS
    <3> QED
      BY <1>3, <2>2, <3>1
  <2>5. e[30] = 0 /\ e[31] = 2 /\ e[32] = 128
    <3>1. 96 + 30 = 126 /\ 96 + 31 = 127 /\ 96 + 32 = 128
      OBVIOUS
    <3> QED
      BY <1>3, <2>2, <3>1
  <2>6. /\ (((8 * 80) \div 256) \div 256) % 256 = 0
        /\ ((8 * 80) \div 256) % 256 = 2 /\ (8 * 80) % 256 = 128
    OBVIOUS
  <2> QED
    BY <2>1, <2>3, <2>4, <2>5, <2>6 DEF IsLength
<1>5. Pads(p, h, 80, 2)
  <2>1. p[80 + 1] = 128
    BY <1>3
  <2>2. \A i \in 80 + 2..64 * 2 - 32 : p[i] = 0
    BY <1>3
  <2> QED
    BY <1>2, <1>3, <1>4, <2>1, <2>2 DEF Pads
<1>6. Chunk(p, 0) = Chunk(h, 0)
  <2>1. \A i \in 1..64 : p[64 * 0 + i] = h[64 * 0 + i]
    BY <1>3
  <2> QED
    BY <2>1 DEF Chunk
<1>7. Chunk(p, 1) = Second(h)
  <2>1. ASSUME NEW i \in 1..64
        PROVE  p[64 * 1 + i] = IF i <= 16 THEN h[64 + i] ELSE IF i = 17 THEN 128
                               ELSE IF i = 63 THEN 2 ELSE IF i = 64 THEN 128 ELSE 0
    <3>1. 64 * 1 + i \in 1..128 /\ 64 * 1 + i = 64 + i
      OBVIOUS
    <3> QED
      BY <1>1, <3>1
  <2> QED
    BY <2>1 DEF Chunk, Second
<1> QED
  BY <1>5, <1>6, <1>7

\* What the CPU makes of a header.
LEMMA HeaderHash ==
  ASSUME NEW h \in Bytes(80) PROVE Sph!Whirlpool512(h) = Sph!Digest(End(h))
<1>1. PICK p : Pads(p, h, 80, 2) /\ Chunk(p, 0) = Chunk(h, 0) /\ Chunk(p, 1) = Second(h)
  BY HeaderPads
<1>2. PICK n \in Nat : n = 80
  OBVIOUS
<1>3. PICK N \in Nat : N = 2
  OBVIOUS
<1>4. 8 * n < Sph!CountBound /\ h \in Bytes(n) /\ Pads(p, h, n, N)
  BY <1>1, <1>2, <1>3, SpanIs
<1>5. PICK v : v = Sph!plain /\ IsVersion(v)
  BY Versions3
<1>6. PICK f \in [0..N -> Matrices] : ChainOf(f, v, p, N) /\ Sph!Hash(v, h) = Sph!Digest(f[N])
  BY <1>4, <1>5, HashIs
<1>7. f[1] = Mid(h)
  <2>1. 0 \in 0..N - 1 /\ 0 + 1 = 1
    BY <1>3
  <2>2. f[1] = Compress(v, Words(Chunk(p, 0)), f[0]) /\ f[0] = ZeroWords
    BY <1>6, <2>1 DEF ChainOf
  <2> QED
    BY <1>1, <1>5, <2>2 DEF Mid
<1>8. f[2] = End(h)
  <2>1. 1 \in 0..N - 1 /\ 1 + 1 = 2
    BY <1>3
  <2>2. f[2] = Compress(v, Words(Chunk(p, 1)), f[1])
    BY <1>6, <2>1 DEF ChainOf
  <2> QED
    BY <1>1, <1>5, <1>7, <2>2 DEF End
<1> QED
  BY <1>3, <1>5, <1>6, <1>8 DEF Sph!Whirlpool512

\* Folding four words of a state is folding 32 bytes of the digest.
LEMMA FoldedIs ==
  ASSUME NEW s \in Matrices
  PROVE  Bytes32(FoldedWords(s))
           = [i \in 1..32 |-> Sph!XorByte(Sph!Digest(s)[i], Sph!Digest(s)[i + 32])]
<1>1. ASSUME NEW i \in 1..32
      PROVE  FoldedWords(s)[((i - 1) \div 8) + 1][((i - 1) % 8) + 1]
               = Sph!XorByte(Sph!Digest(s)[i], Sph!Digest(s)[i + 32])
  <2>1. PICK j \in 1..4 : j = ((i - 1) \div 8) + 1
    <3>1. ((i - 1) \div 8) + 1 \in 1..4
      OBVIOUS
    <3> QED
      BY <3>1
  <2>2. PICK k \in 1..8 : k = ((i - 1) % 8) + 1
    <3>1. ((i - 1) % 8) + 1 \in 1..8
      OBVIOUS
    <3> QED
      BY <3>1
  <2>3. (i + 32) - 1 = i + 31 /\ (i + 31) \div 8 = ((i - 1) \div 8) + 4 /\ (i + 31) % 8 = (i - 1) % 8
    OBVIOUS
  <2>4. FoldedWords(s)[j] = XorWord(s[j], s[j + 4])
    BY DEF FoldedWords
  <2>5. s[j] \in ByteWord /\ s[j + 4] \in ByteWord
    BY DEF Matrices, ByteWord
  <2>6. XorWord(s[j], s[j + 4])[k] = XorByte(s[j][k], s[j + 4][k])
    BY <2>5, XorWordIs
  <2>7. Sph!Digest(s)[i] = s[j][k]
    <3>1. i \in 1..64
      OBVIOUS
    <3> QED
      BY <2>1, <2>2, <3>1 DEF Sph!Digest
  <2>8. Sph!Digest(s)[i + 32] = s[j + 4][k]
    <3>1. i + 32 \in 1..64
      OBVIOUS
    <3>2. Sph!Digest(s)[i + 32] = s[(((i + 32) - 1) \div 8) + 1][(((i + 32) - 1) % 8) + 1]
      BY <3>1 DEF Sph!Digest
    <3>3. (((i + 32) - 1) \div 8) + 1 = j + 4 /\ (((i + 32) - 1) % 8) + 1 = k
      BY <2>1, <2>2, <2>3
    <3> QED
      BY <3>2, <3>3
  <2> QED
    BY <2>1, <2>2, <2>4, <2>6, <2>7, <2>8, SphSums
<1> QED
  BY <1>1 DEF Bytes32

\* The verifier's hash.
LEMMA PowHash ==
  ASSUME NEW h \in Bytes(80) PROVE Sph!cap_pow_hash_header80(h) = Bytes32(FoldedWords(End(h)))
<1>1. End(h) \in Matrices
  BY HeaderStates
<1>2. Bytes32(FoldedWords(End(h)))
        = [i \in 1..32 |-> Sph!XorByte(Sph!Digest(End(h))[i], Sph!Digest(End(h))[i + 32])]
  BY <1>1, FoldedIs
<1>3. Sph!Whirlpool512(h) = Sph!Digest(End(h))
  BY HeaderHash
<1> QED
  BY <1>2, <1>3 DEF Sph!cap_pow_hash_header80

-----------------------------------------------------------------------------
(* The two paths of the GPU.                                               *)

\* The whole header at once.
LEMMA PlainPath ==
  ASSUME NEW h \in Bytes(80) PROVE cap_whirlpool80_cuda(h) = Bytes32(FoldedWords(End(h)))
<1> DEFINE zeros == [i \in 1..45 |-> 0]
           b == SubSeq(h, 65, 80) \o << 128 >> \o zeros \o <<2, 128>>
<1>1. b = Second(h)
  <2>1. PICK o \in Nat : o = 64
    OBVIOUS
  <2>2. PICK l \in Nat : l = 16
    OBVIOUS
  <2>3. PICK n \in Nat : n = 80
    OBVIOUS
  <2>4. PICK e : e = SubSeq(h, o + 1, o + l)
    OBVIOUS
  <2>5. Cut(e, h, o, l)
    <3>1. o + l <= n /\ h \in Bytes(n)
      BY <2>1, <2>2, <2>3
    <3> QED
      BY <2>4, <3>1, CutIs
  <2>6. PICK x \in Nat : x = 1
    OBVIOUS
  <2>33. PICK m : m = << 128 >>
    OBVIOUS
  <2>7. m = << 128 >> /\ m \in Bytes(x) /\ m[1] = 128
    BY <2>6, <2>33, SomeBytes DEF Bytes
  <2>8. PICK y \in Nat : y = 45
    OBVIOUS
  <2>34. PICK z : z = zeros
    OBVIOUS
  <2>9. z = zeros /\ z \in Bytes(y) /\ \A i \in 1..45 : z[i] = 0
    BY <2>8, <2>34, SomeBytes DEF Bytes
  <2>10. PICK w \in Nat : w = 2
    OBVIOUS
  <2>35. PICK t : t = <<2, 128>>
    OBVIOUS
  <2>11. t = <<2, 128>> /\ t \in Bytes(w) /\ t[1] = 2 /\ t[2] = 128
    BY <2>10, <2>35, SomeBytes DEF Bytes
  <2>12. e \in Bytes(l)
    BY <2>5 DEF Cut
  <2>13. PICK c : c = e \o m /\ c \in Bytes(l + x) /\ Holds(c, 0, e, l) /\ Holds(c, l, m, x)
    BY <2>7, <2>12, JoinedIs
  <2>14. PICK k \in Nat : k = l + x
    OBVIOUS
  <2>15. PICK f : f = c \o z /\ f \in Bytes(k + y) /\ Holds(f, 0, c, k) /\ Holds(f, k, z, y)
    <3>1. c \in Bytes(k)
      BY <2>13, <2>14
    <3> QED
      BY <2>9, <3>1, JoinedIs
  <2>16. PICK j \in Nat : j = k + y
    OBVIOUS
  <2>17. PICK G : G = f \o t /\ G \in Bytes(j + w) /\ Holds(G, 0, f, j) /\ Holds(G, j, t, w)
    <3>1. f \in Bytes(j)
      BY <2>15, <2>16
    <3> QED
      BY <2>11, <3>1, JoinedIs
  <2>18. l = 16 /\ k = 17 /\ j = 62 /\ j + w = 64
    BY <2>2, <2>6, <2>8, <2>10, <2>14, <2>16
  <2>19. ASSUME NEW i \in 1..62 PROVE G[i] = f[i]
    <3>1. i \in 1..j /\ 0 + i = i
      BY <2>18
    <3>2. G[0 + i] = f[i]
      BY <2>17, <3>1 DEF Holds
    <3> QED
      BY <3>1, <3>2
  <2>20. ASSUME NEW i \in 1..17 PROVE f[i] = c[i]
    <3>1. i \in 1..k /\ 0 + i = i
      BY <2>18
    <3>2. f[0 + i] = c[i]
      BY <2>15, <3>1 DEF Holds
    <3> QED
      BY <3>1, <3>2
  <2>21. ASSUME NEW i \in 1..16 PROVE c[i] = h[64 + i]
    <3>1. i \in 1..l /\ 0 + i = i
      BY <2>18
    <3>2. c[0 + i] = e[i]
      BY <2>13, <3>1 DEF Holds
    <3>3. h[o + i] = e[i]
      BY <2>5, <3>1 DEF Cut, Holds
    <3> QED
      BY <2>1, <3>1, <3>2, <3>3
  <2>22. ASSUME NEW i \in 1..64 PROVE G[i] = Second(h)[i]
    <3>1. CASE i \in 1..16
      <4>1. i \in 1..17 /\ i \in 1..62
        BY <3>1
      <4>2. G[i] = h[64 + i]
        BY <2>19, <2>20, <2>21, <3>1, <4>1
      <4> QED
        BY <3>1, <4>2 DEF Second
    <3>2. CASE i = 17
      <4>1. 17 \in 1..17 /\ 17 \in 1..62 /\ 1 \in 1..x
        BY <2>6
      <4>2. c[l + 1] = m[1]
        BY <2>13, <4>1 DEF Holds
      <4>3. G[17] = 128
        BY <2>7, <2>18, <2>19, <2>20, <4>1, <4>2
      <4> QED
        BY <3>2, <4>3 DEF Second
    <3>3. CASE i \in 18..62
      <4>1. PICK u \in 1..45 : i = 17 + u
        BY <3>3
      <4>2. u \in 1..y /\ i \in 1..62
        BY <2>8, <3>3
      <4>3. f[k + u] = z[u]
        BY <2>15, <4>2 DEF Holds
      <4>4. G[i] = 0
        BY <2>9, <2>18, <2>19, <4>1, <4>2, <4>3
      <4> QED
        BY <3>3, <4>4 DEF Second
    <3>4. CASE i = 63
      <4>1. 1 \in 1..w
        BY <2>10
      <4>2. G[j + 1] = t[1]
        BY <2>17, <4>1 DEF Holds
      <4>3. G[63] = 2
        BY <2>11, <2>18, <4>2
      <4> QED
        BY <3>4, <4>3 DEF Second
    <3>5. CASE i = 64
      <4>1. 2 \in 1..w
        BY <2>10
      <4>2. G[j + 2] = t[2]
        BY <2>17, <4>1 DEF Holds
      <4>3. G[64] = 128
        BY <2>11, <2>18, <4>2
      <4> QED
        BY <3>5, <4>3 DEF Second
    <3> QED
      BY <3>1, <3>2, <3>3, <3>4, <3>5
  <2>23. G \in Bytes(64)
    BY <2>17, <2>18
  <2>24. Second(h) \in Bytes(64)
    BY HeaderStates DEF Block64
  <2>25. PICK a \in Bytes(64) : a = Second(h)
    BY <2>24
  <2>26. PICK q \in Nat : q = 64
    OBVIOUS
  <2>27. G = Second(h)
    <3>1. G \in Bytes(q) /\ a \in Bytes(q) /\ \A i \in 1..q : G[i] = a[i]
      BY <2>22, <2>23, <2>25, <2>26
    <3>2. G = a
      BY <3>1, SameBytes
    <3> QED
      BY <2>25, <3>2
  <2>28. SubSeq(h, 65, 80) = e
    BY <2>1, <2>2, <2>4
  <2>29. b = e \o m \o z \o t
    BY <2>7, <2>9, <2>11, <2>28
  <2> QED
    BY <2>13, <2>15, <2>17, <2>27, <2>29
<1>2. SubSeq(h, 1, 64) = Chunk(h, 0)
  <2>1. PICK n \in Nat : n = 80
    OBVIOUS
  <2>2. PICK o \in Nat : o = 0
    OBVIOUS
  <2>3. h \in Bytes(n) /\ 64 * o + 64 <= n
    BY <2>1, <2>2
  <2>4. SubSeq(h, 64 * o + 1, 64 * o + 64) = Chunk(h, o)
    BY <2>3, ChunkIs
  <2> QED
    BY <2>2, <2>4
<1>3. whirlpool_compress_cuda(SubSeq(h, 1, 64), ZeroWords) = Mid(h)
  BY <1>2, CudaCompress DEF Mid
<1>4. whirlpool_compress_cuda(b, Mid(h)) = End(h)
  BY <1>1, CudaCompress DEF End
<1> HIDE DEF b
<1>5. cap_whirlpool80_cuda(h)
        = Bytes32(FoldedWords(whirlpool_compress_cuda(b,
                           whirlpool_compress_cuda(SubSeq(h, 1, 64), ZeroWords))))
  BY DEF cap_whirlpool80_cuda, FoldedWords, b
<1> QED
  BY <1>3, <1>4, <1>5

\* The nonce is a number of four bytes.
LEMMA NonceBytes ==
  ASSUME NEW n \in Nat PROVE write_le32(n) \in Bytes(4) /\ LowFirst(n) = write_le32(n)
<1>1. \A k \in Nat : k % 256 \in Byte
  BY DEF Byte
<1>2. LowFirst(n) = write_le32(n)
  BY DEF LowFirst, write_le32
<1>3. PICK x, y, z : x = (n \div 256) % 256 /\ y = (n \div 65536) % 256 /\ z = (n \div 16777216) % 256
  OBVIOUS
<1>4. n \div 256 \in Nat /\ n \div 65536 \in Nat /\ n \div 16777216 \in Nat
  BY SMT
<1>5. x \in Byte /\ y \in Byte /\ z \in Byte /\ n % 256 \in Byte
  BY <1>1, <1>3, <1>4
<1>6. write_le32(n) = <<n % 256, x, y, z>>
  BY <1>3 DEF write_le32
<1> QED
  BY <1>2, <1>5, <1>6 DEF Bytes

\* A header with its nonce.
LEMMA NonceIn ==
  ASSUME NEW h \in Bytes(80), NEW n \in Nat
  PROVE  /\ WithNonce(h, n) \in Bytes(80) /\ Mid(WithNonce(h, n)) = Mid(h)
         /\ \A i \in 1..76 : WithNonce(h, n)[i] = h[i]
         /\ \A i \in 1..4 : WithNonce(h, n)[76 + i] = LowFirst(n)[i]
<1>1. PICK o \in Nat : o = 0
  OBVIOUS
<1>2. PICK k \in Nat : k = 76
  OBVIOUS
<1>3. PICK l \in Nat : l = 80
  OBVIOUS
<1>4. PICK e : e = SubSeq(h, o + 1, o + k)
  OBVIOUS
<1>5. Cut(e, h, o, k)
  <2>1. o + k <= l /\ h \in Bytes(l)
    BY <1>1, <1>2, <1>3
  <2> QED
    BY <1>4, <2>1, CutIs
<1>6. e \in Bytes(k)
  BY <1>5 DEF Cut
<1>7. PICK m \in Nat : m = 4
  OBVIOUS
<1>8. PICK w : w = write_le32(n) /\ w \in Bytes(m)
  BY <1>7, NonceBytes
<1>9. PICK c : c = e \o w /\ c \in Bytes(k + m) /\ Holds(c, 0, e, k) /\ Holds(c, k, w, m)
  BY <1>6, <1>8, JoinedIs
<1>10. c = WithNonce(h, n)
  BY <1>1, <1>2, <1>4, <1>8, <1>9 DEF WithNonce
<1>11. c \in Bytes(80)
  BY <1>2, <1>7, <1>9
<1>12. ASSUME NEW i \in 1..76 PROVE c[i] = h[i]
  <2>1. i \in 1..k /\ 0 + i = i /\ o + i = i
    BY <1>1, <1>2
  <2>2. c[0 + i] = e[i] /\ h[o + i] = e[i]
    BY <1>5, <1>9, <2>1 DEF Cut, Holds
  <2> QED
    BY <2>1, <2>2
<1>13. ASSUME NEW i \in 1..4 PROVE c[76 + i] = LowFirst(n)[i]
  <2>1. c[k + i] = w[i]
    BY <1>7, <1>9 DEF Holds
  <2> QED
    BY <1>2, <1>8, <2>1, NonceBytes
<1>14. Mid(c) = Mid(h)
  <2>1. \A i \in 1..64 : c[64 * 0 + i] = h[64 * 0 + i]
    BY <1>12
  <2>2. Chunk(c, 0) = Chunk(h, 0)
    BY <2>1 DEF Chunk
  <2> QED
    BY <2>2 DEF Mid
<1> QED
  BY <1>10, <1>11, <1>12, <1>13, <1>14

-----------------------------------------------------------------------------
(* The second block of a prepared header.                                  *)

\* Words agree that agree byte by byte.
LEMMA SameWord ==
  ASSUME NEW a \in ByteWord, NEW b \in ByteWord, \A i \in 0..7 : a[i + 1] = b[i + 1]
  PROVE  a = b
<1>1. \A i \in 1..8 : a[i] = b[i]
  <2> SUFFICES ASSUME NEW i \in 1..8 PROVE a[i] = b[i]
    OBVIOUS
  <2>1. i - 1 \in 0..7 /\ (i - 1) + 1 = i
    OBVIOUS
  <2> QED
    BY <2>1
<1> QED
  BY <1>1 DEF ByteWord

\* ByteWord j of a block.
LEMMA RowIs ==
  ASSUME NEW s \in Block64, NEW j \in 0..7
  PROVE  Words(s)[j + 1] \in ByteWord /\ \A i \in 0..7 : Words(s)[j + 1][i + 1] = s[8 * j + i + 1]
<1>1. \A i \in 1..64 : s[i] \in Byte
  BY DEF Block64, Bytes
<1>2. Words(s) \in Matrices /\ \A i \in 0..7 : Words(s)[j + 1][i + 1] = s[8 * j + i + 1]
  BY <1>1, WordsAre
<1>3. j + 1 \in 1..8
  OBVIOUS
<1> QED
  BY <1>2, <1>3 DEF Matrices, ByteWord

\* The halves of the block that are prepared hold the header's bytes.
HalvesOf(h, w0, nbits) == w0 = SubSeq(h, 65, 72) /\ nbits = SubSeq(h, 73, 76)

\* What the two halves are.
LEMMA HalvesAre ==
  ASSUME NEW h \in Bytes(80), NEW w0, NEW nbits, HalvesOf(h, w0, nbits)
  PROVE  /\ w0 \in ByteWord /\ \A i \in 0..7 : w0[i + 1] = h[64 + i + 1]
         /\ nbits \in Bytes(4) /\ \A i \in 1..4 : nbits[i] = h[72 + i]
<1>1. PICK n \in Nat : n = 80
  OBVIOUS
<1>2. PICK o \in Nat : o = 64
  OBVIOUS
<1>3. PICK k \in Nat : k = 8
  OBVIOUS
<1>4. PICK p \in Nat : p = 72
  OBVIOUS
<1>5. PICK l \in Nat : l = 4
  OBVIOUS
<1>6. w0 = SubSeq(h, o + 1, o + k) /\ nbits = SubSeq(h, p + 1, p + l)
  BY <1>2, <1>3, <1>4, <1>5 DEF HalvesOf
<1>7. h \in Bytes(n) /\ o + k <= n /\ p + l <= n
  BY <1>1, <1>2, <1>3, <1>4, <1>5
<1>8. Cut(w0, h, o, k)
  BY <1>6, <1>7, CutIs
<1>9. Cut(nbits, h, p, l)
  BY <1>6, <1>7, CutIs
<1>10. w0 \in Bytes(8) /\ nbits \in Bytes(4)
  BY <1>3, <1>5, <1>8, <1>9 DEF Cut
<1>11. ASSUME NEW i \in 0..7 PROVE w0[i + 1] = h[64 + i + 1]
  <2>1. i + 1 \in 1..k /\ 64 + i + 1 = 64 + (i + 1)
    BY <1>3
  <2>2. h[o + (i + 1)] = w0[i + 1]
    BY <1>8, <2>1 DEF Cut, Holds
  <2> QED
    BY <1>2, <2>1, <2>2
<1>12. ASSUME NEW i \in 1..4 PROVE nbits[i] = h[72 + i]
  BY <1>4, <1>5, <1>9 DEF Cut, Holds
<1> QED
  BY <1>10, <1>11, <1>12 DEF Bytes, ByteWord

\* A word holds the header's last eight bytes.
IsTail(w, G) == w \in ByteWord /\ \A i \in 0..7 : w[i + 1] = G[72 + i + 1]

\* The word with nbits and the nonce.
LEMMA NonceWord ==
  ASSUME NEW h \in Bytes(80), NEW nbits \in Bytes(4), \A i \in 1..4 : nbits[i] = h[72 + i],
         NEW n \in Nat
  PROVE  IsTail(nbits \o LowFirst(n), WithNonce(h, n))
<1>1. PICK l \in Nat : l = 4
  OBVIOUS
<1>2. PICK w : w = LowFirst(n) /\ w \in Bytes(4)
  BY NonceBytes
<1>3. nbits \in Bytes(l) /\ w \in Bytes(l)
  BY <1>1, <1>2
<1>4. PICK c : c = nbits \o w /\ c \in Bytes(l + l) /\ Holds(c, 0, nbits, l) /\ Holds(c, l, w, l)
  BY <1>3, JoinedIs
<1>5. c \in ByteWord
  <2>1. l + l = 8
    BY <1>1
  <2> QED
    BY <1>4, <2>1 DEF Bytes, ByteWord
<1>6. ASSUME NEW i \in 0..7 PROVE c[i + 1] = WithNonce(h, n)[72 + i + 1]
  <2>1. CASE i \in 0..3
    <3>1. i + 1 \in 1..l /\ 0 + (i + 1) = i + 1 /\ i + 1 \in 1..4
      BY <1>1, <2>1
    <3>2. c[0 + (i + 1)] = nbits[i + 1]
      BY <1>4, <3>1 DEF Holds
    <3>3. 72 + i + 1 \in 1..76 /\ 72 + i + 1 = 72 + (i + 1)
      BY <2>1
    <3>4. WithNonce(h, n)[72 + i + 1] = h[72 + i + 1]
      <4>1. PICK j \in 1..76 : j = 72 + i + 1
        BY <3>3
      <4>2. WithNonce(h, n)[j] = h[j]
        BY NonceIn
      <4> QED
        BY <4>1, <4>2, Zenon
    <3> QED
      BY <3>1, <3>2, <3>3, <3>4
  <2>2. CASE i \in 4..7
    <3>1. PICK u \in 1..4 : i = u + 3
      BY <2>2
    <3>2. c[l + u] = w[u]
      BY <1>1, <1>4, <3>1 DEF Holds
    <3>3. WithNonce(h, n)[76 + u] = LowFirst(n)[u]
      BY <3>1, NonceIn
    <3>4. i + 1 = 4 + u /\ 72 + i + 1 = 76 + u
      BY <3>1
    <3> QED
      BY <1>1, <1>2, <3>2, <3>3, <3>4
  <2> QED
    BY <2>1, <2>2
<1> QED
  BY <1>2, <1>4, <1>5, <1>6 DEF IsTail

\* The padding words.
LEMMA PadWords ==
  /\ <<128, 0, 0, 0, 0, 0, 0, 0>> \in ByteWord /\ <<0, 0, 0, 0, 0, 0, 2, 128>> \in ByteWord
  /\ ZeroWord \in ByteWord /\ \A i \in 0..7 : ZeroWord[i + 1] = 0
  /\ \A i \in 0..7 : <<128, 0, 0, 0, 0, 0, 0, 0>>[i + 1] = (IF i = 0 THEN 128 ELSE 0)
  /\ \A i \in 0..7 : <<0, 0, 0, 0, 0, 0, 2, 128>>[i + 1]
                       = (IF i = 6 THEN 2 ELSE IF i = 7 THEN 128 ELSE 0)
<1>1. \A i \in 0..7 : i = 0 \/ i = 1 \/ i = 2 \/ i = 3 \/ i = 4 \/ i = 5 \/ i = 6 \/ i = 7
  OBVIOUS
<1>2. \A i \in 0..7 : ZeroWord[i + 1] = 0
  BY <1>1 DEF ZeroWord, Eight
<1>3. \A i \in 0..7 : <<128, 0, 0, 0, 0, 0, 0, 0>>[i + 1] = (IF i = 0 THEN 128 ELSE 0)
  BY <1>1
<1>4. \A i \in 0..7 : <<0, 0, 0, 0, 0, 0, 2, 128>>[i + 1]
                       = (IF i = 6 THEN 2 ELSE IF i = 7 THEN 128 ELSE 0)
  BY <1>1
<1>5. <<128, 0, 0, 0, 0, 0, 0, 0>> \in ByteWord /\ <<0, 0, 0, 0, 0, 0, 2, 128>> \in ByteWord
  BY SomeBytes DEF ByteWord
<1> QED
  BY <1>2, <1>3, <1>4, <1>5, ZeroIs

\* The words of the block the lane puts together.
LEMMA Block1Words ==
  ASSUME NEW n
  PROVE  /\ Block1(n)[1] = c_block1_w0 /\ Block1(n)[2] = c_block1_nbits \o LowFirst(n)
         /\ Block1(n)[3] = <<128, 0, 0, 0, 0, 0, 0, 0>>
         /\ Block1(n)[4] = ZeroWord /\ Block1(n)[5] = ZeroWord /\ Block1(n)[6] = ZeroWord
         /\ Block1(n)[7] = ZeroWord /\ Block1(n)[8] = <<0, 0, 0, 0, 0, 0, 2, 128>>
         /\ \E f : Block1(n) = [j \in 1..8 |-> f[j]]
<1> DEFINE f == Block1(n)
<1>1. ZeroWords = <<ZeroWord, ZeroWord, ZeroWord, ZeroWord, ZeroWord, ZeroWord, ZeroWord, ZeroWord>>
  BY DEF ZeroWords, Eight
<1>2. /\ DOMAIN ZeroWords = 1..8 /\ ZeroWords[4] = ZeroWord /\ ZeroWords[5] = ZeroWord
      /\ ZeroWords[6] = ZeroWord /\ ZeroWords[7] = ZeroWord
  BY <1>1
<1>3. Block1(n) = [j \in 1..8 |-> f[j]]
  BY <1>2 DEF Block1
<1>4. PICK G : G = f
  OBVIOUS
<1>5. PICK z : z = ZeroWords
  OBVIOUS
<1>6. PICK a, b, c, d : /\ a = c_block1_w0 /\ b = c_block1_nbits \o LowFirst(n)
                        /\ c = <<128, 0, 0, 0, 0, 0, 0, 0>> /\ d = <<0, 0, 0, 0, 0, 0, 2, 128>>
  OBVIOUS
<1>7. G = [z EXCEPT ![1] = a, ![2] = b, ![3] = c, ![8] = d]
  BY <1>4, <1>5, <1>6 DEF Block1
<1>8. /\ DOMAIN z = 1..8 /\ z[4] = ZeroWord /\ z[5] = ZeroWord
      /\ z[6] = ZeroWord /\ z[7] = ZeroWord
  BY <1>2, <1>5
<1>9. /\ G[1] = a /\ G[2] = b /\ G[3] = c /\ G[8] = d
      /\ G[4] = ZeroWord /\ G[5] = ZeroWord /\ G[6] = ZeroWord /\ G[7] = ZeroWord
  BY <1>7, <1>8
<1>10. G = Block1(n)
  BY <1>4
<1> HIDE DEF f
<1> QED
  BY <1>3, <1>6, <1>9, <1>10

\* The lane hashes the second block of the header with its nonce.
LEMMA Block1Is ==
  ASSUME NEW h \in Bytes(80), HalvesOf(h, c_block1_w0, c_block1_nbits), NEW n \in Nat
  PROVE  Block1(n) = Words(Second(WithNonce(h, n))) /\ Block1(n) \in Matrices
<1>1. PICK G \in Bytes(80) : G = WithNonce(h, n)
  BY NonceIn
<1>2. PICK s \in Block64 : s = Second(G)
  BY HeaderStates
<1>3. PICK w \in Matrices : w = Words(s)
  BY ChunkWords
<1>4. PICK b : b = Block1(n)
  OBVIOUS
<1>5. ASSUME NEW j \in 0..7
      PROVE  w[j + 1] \in ByteWord /\ \A i \in 0..7 : w[j + 1][i + 1] = s[8 * j + i + 1]
  BY <1>3, RowIs
<1>6. ASSUME NEW k \in 1..64
      PROVE  s[k] = IF k <= 16 THEN G[64 + k] ELSE IF k = 17 THEN 128
                    ELSE IF k = 63 THEN 2 ELSE IF k = 64 THEN 128 ELSE 0
  BY <1>2 DEF Second
<1>7. b[1] = w[1]
  <2>1. c_block1_w0 \in ByteWord /\ \A i \in 0..7 : c_block1_w0[i + 1] = h[64 + i + 1]
    BY HalvesAre
  <2>2. PICK j \in 0..7 : j = 0
    OBVIOUS
  <2>3. w[1] \in ByteWord
    BY <1>5, <2>2
  <2>4. ASSUME NEW i \in 0..7 PROVE w[1][i + 1] = h[64 + i + 1]
    <3>1. w[j + 1][i + 1] = s[8 * j + i + 1]
      BY <1>5
    <3>2. 8 * j + i + 1 = i + 1 /\ i + 1 \in 1..64 /\ i + 1 <= 16 /\ 64 + (i + 1) = 64 + i + 1
          /\ 64 + i + 1 \in 1..76 /\ j + 1 = 1
      BY <2>2
    <3>3. s[i + 1] = G[64 + (i + 1)]
      BY <1>6, <3>2
    <3>4. G[64 + i + 1] = h[64 + i + 1]
      BY <1>1, <3>2, NonceIn
    <3> QED
      BY <3>1, <3>2, <3>3, <3>4
  <2>5. c_block1_w0 = w[1]
    <3>1. \A i \in 0..7 : c_block1_w0[i + 1] = w[1][i + 1]
      BY <2>1, <2>4
    <3> QED
      BY <2>1, <2>3, <3>1, SameWord
  <2> QED
    BY <1>4, <2>5, Block1Words
<1>8. b[2] = w[2]
  <2>6. PICK e : e = c_block1_nbits
    OBVIOUS
  <2>7. PICK q : q = e \o LowFirst(n)
    OBVIOUS
  <2>1. q = c_block1_nbits \o LowFirst(n) /\ q \in ByteWord /\ \A i \in 0..7 : q[i + 1] = G[72 + i + 1]
    <3>1. e \in Bytes(4) /\ \A i \in 1..4 : e[i] = h[72 + i]
      BY <2>6, HalvesAre
    <3>2. IsTail(e \o LowFirst(n), WithNonce(h, n))
      BY <3>1, NonceWord
    <3> QED
      BY <1>1, <2>6, <2>7, <3>2 DEF IsTail
  <2>2. PICK j \in 0..7 : j = 1
    OBVIOUS
  <2>3. w[2] \in ByteWord
    BY <1>5, <2>2
  <2>4. ASSUME NEW i \in 0..7 PROVE q[i + 1] = w[2][i + 1]
    <3>1. w[j + 1][i + 1] = s[8 * j + i + 1]
      BY <1>5
    <3>2. /\ 8 * j + i + 1 = 8 + i + 1 /\ 8 + i + 1 \in 1..64 /\ 8 + i + 1 <= 16
          /\ 64 + (8 + i + 1) = 72 + i + 1 /\ j + 1 = 2
      BY <2>2
    <3>3. s[8 + i + 1] = G[64 + (8 + i + 1)]
      BY <1>6, <3>2
    <3>4. q[i + 1] = G[72 + i + 1]
      BY <2>1
    <3> QED
      BY <3>1, <3>2, <3>3, <3>4
  <2>5. q = w[2]
    BY <2>1, <2>3, <2>4, SameWord
  <2> QED
    BY <1>4, <2>1, <2>5, Block1Words
<1>9. b[3] = w[3]
  <2>1. PICK q : q = <<128, 0, 0, 0, 0, 0, 0, 0>>
    OBVIOUS
  <2>2. q \in ByteWord /\ \A i \in 0..7 : q[i + 1] = IF i = 0 THEN 128 ELSE 0
    BY <2>1, PadWords
  <2>3. PICK j \in 0..7 : j = 2
    OBVIOUS
  <2>4. w[3] \in ByteWord
    BY <1>5, <2>3
  <2>5. ASSUME NEW i \in 0..7 PROVE q[i + 1] = w[3][i + 1]
    <3>1. w[j + 1][i + 1] = s[8 * j + i + 1]
      BY <1>5
    <3>2. 8 * j + i + 1 = 17 + i /\ 17 + i \in 1..64 /\ ~(17 + i <= 16) /\ j + 1 = 3
          /\ (17 + i = 17 <=> i = 0) /\ 17 + i # 63 /\ 17 + i # 64
      BY <2>3
    <3>3. s[17 + i] = IF i = 0 THEN 128 ELSE 0
      BY <1>6, <3>2
    <3> QED
      BY <2>2, <3>1, <3>2, <3>3
  <2>6. q = w[3]
    BY <2>2, <2>4, <2>5, SameWord
  <2> QED
    BY <1>4, <2>1, <2>6, Block1Words
<1>10. ASSUME NEW j \in 3..6 PROVE b[j + 1] = w[j + 1]
  <2>1. PICK q : q = ZeroWord /\ q \in ByteWord /\ \A i \in 0..7 : q[i + 1] = 0
    BY PadWords
  <2>2. j \in 0..7
    OBVIOUS
  <2>3. w[j + 1] \in ByteWord
    BY <1>5, <2>2
  <2>4. ASSUME NEW i \in 0..7 PROVE q[i + 1] = w[j + 1][i + 1]
    <3>1. w[j + 1][i + 1] = s[8 * j + i + 1]
      BY <1>5, <2>2
    <3>2. PICK k \in 25..56 : k = 8 * j + i + 1
      OBVIOUS
    <3>3. s[k] = 0
      <4>1. k \in 1..64 /\ ~(k <= 16) /\ k # 17 /\ k # 63 /\ k # 64
        OBVIOUS
      <4> QED
        BY <1>6, <4>1
    <3> QED
      BY <2>1, <3>1, <3>2, <3>3
  <2>5. q = w[j + 1]
    BY <2>1, <2>3, <2>4, SameWord
  <2>6. j = 3 \/ j = 4 \/ j = 5 \/ j = 6
    OBVIOUS
  <2>7. b[4] = q /\ b[5] = q /\ b[6] = q /\ b[7] = q
    BY <1>4, <2>1, Block1Words
  <2>8. b[j + 1] = q
    BY <2>6, <2>7
  <2> QED
    BY <2>5, <2>8
<1>11. b[8] = w[8]
  <2>1. PICK q : q = <<0, 0, 0, 0, 0, 0, 2, 128>>
    OBVIOUS
  <2>2. q \in ByteWord /\ \A i \in 0..7 : q[i + 1] = IF i = 6 THEN 2 ELSE IF i = 7 THEN 128 ELSE 0
    BY <2>1, PadWords
  <2>3. PICK j \in 0..7 : j = 7
    OBVIOUS
  <2>4. w[8] \in ByteWord
    BY <1>5, <2>3
  <2>5. ASSUME NEW i \in 0..7 PROVE q[i + 1] = w[8][i + 1]
    <3>1. w[j + 1][i + 1] = s[8 * j + i + 1]
      BY <1>5
    <3>2. 8 * j + i + 1 = 57 + i /\ 57 + i \in 1..64 /\ ~(57 + i <= 16) /\ j + 1 = 8
          /\ 57 + i # 17 /\ (57 + i = 63 <=> i = 6) /\ (57 + i = 64 <=> i = 7)
      BY <2>3
    <3>3. s[57 + i] = IF i = 6 THEN 2 ELSE IF i = 7 THEN 128 ELSE 0
      BY <1>6, <3>2
    <3> QED
      BY <2>2, <3>1, <3>2, <3>3
  <2>6. q = w[8]
    BY <2>2, <2>4, <2>5, SameWord
  <2> QED
    BY <1>4, <2>1, <2>6, Block1Words
<1>12. ASSUME NEW j \in 1..8 PROVE b[j] = w[j]
  <2>1. j = 1 \/ j = 2 \/ j = 3 \/ j = 8 \/ j - 1 \in 3..6
    OBVIOUS
  <2>2. CASE j - 1 \in 3..6
    <3>1. (j - 1) + 1 = j
      OBVIOUS
    <3>2. PICK i \in 3..6 : i = j - 1
      BY <2>2
    <3>3. b[i + 1] = w[i + 1]
      BY <1>10
    <3> QED
      BY <3>1, <3>2, <3>3
  <2> QED
    BY <1>7, <1>8, <1>9, <1>11, <2>1, <2>2
<1>13. b = w
  <2>1. PICK f : b = [j \in 1..8 |-> f[j]]
    BY <1>4, Block1Words
  <2>2. DOMAIN w = 1..8 /\ w = [j \in 1..8 |-> w[j]]
    BY DEF Matrices
  <2>3. b = [j \in 1..8 |-> b[j]]
    BY <2>1
  <2> QED
    BY <1>12, <2>2, <2>3
<1> QED
  BY <1>1, <1>2, <1>3, <1>4, <1>13

-----------------------------------------------------------------------------
(* The hashes of the GPU.                                                  *)

\* What SetupJob leaves in constant memory belongs to one header.
Prepared ==
  uploaded # NoHeader =>
    /\ uploaded \in Bytes(80)
    /\ c_midstate = Mid(uploaded) /\ c_rk = whirlpool_round_keys_cuda(c_midstate)
    /\ HalvesOf(uploaded, c_block1_w0, c_block1_nbits)

\* A kernel runs on a header that was uploaded, from a first nonce.
Launched == start_nonce \in Nat /\ (kernel # "none" => uploaded # NoHeader)

\* A launch hashes nothing on constant memory of two headers, and what it has
\* hashed last is what the verifier makes of the same header.
CudaInv == Prepared /\ Launched /\ KernelHashesLikeVerifier

\* A lane's hash is that of the header with its nonce.
LEMMA LaneHash ==
  ASSUME Prepared, uploaded # NoHeader, copied = Lanes, NEW n \in Nat
  PROVE  Bytes32(BLOCK1_FOLD(n)) = Sph!cap_pow_hash_header80(WithNonce(uploaded, n))
<1>1. PICK h \in Bytes(80) : h = uploaded
  BY DEF Prepared
<1>2. HalvesOf(h, c_block1_w0, c_block1_nbits) /\ c_midstate = Mid(h)
      /\ c_rk = whirlpool_round_keys_cuda(c_midstate)
  BY <1>1 DEF Prepared
<1>3. PICK G \in Bytes(80) : G = WithNonce(h, n)
  BY NonceIn
<1>4. Block1(n) = Words(Second(G)) /\ Block1(n) \in Matrices
  BY <1>2, <1>3, Block1Is
<1>5. c_midstate \in Matrices
  BY <1>2, HeaderStates
<1>6. BLOCK1_FOLD(n) = FoldedWords(Compress(Sph!plain, Block1(n), c_midstate))
  BY <1>2, <1>4, <1>5, PreparedIs
<1>7. Mid(G) = Mid(h)
  BY <1>3, NonceIn
<1>8. Compress(Sph!plain, Block1(n), c_midstate) = End(G)
  BY <1>2, <1>4, <1>7 DEF End
<1> QED
  BY <1>1, <1>3, <1>6, <1>8, PowHash

\* The first block's state is the midstate.
LEMMA MidIs ==
  ASSUME NEW h \in Bytes(80)
  PROVE  whirlpool_compress_cuda(SubSeq(h, 1, 64), ZeroWords) = Mid(h)
<1>1. SubSeq(h, 1, 64) = Chunk(h, 0)
  <2>1. PICK n \in Nat : n = 80
    OBVIOUS
  <2>2. PICK o \in Nat : o = 0
    OBVIOUS
  <2>3. h \in Bytes(n) /\ 64 * o + 64 <= n
    BY <2>1, <2>2
  <2>4. SubSeq(h, 64 * o + 1, 64 * o + 64) = Chunk(h, o)
    BY <2>3, ChunkIs
  <2> QED
    BY <2>2, <2>4
<1> QED
  BY <1>1, CudaCompress DEF Mid

\* Every step of the GPU keeps constant memory and its header together.
LEMMA CudaStep ==
  ASSUME CudaInv, CudaNext
  PROVE  CudaInv'
<1>1. Headers \subseteq Bytes(80) /\ Starts \subseteq Nat
  BY CudaAssumption DEF Bytes
<1>2. ASSUME NEW h \in Headers, SetupJob(h) PROVE CudaInv'
  <2>1. PICK G \in Bytes(80) : G = h
    BY <1>1
  <2>2. Prepared'
    <3>1. uploaded' = G /\ c_midstate' = Mid(G) /\ c_rk' = whirlpool_round_keys_cuda(c_midstate')
      BY <1>2, <2>1, MidIs DEF SetupJob
    <3>2. HalvesOf(G, c_block1_w0', c_block1_nbits')
      BY <1>2, <2>1 DEF SetupJob, HalvesOf
    <3> QED
      BY <3>1, <3>2 DEF Prepared
  <2>3. Launched'
    BY <1>2 DEF SetupJob, CudaInv, Launched
  <2>4. KernelHashesLikeVerifier'
    BY <1>2 DEF SetupJob, CudaInv, KernelHashesLikeVerifier
  <2> QED
    BY <2>2, <2>3, <2>4 DEF CudaInv
<1>3. ASSUME NEW h \in Headers, HashOnce(h) PROVE CudaInv'
  <2>1. PICK G \in Bytes(80) : G = h
    BY <1>1
  <2>2. Prepared' /\ Launched'
    BY <1>3 DEF HashOnce, CudaInv, Prepared, Launched
  <2>3. KernelHashesLikeVerifier'
    <3>1. computed'.header = G /\ computed'.hash = cap_whirlpool80_cuda(G)
      BY <1>3, <2>1 DEF HashOnce
    <3>2. cap_whirlpool80_cuda(G) = Sph!cap_pow_hash_header80(G)
      BY PlainPath, PowHash
    <3> QED
      BY <3>1, <3>2 DEF KernelHashesLikeVerifier
  <2> QED
    BY <2>2, <2>3 DEF CudaInv
<1>4. ASSUME NEW which \in {"mine", "probe"}, NEW n \in Starts, LaunchKernel(which, n)
      PROVE  CudaInv'
  BY <1>1, <1>4 DEF LaunchKernel, CudaInv, Prepared, Launched, KernelHashesLikeVerifier
<1>5. ASSUME NEW lane \in Lanes, LoadTables(lane) PROVE CudaInv'
  BY <1>5 DEF LoadTables, CudaInv, Prepared, Launched, KernelHashesLikeVerifier
<1>6. ASSUME NEW lane \in Lanes, HashLane(lane) PROVE CudaInv'
  <2>1. Prepared' /\ Launched'
    BY <1>6 DEF HashLane, CudaInv, Prepared, Launched
  <2>2. CASE kernel = "probe" /\ lane # 0
    <3>1. computed' = computed
      BY <1>6, <2>2 DEF HashLane
    <3> QED
      BY <2>1, <3>1 DEF CudaInv, KernelHashesLikeVerifier
  <2>3. CASE ~(kernel = "probe" /\ lane # 0)
    <3>1. PICK n \in Nat : n = start_nonce + lane
      BY CudaAssumption DEF Lanes, CudaInv, Launched
    <3>2. computed'.header = WithNonce(uploaded, n) /\ computed'.hash = Bytes32(BLOCK1_FOLD(n))
      BY <1>6, <2>3, <3>1 DEF HashLane
    <3>3. Prepared /\ uploaded # NoHeader /\ copied = Lanes
      BY <1>6 DEF HashLane, CudaInv, Launched
    <3>4. Bytes32(BLOCK1_FOLD(n)) = Sph!cap_pow_hash_header80(WithNonce(uploaded, n))
      BY <3>3, LaneHash
    <3> QED
      BY <2>1, <3>2, <3>4 DEF CudaInv, KernelHashesLikeVerifier
  <2> QED
    BY <2>2, <2>3
<1>7. ASSUME KernelEnds PROVE CudaInv'
  BY <1>7 DEF KernelEnds, CudaInv, Prepared, Launched, KernelHashesLikeVerifier
<1> QED
  BY <1>2, <1>3, <1>4, <1>5, <1>6, <1>7 DEF CudaNext

\* The GPU's invariant, in whichever part of the miner runs.
THEOREM CudaInvariance == Spec => []CudaInv
<1>1. Init => CudaInv
  BY DEF Init, CudaInit, CudaInv, Prepared, Launched, KernelHashesLikeVerifier
<1>2. CudaInv /\ [Next]_vars => CudaInv'
  <2> SUFFICES ASSUME CudaInv, [Next]_vars PROVE CudaInv'
    OBVIOUS
  <2>1. CASE UNCHANGED cudaVars
    BY <2>1 DEF cudaVars, CudaInv, Prepared, Launched, KernelHashesLikeVerifier
  <2>2. CASE HashOnGpu
    BY <2>2, CudaStep DEF HashOnGpu
  <2>3. HashOnGpu \/ UNCHANGED cudaVars
    BY DEF Next, vars, ExchangeLines, ParseNotify, HashHeader92, UseHashObject, HashOnCpu
  <2> QED
    BY <2>1, <2>2, <2>3
<1> QED
  BY <1>1, <1>2, PTL DEF Spec

\* Whatever is hashed on the GPU is what the CPU computes for the same 80
\* bytes: for every header, nonce, block size and order of the lanes.
THEOREM GpuHashesLikeVerifier == Spec => []KernelHashesLikeVerifier
  BY CudaInvariance, PTL DEF CudaInv

-----------------------------------------------------------------------------
(* The definition of Whirlpool, and the rounds of the code.                *)

\* Bit i of a sum of bits is the i-th of them.
LEMMA BitsOut ==
  ASSUME NEW a \in 0..1, NEW b \in 0..1, NEW c \in 0..1, NEW d \in 0..1,
         NEW e \in 0..1, NEW f \in 0..1, NEW G \in 0..1, NEW h \in 0..1, NEW u,
         u = a + 2 * b + 4 * c + 8 * d + 16 * e + 32 * f + 64 * G + 128 * h
  PROVE  /\ (u \div 1) % 2 = a /\ (u \div 2) % 2 = b /\ (u \div 4) % 2 = c /\ (u \div 8) % 2 = d
         /\ (u \div 16) % 2 = e /\ (u \div 32) % 2 = f /\ (u \div 64) % 2 = G
         /\ (u \div 128) % 2 = h
<1>1. (u \div 1) % 2 = a
  OBVIOUS
<1>2. (u \div 2) % 2 = b
  OBVIOUS
<1>3. (u \div 4) % 2 = c
  OBVIOUS
<1>4. (u \div 8) % 2 = d
  OBVIOUS
<1>5. (u \div 16) % 2 = e
  OBVIOUS
<1>6. (u \div 32) % 2 = f
  OBVIOUS
<1>7. (u \div 64) % 2 = G
  OBVIOUS
<1>8. (u \div 128) % 2 = h
  OBVIOUS
<1> QED
  BY <1>1, <1>2, <1>3, <1>4, <1>5, <1>6, <1>7, <1>8

\* The places of the bits of a byte.
Places == {1, 2, 4, 8, 16, 32, 64, 128}

\* Every bit of a sum of bytes is the sum of their bits.
LEMMA BitOfSum ==
  ASSUME NEW x \in Byte, NEW y \in Byte, NEW n \in Places
  PROVE  (XorByte(x, y) \div n) % 2 = XorBit(x, y, n)
<1> DEFINE b(k) == XorBit(x, y, k)
<1>1. /\ b(1) \in 0..1 /\ b(2) \in 0..1 /\ b(4) \in 0..1 /\ b(8) \in 0..1
      /\ b(16) \in 0..1 /\ b(32) \in 0..1 /\ b(64) \in 0..1 /\ b(128) \in 0..1
  BY XorBitIs
<1>2. XorByte(x, y) = b(1) + 2 * b(2) + 4 * b(4) + 8 * b(8)
                        + 16 * b(16) + 32 * b(32) + 64 * b(64) + 128 * b(128)
  BY DEF XorByte, XorTable
<1>3. PICK u : u = XorByte(x, y)
  OBVIOUS
<1>4. n = 1 \/ n = 2 \/ n = 4 \/ n = 8 \/ n = 16 \/ n = 32 \/ n = 64 \/ n = 128
  BY DEF Places
<1> HIDE DEF b
<1>5. /\ (u \div 1) % 2 = b(1) /\ (u \div 2) % 2 = b(2) /\ (u \div 4) % 2 = b(4)
      /\ (u \div 8) % 2 = b(8) /\ (u \div 16) % 2 = b(16) /\ (u \div 32) % 2 = b(32)
      /\ (u \div 64) % 2 = b(64) /\ (u \div 128) % 2 = b(128)
  BY <1>1, <1>2, <1>3, BitsOut
<1>6. (u \div n) % 2 = b(n)
  BY <1>4, <1>5
<1> QED
  BY <1>3, <1>6 DEF b

\* A sum is made of its bits.
LEMMA BitsMake ==
  ASSUME NEW x \in Byte, NEW y \in Byte, NEW z \in Byte, NEW w \in Byte,
         \A n \in Places : XorBit(x, y, n) = XorBit(z, w, n)
  PROVE  XorByte(x, y) = XorByte(z, w)
<1>1. /\ 1 \in Places /\ 2 \in Places /\ 4 \in Places /\ 8 \in Places
      /\ 16 \in Places /\ 32 \in Places /\ 64 \in Places /\ 128 \in Places
  BY DEF Places
<1>2. /\ XorBit(x, y, 1) = XorBit(z, w, 1) /\ XorBit(x, y, 2) = XorBit(z, w, 2)
      /\ XorBit(x, y, 4) = XorBit(z, w, 4) /\ XorBit(x, y, 8) = XorBit(z, w, 8)
      /\ XorBit(x, y, 16) = XorBit(z, w, 16) /\ XorBit(x, y, 32) = XorBit(z, w, 32)
      /\ XorBit(x, y, 64) = XorBit(z, w, 64) /\ XorBit(x, y, 128) = XorBit(z, w, 128)
  BY <1>1
<1> QED
  BY <1>2 DEF XorByte, XorTable

\* Two bytes and one more, in either order.
LEMMA XorThree ==
  ASSUME NEW a \in Byte, NEW b \in Byte, NEW c \in Byte
  PROVE  XorByte(a, XorByte(b, c)) = XorByte(c, XorByte(a, b))
<1>1. PICK u \in Byte : u = XorByte(b, c)
  BY XorByteIs
<1>2. PICK v \in Byte : v = XorByte(a, b)
  BY XorByteIs
<1>3. ASSUME NEW n \in Places PROVE XorBit(a, u, n) = XorBit(c, v, n)
  <2>1. (u \div n) % 2 = (b \div n + c \div n) % 2
    BY <1>1, BitOfSum DEF XorBit
  <2>2. (v \div n) % 2 = (a \div n + b \div n) % 2
    BY <1>2, BitOfSum DEF XorBit
  <2>3. n \in Nat \ {0}
    BY DEF Places
  <2>4. a \div n \in Int /\ b \div n \in Int /\ c \div n \in Int /\ u \div n \in Int /\ v \div n \in Int
    BY <2>3 DEF Byte
  <2>5. PICK i, j, k, l, m \in Int : /\ i = a \div n /\ j = b \div n /\ k = c \div n
                                     /\ l = u \div n /\ m = v \div n
    BY <2>4
  <2>6. l % 2 = (j + k) % 2 /\ m % 2 = (i + j) % 2
    BY <2>1, <2>2, <2>5
  <2>7. (i + l) % 2 = (k + m) % 2
    BY <2>6
  <2> QED
    BY <2>5, <2>7 DEF XorBit
<1>4. XorByte(a, u) = XorByte(c, v)
  BY <1>3, BitsMake
<1> QED
  BY <1>1, <1>2, <1>4

\* The same for words, and for blocks.
LEMMA XorWordThree ==
  ASSUME NEW a \in ByteWord, NEW b \in ByteWord, NEW c \in ByteWord
  PROVE  XorWord(a, XorWord(b, c)) = XorWord(c, XorWord(a, b))
<1>1. PICK u \in ByteWord : u = XorWord(b, c)
  BY XorWordIs
<1>2. PICK v \in ByteWord : v = XorWord(a, b)
  BY XorWordIs
<1>3. PICK x \in ByteWord : x = XorWord(a, u)
  BY XorWordIs
<1>4. PICK y \in ByteWord : y = XorWord(c, v)
  BY XorWordIs
<1>5. ASSUME NEW i \in 1..8 PROVE x[i] = y[i]
  <2>1. a[i] \in Byte /\ b[i] \in Byte /\ c[i] \in Byte
    BY DEF ByteWord
  <2>2. x[i] = XorByte(a[i], u[i]) /\ u[i] = XorByte(b[i], c[i])
    BY <1>1, <1>3, XorWordIs
  <2>3. y[i] = XorByte(c[i], v[i]) /\ v[i] = XorByte(a[i], b[i])
    BY <1>2, <1>4, XorWordIs
  <2> QED
    BY <2>1, <2>2, <2>3, XorThree
<1>6. x = y
  BY <1>5 DEF ByteWord
<1> QED
  BY <1>1, <1>2, <1>3, <1>4, <1>6

\* The feed-forward in either order.
LEMMA XorWordsThree ==
  ASSUME NEW a \in Matrices, NEW b \in Matrices, NEW c \in Matrices
  PROVE  XorWords(a, XorWords(b, c)) = XorWords(c, XorWords(a, b))
<1>1. PICK u \in Matrices : u = XorWords(b, c)
  BY XorWordsIs
<1>2. PICK v \in Matrices : v = XorWords(a, b)
  BY XorWordsIs
<1>3. PICK x \in Matrices : x = XorWords(a, u)
  BY XorWordsIs
<1>4. PICK y \in Matrices : y = XorWords(c, v)
  BY XorWordsIs
<1>5. ASSUME NEW i \in 1..8 PROVE x[i] = y[i]
  <2>1. a[i] \in ByteWord /\ b[i] \in ByteWord /\ c[i] \in ByteWord
    BY DEF Matrices, ByteWord
  <2>2. x[i] = XorWord(a[i], u[i]) /\ u[i] = XorWord(b[i], c[i])
    BY <1>1, <1>3, XorWordsIs
  <2>3. y[i] = XorWord(c[i], v[i]) /\ v[i] = XorWord(a[i], b[i])
    BY <1>2, <1>4, XorWordsIs
  <2> QED
    BY <2>1, <2>2, <2>3, XorWordThree
<1>6. x = y
  BY <1>5 DEF Matrices
<1> QED
  BY <1>1, <1>2, <1>3, <1>4, <1>6

\* A tuple of eight, one by one.
LEMMA EightOf ==
  ASSUME NEW f, NEW t, t = <<f[0], f[1], f[2], f[3], f[4], f[5], f[6], f[7]>>
  PROVE  \A i \in 0..7 : t[i + 1] = f[i]
  OBVIOUS

\* X is M with its bytes substituted and its columns shifted.
ShiftedAs(X, S, M) ==
  \A i \in 0..7, k \in 0..7 : X[i + 1][k + 1] = S[M[((i - k) % 8) + 1][k + 1] + 1]

\* That is what the two steps make.
LEMMA ShiftedIs == ASSUME NEW S, NEW M PROVE ShiftedAs(ShiftColumns(SubBytes(S, M)), S, M)
<1> SUFFICES ASSUME NEW i \in 0..7, NEW k \in 0..7
             PROVE  ShiftColumns(SubBytes(S, M))[i + 1][k + 1]
                      = S[M[((i - k) % 8) + 1][k + 1] + 1]
  BY DEF ShiftedAs
<1> DEFINE P == SubBytes(S, M)
           r == [m \in 0..7 |-> <<S[M[m + 1][0 + 1] + 1], S[M[m + 1][1 + 1] + 1],
                                  S[M[m + 1][2 + 1] + 1], S[M[m + 1][3 + 1] + 1],
                                  S[M[m + 1][4 + 1] + 1], S[M[m + 1][5 + 1] + 1],
                                  S[M[m + 1][6 + 1] + 1], S[M[m + 1][7 + 1] + 1]>>]
           q == [m \in 0..7 |-> <<P[((m - 0) % 8) + 1][0 + 1], P[((m - 1) % 8) + 1][1 + 1],
                                  P[((m - 2) % 8) + 1][2 + 1], P[((m - 3) % 8) + 1][3 + 1],
                                  P[((m - 4) % 8) + 1][4 + 1], P[((m - 5) % 8) + 1][5 + 1],
                                  P[((m - 6) % 8) + 1][6 + 1], P[((m - 7) % 8) + 1][7 + 1]>>]
           G(m) == [j \in 0..7 |-> S[M[m + 1][j + 1] + 1]]
           d == [j \in 0..7 |-> P[((i - j) % 8) + 1][j + 1]]
<1>1. ASSUME NEW m \in 0..7 PROVE P[m + 1][k + 1] = S[M[m + 1][k + 1] + 1]
  <2>1. P = <<r[0], r[1], r[2], r[3], r[4], r[5], r[6], r[7]>>
    BY DEF SubBytes, Eight
  <2>2. r[m] = <<G(m)[0], G(m)[1], G(m)[2], G(m)[3], G(m)[4], G(m)[5], G(m)[6], G(m)[7]>>
    OBVIOUS
  <2>3. G(m)[k] = S[M[m + 1][k + 1] + 1]
    OBVIOUS
  <2>4. PICK x : x = r /\ P = <<x[0], x[1], x[2], x[3], x[4], x[5], x[6], x[7]>>
    BY <2>1
  <2>5. PICK y : y = G(m) /\ r[m] = <<y[0], y[1], y[2], y[3], y[4], y[5], y[6], y[7]>>
    BY <2>2
  <2> HIDE DEF P, r, G
  <2>6. P[m + 1] = x[m]
    BY <2>4, EightOf
  <2>7. r[m][k + 1] = y[k]
    BY <2>5, EightOf
  <2> QED
    BY <2>3, <2>4, <2>5, <2>6, <2>7
<1>2. ShiftColumns(P) = <<q[0], q[1], q[2], q[3], q[4], q[5], q[6], q[7]>>
  <2> HIDE DEF P
  <2> QED
    BY DEF ShiftColumns, Eight
<1> HIDE DEF P
<1>3. q[i] = <<d[0], d[1], d[2], d[3], d[4], d[5], d[6], d[7]>>
  OBVIOUS
<1>4. d[k] = P[((i - k) % 8) + 1][k + 1]
  OBVIOUS
<1>5. PICK x : x = q
  OBVIOUS
<1>6. PICK y : y = d
  OBVIOUS
<1> HIDE DEF q, d
<1>7. PICK z : z = ShiftColumns(P)
  OBVIOUS
<1>8. z = <<x[0], x[1], x[2], x[3], x[4], x[5], x[6], x[7]>>
  BY <1>2, <1>5, <1>7
<1>9. z[i + 1] = x[i]
  BY <1>8, EightOf
<1>10. x[i][k + 1] = y[k]
  <2>1. x[i] = <<y[0], y[1], y[2], y[3], y[4], y[5], y[6], y[7]>>
    BY <1>3, <1>5, <1>6
  <2> QED
    BY <2>1, EightOf
<1>11. (i - k) % 8 \in 0..7
  OBVIOUS
<1>12. PICK m \in 0..7 : m = (i - k) % 8
  BY <1>11
<1>13. P[m + 1][k + 1] = S[M[m + 1][k + 1] + 1]
  BY <1>1
<1>14. z[i + 1][k + 1] = S[M[((i - k) % 8) + 1][k + 1] + 1]
  BY <1>4, <1>6, <1>9, <1>10, <1>12, <1>13
<1> QED
  BY <1>7, <1>14 DEF P

\* Tables that hold the products with the rows of the matrix.
TablesOf(T, S, c) == \A k \in 0..7 : T[k + 1] = Table(S, c, k)

\* A round of the definition, looked up.
LEMMA RhoIs ==
  ASSUME NEW S, NEW c, NEW T, TablesOf(T, S, c), NEW M \in Matrices, NEW key
  PROVE  Rho(S, c, M, key) = RoundOf(T, M, key)
<1> DEFINE X == ShiftColumns(SubBytes(S, M))
           E(i, k) == Eight(LAMBDA j : TimesGF(c[((j - k) % 8) + 1], X[i + 1][k + 1]))
           f(i) == [k \in 0..7 |-> E(i, k)]
           G(i) == [k \in 0..7 |-> T[k + 1][M[((i - k) % 8) + 1][k + 1]]]
<1>9. ShiftedAs(X, S, M)
  BY ShiftedIs
<1>1. ASSUME NEW i \in 0..7, NEW k \in 0..7
      PROVE  E(i, k) = T[k + 1][M[((i - k) % 8) + 1][k + 1]]
  <2>1. ((i - k) % 8) + 1 \in 1..8 /\ k + 1 \in 1..8
    OBVIOUS
  <2>2. PICK x \in Byte : x = M[((i - k) % 8) + 1][k + 1]
    BY <2>1 DEF Matrices
  <2>7. X[i + 1][k + 1] = S[M[((i - k) % 8) + 1][k + 1] + 1]
    BY <1>9 DEF ShiftedAs
  <2>3. X[i + 1][k + 1] = S[x + 1]
    <3> HIDE DEF X
    <3> QED
      BY <2>2, <2>7
  <2>4. T[k + 1] = Table(S, c, k)
    BY DEF TablesOf
  <2> HIDE DEF X
  <2>5. Table(S, c, k)[x] = Eight(LAMBDA j : TimesGF(c[((j - k) % 8) + 1], S[x + 1]))
    BY DEF Table, Eight
  <2>6. E(i, k) = Eight(LAMBDA j : TimesGF(c[((j - k) % 8) + 1], S[x + 1]))
    BY <2>3, SMTT(30) DEF Eight
  <2> QED
    BY <2>2, <2>4, <2>5, <2>6
<1>2. \A i \in 0..7 : f(i) = G(i)
  BY <1>1
<1>3. \A i \in 0..7 : XorAll(LAMBDA k : E(i, k)) = Sum8(f(i))
  <2> HIDE DEF E
  <2> QED
    BY DEF XorAll, Sum8
<1>4. \A i \in 0..7 : Elt(T, M, i) = Sum8(G(i))
  BY DEF Elt
<1>5. MixRows(c, X) = Eight(LAMBDA i : XorAll(LAMBDA k : E(i, k)))
  BY DEF MixRows
<1> HIDE DEF E
<1>6. \A i \in 0..7 : XorAll(LAMBDA k : E(i, k)) = Elt(T, M, i)
  <2> SUFFICES ASSUME NEW i \in 0..7 PROVE XorAll(LAMBDA k : E(i, k)) = Elt(T, M, i)
    OBVIOUS
  <2>1. f(i) = G(i)
    BY <1>2
  <2>2. XorAll(LAMBDA k : E(i, k)) = Sum8(f(i))
    BY <1>3
  <2>3. Elt(T, M, i) = Sum8(G(i))
    BY <1>4
  <2> HIDE DEF f, G
  <2> QED
    BY <2>1, <2>2, <2>3
<1>7. MixRows(c, X) = <<Elt(T, M, 0), Elt(T, M, 1), Elt(T, M, 2), Elt(T, M, 3),
                        Elt(T, M, 4), Elt(T, M, 5), Elt(T, M, 6), Elt(T, M, 7)>>
  BY <1>5, <1>6 DEF Eight
<1>8. Rho(S, c, M, key) = XorWords(MixRows(c, X), key)
  BY DEF Rho
<1> HIDE DEF X
<1> QED
  BY <1>7, <1>8 DEF XorWords, Eight, RoundOf

\* The rounds of the definition, with the keys beside the blocks.
Both == [key : Matrices, state : Matrices]
ConstantOf(S, r) == [ZeroWords EXCEPT ![1] = RoundConstants(S)[r]]
NextBoth(S, c, at, r) ==
  [key   |-> Rho(S, c, at.key, ConstantOf(S, r)),
   state |-> Rho(S, c, at.state, Rho(S, c, at.key, ConstantOf(S, r)))]
RhoStep(S, c) == [r \in 0..9 |-> [at \in Both |-> NextBoth(S, c, at, r)]]

\* A version and the definition it is meant to compute.
IsFor(v, S, c) == IsVersion(v) /\ TablesOf(v.T, S, c) /\ v.RC = RoundConstants(S)

\* One block by the definition and one by the code.
LEMMA MiyaguchiIs ==
  ASSUME NEW S, NEW c, NEW v, IsFor(v, S, c), NEW M \in Matrices, NEW K \in Matrices
  PROVE  MiyaguchiPreneel(S, c, M, K) = Compress(v, M, K)
<1>1. PICK start : start = [key |-> K, state |-> XorWords(M, K)]
  OBVIOUS
<1>2. start \in Both
  BY <1>1, XorWordsIs DEF Both
<1>3. \A at, r : at \in Both /\ r \in 0..9 =>
        NextBoth(S, c, at, r) = [key   |-> KeyOf(v, at.key, r),
                                 state |-> RoundOf(v.T, at.state, KeyOf(v, at.key, r))]
  <2> SUFFICES ASSUME NEW at \in Both, NEW r \in 0..9
               PROVE  NextBoth(S, c, at, r) = [key   |-> KeyOf(v, at.key, r),
                                               state |-> RoundOf(v.T, at.state, KeyOf(v, at.key, r))]
    OBVIOUS
  <2>1. at.key \in Matrices /\ at.state \in Matrices /\ TablesOf(v.T, S, c)
    BY DEF Both, IsFor
  <2>2. Rho(S, c, at.key, ConstantOf(S, r)) = KeyOf(v, at.key, r)
    BY <2>1, RhoIs DEF KeyOf, ConstantOf, IsFor
  <2>3. Rho(S, c, at.state, KeyOf(v, at.key, r)) = RoundOf(v.T, at.state, KeyOf(v, at.key, r))
    BY <2>1, RhoIs
  <2> QED
    BY <2>2, <2>3 DEF NextBoth
<1>4. ASSUME NEW at \in Both, NEW r \in 0..9 PROVE NextBoth(S, c, at, r) \in Both
  <2>1. [ZeroWords EXCEPT ![1] = v.RC[r]] \in Matrices
    BY FirstIs DEF IsVersion, IsFor
  <2>2. at.key \in Matrices /\ at.state \in Matrices /\ Tables(v.T)
    BY DEF Both, IsFor, IsVersion
  <2>3. KeyOf(v, at.key, r) \in Matrices
    BY <2>1, <2>2, RoundOfIs DEF KeyOf
  <2>4. RoundOf(v.T, at.state, KeyOf(v, at.key, r)) \in Matrices
    BY <2>2, <2>3, RoundOfIs
  <2> QED
    BY <1>3, <2>3, <2>4 DEF Both
<1>5. PICK R \in [0..9 -> [Both -> Both]] : R = RhoStep(S, c)
  <2>1. RhoStep(S, c) \in [0..9 -> [Both -> Both]]
    BY <1>4 DEF RhoStep
  <2> QED
    BY <2>1
<1>6. /\ \A r \in 0..10 : Rounds(R, start)[r] \in Both
      /\ Rounds(R, start)[0] = start
      /\ \A r \in 0..9 : Rounds(R, start)[r + 1] = R[r][Rounds(R, start)[r]]
  BY <1>2, RoundsAre
<1>7. PICK w : w = Rounds(R, start)
  OBVIOUS
<1>8. PICK x : x = Run(v, M, K)
  OBVIOUS
<1>9. /\ \A r \in 0..10 : x[r] \in Pairs
      /\ x[0] = [h |-> K, n |-> XorWords(M, K)]
      /\ \A r \in 0..9 : x[r + 1] = Step(v)[r][x[r]]
  BY <1>8, RunIs DEF IsFor
<1>10. ASSUME NEW r \in 0..9
       PROVE  /\ w[r + 1].key = KeyOf(v, w[r].key, r)
              /\ w[r + 1].state = RoundOf(v.T, w[r].state, KeyOf(v, w[r].key, r))
  <2>1. r \in 0..10
    OBVIOUS
  <2>2. PICK at \in Both : at = w[r]
    BY <1>6, <1>7, <2>1
  <2>3. w[r + 1] = R[r][at]
    BY <1>6, <1>7, <2>2
  <2>4. R[r][at] = NextBoth(S, c, at, r)
    BY <1>5 DEF RhoStep
  <2> QED
    BY <1>3, <2>2, <2>3, <2>4
<1>11. ASSUME NEW r \in 0..9
       PROVE  /\ x[r + 1].h = KeyOf(v, x[r].h, r)
              /\ x[r + 1].n = RoundOf(v.T, x[r].n, KeyOf(v, x[r].h, r))
  <2>1. r \in 0..10
    OBVIOUS
  <2>2. PICK at \in Pairs : at = x[r]
    BY <1>9, <2>1
  <2>3. x[r + 1] = Step(v)[r][at]
    BY <1>9, <2>2
  <2> QED
    BY <2>2, <2>3 DEF Step
<1> DEFINE Q == {r \in Nat : r <= 10 => w[r].key = x[r].h /\ w[r].state = x[r].n}
<1>12. 0 \in Q
  BY <1>1, <1>6, <1>7, <1>9
<1>13. \A r \in Nat : r \in Q => r + 1 \in Q
  <2> SUFFICES ASSUME NEW r \in Nat, r \in Q, r + 1 <= 10
               PROVE  w[r + 1].key = x[r + 1].h /\ w[r + 1].state = x[r + 1].n
    OBVIOUS
  <2>1. r \in 0..9 /\ w[r].key = x[r].h /\ w[r].state = x[r].n
    OBVIOUS
  <2> QED
    BY <1>10, <1>11, <2>1
<1> HIDE DEF Q
<1>14. \A r \in Nat : r \in Q
  BY <1>12, <1>13, SetInduction, Zenon
<1>15. w[10].state = x[10].n
  BY <1>14 DEF Q
<1>16. MiyaguchiPreneel(S, c, M, K) = XorWords(w[10].state, XorWords(M, K))
  <2>1. MiyaguchiPreneel(S, c, M, K)
          = XorWords(Rounds(RhoStep(S, c), start)[10].state, XorWords(M, K))
    BY <1>1, Zenon DEF MiyaguchiPreneel, RhoStep, NextBoth, ConstantOf, Both
  <2> QED
    BY <1>5, <1>7, <2>1
<1>17. Compress(v, M, K) = XorWords(K, XorWords(x[10].n, M))
  BY <1>8 DEF Compress
<1>18. x[10].n \in Matrices
  <2>1. 10 \in 0..10
    OBVIOUS
  <2> QED
    BY <1>9, <2>1 DEF Pairs
<1> QED
  BY <1>15, <1>16, <1>17, <1>18, XorWordsThree

\* The three versions are for their definitions.
LEMMA VersionsFor ==
  /\ IsFor(Sph!plain, plain_S, Sph!plain_row) /\ IsFor(Sph!old0, old0_S, Sph!old0_row)
  /\ IsFor(Sph!old1, plain_S, Sph!old0_row)
<1>1. Sph!old1_row = Sph!old0_row
  BY DEF Sph!old1_row, Sph!old0_row
<1> QED
  BY <1>1, Versions3 DEF IsFor, TablesOf

-----------------------------------------------------------------------------
(* The padding of the definition.                                          *)

\* The number of zeros.
ZerosOf(n) == CHOOSE z \in 0..63 : (n + 1 + z + 32) % 64 = 0

\* A number of zeros fills the last block.
LEMMA FillerIs ==
  ASSUME NEW n \in Nat
  PROVE  \E z \in 0..63, N \in Nat : z = ZerosOf(n) /\ n + 33 + z = 64 * N
<1> DEFINE z == ZerosOf(n)
<1>1. PICK u \in 0..63 : u = 63 - ((n + 32) % 64)
  OBVIOUS
<1>2. (n + 1 + u + 32) % 64 = 0
  BY <1>1
<1>3. z \in 0..63 /\ (n + 1 + z + 32) % 64 = 0
  BY <1>2 DEF ZerosOf
<1> HIDE DEF z
<1>4. PICK N \in Nat : N = (n + 33 + z) \div 64
  BY <1>3
<1>5. n + 33 + z = 64 * N
  BY <1>3, <1>4
<1> QED
  BY <1>3, <1>5 DEF z

\* The last bytes of the padded message.
Tail3(n) == <<(8 * n) \div 65536, ((8 * n) \div 256) % 256, (8 * n) % 256>>

\* They are the length in bits.
LEMMA TailIs ==
  ASSUME NEW n \in Nat, 8 * n < Sph!CountBound
  PROVE  /\ Tail3(n) \in Bytes(3)
         /\ Tail3(n)[1] = (((8 * n) \div 256) \div 256) % 256
         /\ Tail3(n)[2] = ((8 * n) \div 256) % 256 /\ Tail3(n)[3] = (8 * n) % 256
<1>1. PICK x \in Nat : x = 8 * n
  OBVIOUS
<1>2. x \div 65536 = (x \div 256) \div 256
  BY SMT
<1>3. (x \div 256) \div 256 \in 0..15
  BY <1>1, SMT DEF Sph!CountBound
<1>4. PICK y \in 0..15 : y = (x \div 256) \div 256
  BY <1>3
<1>5. Tail3(n) = <<y, (x \div 256) % 256, x % 256>>
  BY <1>1, <1>2, <1>4, SMT DEF Tail3
<1>6. y \in Byte /\ (x \div 256) % 256 \in Byte /\ x % 256 \in Byte /\ y % 256 = y
  BY DEF Byte
<1>7. PICK a \in Byte : a = (x \div 256) % 256
  BY <1>6
<1>8. PICK b \in Byte : b = x % 256
  BY <1>6
<1>9. Tail3(n) = <<y, a, b>>
  BY <1>5, <1>7, <1>8
<1>10. <<y, a, b>> \in Bytes(3)
  BY <1>6 DEF Bytes
<1> QED
  BY <1>1, <1>4, <1>6, <1>7, <1>8, <1>9, <1>10

\* q is the message, the byte 128, a filler of z bytes with the zeros of the
\* length, and the last bytes of the length.
InParts(q, d, z, n) == q = d \o << 128 >> \o [i \in 1..z + 29 |-> 0] \o Tail3(n)

\* PaddedData by its parts.
LEMMA PaddedParts ==
  ASSUME NEW n \in Nat, NEW d \in Bytes(n),
         NEW z, z = ZerosOf(n)
  PROVE  InParts(PaddedData(d), d, z, n)
<1>1. Len(d) = n
  BY BytesAre
<1>2. z = (CHOOSE u \in 0..63 : (Len(d) + 1 + u + 32) % 64 = 0)
  BY <1>1 DEF ZerosOf
<1>4. PaddedData(d)
        = d \o << 128 >> \o [i \in 1..(CHOOSE u \in 0..63 : (Len(d) + 1 + u + 32) % 64 = 0) + 29 |-> 0]
            \o <<(8 * Len(d)) \div 65536, ((8 * Len(d)) \div 256) % 256, (8 * Len(d)) % 256>>
  BY DEF PaddedData
<1>3. Tail3(n) = <<(8 * Len(d)) \div 65536, ((8 * Len(d)) \div 256) % 256, (8 * Len(d)) % 256>>
  BY <1>1 DEF Tail3
<1> QED
  BY <1>2, <1>3, <1>4 DEF InParts

\* It is the padded message.
LEMMA DefinitionPads ==
  ASSUME NEW n \in Nat, 8 * n < Sph!CountBound, NEW d \in Bytes(n)
  PROVE  \E N \in Nat : Pads(PaddedData(d), d, n, N)
<1>1. PICK z \in 0..63, N \in Nat : z = ZerosOf(n) /\ n + 33 + z = 64 * N
  BY FillerIs
<1>2. PICK zs : zs = [i \in 1..z + 29 |-> 0]
  OBVIOUS
<1>3. PICK x \in Nat : x = 1
  OBVIOUS
<1>4. PICK m : m = << 128 >>
  OBVIOUS
<1>5. m \in Bytes(x) /\ m[1] = 128
  BY <1>3, <1>4, SomeBytes DEF Bytes
<1>6. PICK y \in Nat : y = z + 29
  OBVIOUS
<1>7. zs \in Bytes(y) /\ \A i \in 1..y : zs[i] = 0
  BY <1>2, <1>6, SomeBytes DEF Bytes
<1>8. PICK w \in Nat : w = 3
  OBVIOUS
<1>9. PICK t : t = Tail3(n)
  OBVIOUS
<1>10. /\ t \in Bytes(w) /\ t[1] = (((8 * n) \div 256) \div 256) % 256
       /\ t[2] = ((8 * n) \div 256) % 256 /\ t[3] = (8 * n) % 256
  BY <1>8, <1>9, TailIs
<1>11. PICK c : c = d \o m /\ c \in Bytes(n + x) /\ Holds(c, 0, d, n) /\ Holds(c, n, m, x)
  BY <1>5, JoinedIs
<1>12. PICK k \in Nat : k = n + x
  OBVIOUS
<1>13. PICK f : f = c \o zs /\ f \in Bytes(k + y) /\ Holds(f, 0, c, k) /\ Holds(f, k, zs, y)
  <2>1. c \in Bytes(k)
    BY <1>11, <1>12
  <2> QED
    BY <1>7, <2>1, JoinedIs
<1>14. PICK j \in Nat : j = k + y
  OBVIOUS
<1>15. PICK p : p = f \o t /\ p \in Bytes(j + w) /\ Holds(p, 0, f, j) /\ Holds(p, j, t, w)
  <2>1. f \in Bytes(j)
    BY <1>13, <1>14
  <2> QED
    BY <1>10, <2>1, JoinedIs
<1>16. p = PaddedData(d)
  <2>1. PICK u : u = z /\ u = ZerosOf(n)
    BY <1>1
  <2>0. InParts(PaddedData(d), d, u, n)
    BY <2>1, PaddedParts
  <2>2. PaddedData(d) = d \o << 128 >> \o [i \in 1..u + 29 |-> 0] \o Tail3(n)
    BY <2>0, Zenon DEF InParts
  <2>3. PaddedData(d) = d \o m \o zs \o t
    BY <1>2, <1>4, <1>9, <2>1, <2>2
  <2> QED
    BY <1>11, <1>13, <1>15, <2>3
<1>17. k = n + 1 /\ j = n + 1 + y /\ j + w = 64 * N /\ j = 64 * N - 3 /\ y = z + 29
  BY <1>1, <1>3, <1>6, <1>8, <1>12, <1>14
<1>18. ASSUME NEW i \in 1..j PROVE p[i] = f[i]
  <2>1. 0 + i = i
    OBVIOUS
  <2>2. p[0 + i] = f[i]
    BY <1>15 DEF Holds
  <2> QED
    BY <2>1, <2>2
<1>19. ASSUME NEW i \in 1..k PROVE f[i] = c[i] /\ i \in 1..j
  <2>1. 0 + i = i /\ i \in 1..j
    BY <1>17
  <2>2. f[0 + i] = c[i]
    BY <1>13 DEF Holds
  <2> QED
    BY <2>1, <2>2
<1>20. ASSUME NEW i \in 1..n PROVE p[i] = d[i]
  <2>1. 0 + i = i /\ i \in 1..k
    BY <1>17
  <2>2. c[0 + i] = d[i]
    BY <1>11 DEF Holds
  <2> QED
    BY <1>18, <1>19, <2>1, <2>2
<1>21. p[n + 1] = 128
  <2>1. 1 \in 1..x /\ n + 1 \in 1..k
    BY <1>3, <1>17
  <2>2. c[n + 1] = m[1]
    BY <1>11, <2>1 DEF Holds
  <2> QED
    BY <1>5, <1>18, <1>19, <2>1, <2>2
<1>22. ASSUME NEW i \in Nat, n + 2 <= i, i <= 64 * N - 3 PROVE p[i] = 0
  <2>1. PICK u \in 1..y : i = k + u
    BY <1>17, <1>22
  <2>2. f[k + u] = zs[u]
    BY <1>13 DEF Holds
  <2>3. i \in 1..j
    BY <1>17, <1>22
  <2> QED
    BY <1>7, <1>18, <2>1, <2>2, <2>3
<1>23. IsLength([i \in 1..32 |-> p[64 * N - 32 + i]], n)
  <2>1. PICK e : e = [i \in 1..32 |-> p[64 * N - 32 + i]]
    OBVIOUS
  <2>2. \A i \in 1..32 : e[i] = p[64 * N - 32 + i] /\ 64 * N - 32 + i \in 1..j + w
    BY <1>17, <2>1
  <2>3. e \in Bytes(32)
    BY <1>15, <2>1, <2>2 DEF Bytes
  <2>4. ASSUME NEW i \in 1..29 PROVE e[i] = 0
    <3>1. PICK q \in Nat : q = 64 * N - 32 + i
      BY <1>1
    <3>2. n + 2 <= q /\ q <= 64 * N - 3
      BY <1>1, <3>1
    <3>3. p[q] = 0
      BY <1>22, <3>2
    <3>4. e[i] = p[64 * N - 32 + i]
      BY <2>2
    <3> QED
      BY <3>1, <3>3, <3>4
  <2>5. ASSUME NEW i \in 1..3 PROVE e[29 + i] = t[i]
    <3>1. 29 + i \in 1..32 /\ 64 * N - 32 + (29 + i) = j + i
      BY <1>17
    <3>2. p[j + i] = t[i]
      BY <1>8, <1>15 DEF Holds
    <3> QED
      BY <2>2, <3>1, <3>2
  <2>6. e[30] = t[1] /\ e[31] = t[2] /\ e[32] = t[3]
    <3>1. 1 \in 1..3 /\ 2 \in 1..3 /\ 3 \in 1..3 /\ 29 + 1 = 30 /\ 29 + 2 = 31 /\ 29 + 3 = 32
      OBVIOUS
    <3> QED
      BY <2>5, <3>1
  <2> QED
    BY <1>10, <2>1, <2>3, <2>4, <2>6 DEF IsLength
<1>27. PICK l \in Nat : l = 64 * N /\ l = j + w
  BY <1>17
<1>28. 64 * N - 64 < n + 33 /\ n + 33 <= 64 * N
  BY <1>1
<1>24. p \in Bytes(64 * N) /\ 64 * N - 64 < n + 33 /\ n + 33 <= 64 * N
  <2>1. p \in Bytes(l)
    BY <1>15, <1>27
  <2> QED
    BY <1>27, <1>28, <2>1
<1>25. \A i \in n + 2..64 * N - 32 : p[i] = 0
  <2> SUFFICES ASSUME NEW i \in n + 2..64 * N - 32 PROVE p[i] = 0
    OBVIOUS
  <2>1. i \in Nat /\ n + 2 <= i /\ i <= 64 * N - 3
    OBVIOUS
  <2> QED
    BY <1>22, <2>1
<1>26. Pads(p, d, n, N)
  BY <1>20, <1>21, <1>23, <1>24, <1>25 DEF Pads
<1> QED
  BY <1>16, <1>26

-----------------------------------------------------------------------------
(* The digests of the CPU are the defined ones.                            *)

\* The definition goes through the blocks of the padded message as the code does.
LEMMA DefinedIs ==
  ASSUME NEW n \in Nat, 8 * n < Sph!CountBound, NEW d \in Bytes(n),
         NEW S, NEW c, NEW v, IsFor(v, S, c)
  PROVE  Defined(S, c, d) = Sph!Hash(v, d)
<1>24. PICK N \in Nat : Pads(PaddedData(d), d, n, N)
  BY DefinitionPads
<1>25. PICK p : p = PaddedData(d)
  OBVIOUS
<1>1. p = PaddedData(d) /\ Pads(p, d, n, N)
  BY <1>24, <1>25
<1>2. IsVersion(v)
  BY DEF IsFor
<1> DEFINE pd == PaddedData(d)
           V == Matrices
           D(i) == Words(Chunk(p, i - 1))
           h == [z \in (1..N) \X V |-> Compress(v, D(z[1]), z[2])]
           a == ZeroWords
           seq == [b \in 1..(Len(pd) \div 64) |-> b]
           TurnOf(K, b) == MiyaguchiPreneel(S, c, Sph!READ_DATA(SubSeq(pd, 64 * b - 63, 64 * b)), K)
           Is(x) == x = [s \in SUBSET DOMAIN seq |->
                           IF s = {} THEN ZeroWords
                           ELSE TurnOf(x[s \ {Max(s)}], seq[Max(s)])]
           x == CHOOSE y : Is(y)
<1>22. Defined(S, c, d) = Sph!Digest(x[DOMAIN seq])
  BY Zenon DEF Defined, FoldLeft, MapThenFoldSet
<1>23. pd = p
  BY <1>1
<1> HIDE DEF pd
<1>3. PICK l \in Nat : l = 64 * N /\ p \in Bytes(l)
  BY <1>1 DEF Pads
<1>4. Len(p) \div 64 = N
  <2>1. Len(p) = l
    BY <1>3, BytesAre
  <2> QED
    BY <1>3, <2>1
<1>5. DOMAIN seq = 1..N /\ \A i \in 1..N : seq[i] = i
  BY <1>4, <1>23
<1> HIDE DEF seq
<1>7. ASSUME NEW i \in 1..N
      PROVE  /\ D(i) \in Matrices
             /\ \A K \in Matrices : TurnOf(K, i) = Compress(v, D(i), K)
  <2>1. PICK b \in Nat : b = i - 1
    OBVIOUS
  <2>2. 64 * b + 64 <= l /\ 64 * b + 1 = 64 * i - 63 /\ 64 * b + 64 = 64 * i
    BY <1>3, <2>1
  <2>3. Chunk(p, b) \in Block64 /\ SubSeq(p, 64 * b + 1, 64 * b + 64) = Chunk(p, b)
    BY <1>3, <2>2, ChunkIs
  <2>4. PICK m \in Block64 : m = Chunk(p, b)
    BY <2>3
  <2>5. Words(m) \in Matrices /\ Sph!READ_DATA(m) = Words(m)
    BY ChunkWords
  <2>6. SubSeq(p, 64 * i - 63, 64 * i) = m
    BY <2>2, <2>3, <2>4
  <2>7. D(i) = Words(m)
    BY <2>1, <2>4
  <2>8. ASSUME NEW K \in Matrices PROVE TurnOf(K, i) = Compress(v, D(i), K)
    <3>1. MiyaguchiPreneel(S, c, Words(m), K) = Compress(v, Words(m), K)
      BY <2>5, MiyaguchiIs
    <3> QED
      BY <1>23, <2>5, <2>6, <2>7, <3>1
  <2> QED
    BY <2>5, <2>7, <2>8
<1> HIDE DEF D, TurnOf
<1>8. \A i \in 1..N : \A w \in V : h[<<i, w>>] = Compress(v, D(i), w) /\ Compress(v, D(i), w) \in V
  <2> SUFFICES ASSUME NEW i \in 1..N, NEW w \in V
               PROVE  h[<<i, w>>] = Compress(v, D(i), w) /\ Compress(v, D(i), w) \in V
    OBVIOUS
  <2>1. <<i, w>> \in (1..N) \X V /\ <<i, w>>[2] = w /\ <<i, w>>[1] = i
    OBVIOUS
  <2>2. PICK m \in Matrices : m = D(i)
    BY <1>7
  <2>3. Compress(v, m, w) \in V
    BY <1>2, CompressIs
  <2> HIDE DEF V
  <2>4. h[<<i, w>>] = Compress(v, D(i), w)
    BY <2>1, Zenon
  <2> QED
    BY <2>2, <2>3, <2>4
<1>9. a \in V
  BY ZeroIs
<1>10. V = Matrices
  OBVIOUS
<1> HIDE DEF h, V, a
<1>11. Closed(h, 1..N, V)
  BY <1>8 DEF Closed
<1>12. PICK G \in [SUBSET (1..N) -> V] : FoldsBy(G, a, h, N)
  BY <1>9, <1>11, FoldMade
<1>13. ASSUME NEW s \in SUBSET (1..N), s # {}, NEW w \in V
       PROVE  h[<<Max(s), w>>] = TurnOf(w, seq[Max(s)])
  <2>1. Max(s) \in 1..N
    BY <1>13, MaxOf
  <2>2. PICK i \in 1..N : i = Max(s)
    BY <2>1
  <2>3. seq[i] = i
    BY <1>5
  <2>4. h[<<i, w>>] = Compress(v, D(i), w)
    BY <1>8
  <2>5. TurnOf(w, i) = Compress(v, D(i), w)
    BY <1>7, <1>10
  <2> QED
    BY <2>2, <2>3, <2>4, <2>5
<1>14. Is(G)
  <2>1. ASSUME NEW s \in SUBSET (1..N)
        PROVE  (IF s = {} THEN a ELSE h[<<Max(s), G[s \ {Max(s)}]>>])
                 = (IF s = {} THEN ZeroWords ELSE TurnOf(G[s \ {Max(s)}], seq[Max(s)]))
    <3>1. CASE s = {}
      BY <3>1 DEF a
    <3>2. CASE s # {}
      <4>1. G[s \ {Max(s)}] \in V
        OBVIOUS
      <4> QED
        BY <1>13, <3>2, <4>1
    <3> QED
      BY <3>1, <3>2
  <2> QED
    BY <1>5, <1>12, <2>1 DEF FoldsBy
<1> HIDE DEF Is
<1>15. Is(x)
  BY <1>14, Zenon
<1> HIDE DEF x
<1>16. x = [s \in SUBSET (1..N) |-> IF s = {} THEN ZeroWords
                                    ELSE TurnOf(x[s \ {Max(s)}], seq[Max(s)])]
  BY <1>5, <1>15 DEF Is
<1>17. FoldsLike(x, a, h, N, V)
  <2>1. x[{}] = a
    BY <1>16 DEF a
  <2>2. ASSUME NEW s \in SUBSET (1..N), s # {}, x[s \ {Max(s)}] \in V
        PROVE  x[s] = h[<<Max(s), x[s \ {Max(s)}]>>]
    <3>1. x[s] = TurnOf(x[s \ {Max(s)}], seq[Max(s)])
      BY <1>16, <2>2
    <3> QED
      BY <1>13, <2>2, <3>1
  <2> QED
    BY <2>1, <2>2 DEF FoldsLike, OneStepOn
<1>18. PICK f \in [0..N -> V] : Goes(f, a, h, N) /\ x[1..N] = f[N]
  BY <1>9, <1>11, <1>17, FoldGoes
<1>19. ChainOf(f, v, p, N)
  <2>1. ASSUME NEW i \in 0..N - 1 PROVE f[i + 1] = Compress(v, Words(Chunk(p, i)), f[i])
    <3>1. i \in 0..N /\ i + 1 \in 1..N /\ (i + 1) - 1 = i
      OBVIOUS
    <3>2. f[i + 1] = h[<<i + 1, f[i]>>] /\ f[i] \in V
      BY <1>18, <3>1 DEF Goes
    <3>3. f[i + 1] = Compress(v, D(i + 1), f[i])
      BY <1>8, <3>1, <3>2
    <3> QED
      BY <3>1, <3>3 DEF D
  <2> QED
    BY <1>18, <2>1 DEF ChainOf, Goes, a
<1>20. PICK k \in [0..N -> Matrices] : ChainOf(k, v, p, N) /\ Sph!Hash(v, d) = Sph!Digest(k[N])
  BY <1>1, <1>2, HashIs
<1>21. f[N] = k[N]
  BY <1>19, <1>20, OneChain
<1> QED
  BY <1>5, <1>18, <1>20, <1>21, <1>22

\* The messages are strings of bytes.
LEMMA MessageIs == ASSUME NEW n \in Nat PROVE Message(n) \in Bytes(n)
<1>1. \A k \in Nat : k % 256 \in Byte
  BY DEF Byte
<1>2. \A i \in 1..n : (7 * i + 3) % 256 \in Byte
  BY <1>1
<1> QED
  BY <1>2 DEF Message, Bytes

\* A call computes the definition.
LEMMA CpuStep == ASSUME NEW version \in Versions, NEW n \in Lengths, HashMessage(version, n)
                 PROVE  CpuIsWhirlpool'
<1>1. n \in Nat /\ 8 * n < Sph!CountBound
  BY CpuAssumption
<1>2. PICK d \in Bytes(n) : d = Message(n)
  BY <1>1, MessageIs
<1>3. cpu'.version = version /\ cpu'.message = d
  BY <1>2 DEF HashMessage
<1>4. CASE version = "whirlpool"
  <2>1. cpu'.digest = Sph!Hash(Sph!plain, d)
    BY <1>2, <1>4 DEF HashMessage, Sph!Whirlpool512
  <2>2. Defined(plain_S, Sph!plain_row, d) = Sph!Hash(Sph!plain, d)
    BY <1>1, DefinedIs, VersionsFor
  <2> QED
    BY <1>3, <1>4, <2>1, <2>2 DEF CpuIsWhirlpool
<1>5. CASE version = "whirlpool0"
  <2>1. cpu'.digest = Sph!Hash(Sph!old0, d)
    BY <1>2, <1>5 DEF HashMessage, Sph!sph_whirlpool0
  <2>2. Defined(old0_S, Sph!old0_row, d) = Sph!Hash(Sph!old0, d)
    BY <1>1, DefinedIs, VersionsFor
  <2> QED
    BY <1>3, <1>5, <2>1, <2>2 DEF CpuIsWhirlpool
<1>6. CASE version = "whirlpool1"
  <2>1. cpu'.digest = Sph!Hash(Sph!old1, d)
    BY <1>2, <1>6 DEF HashMessage, Sph!sph_whirlpool1
  <2>2. Defined(plain_S, Sph!old0_row, d) = Sph!Hash(Sph!old1, d)
    BY <1>1, DefinedIs, VersionsFor
  <2> QED
    BY <1>3, <1>6, <2>1, <2>2 DEF CpuIsWhirlpool
<1> QED
  BY <1>4, <1>5, <1>6 DEF Versions

\* The digest of each of the three versions is the defined one, for a message
\* of every length the byte counter holds.
THEOREM CpuHashesAsDefined == Spec => []CpuIsWhirlpool
<1>1. Init => CpuIsWhirlpool
  BY DEF Init, CpuInit, CpuIsWhirlpool
<1>2. CpuIsWhirlpool /\ [Next]_vars => CpuIsWhirlpool'
  <2> SUFFICES ASSUME CpuIsWhirlpool, [Next]_vars PROVE CpuIsWhirlpool'
    OBVIOUS
  <2>1. CASE UNCHANGED cpu
    BY <2>1 DEF CpuIsWhirlpool
  <2>2. CASE HashOnCpu
    BY <2>2, CpuStep DEF HashOnCpu, CpuNext
  <2>3. HashOnCpu \/ UNCHANGED cpu
    BY DEF Next, vars, ExchangeLines, ParseNotify, HashHeader92, UseHashObject, HashOnGpu
  <2> QED
    BY <2>1, <2>2, <2>3
<1> QED
  BY <1>1, <1>2, PTL DEF Spec

=============================================================================
