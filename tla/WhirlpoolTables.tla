-------------------------- MODULE WhirlpoolTables --------------------------
(***************************************************************************)
(* The arithmetic behind the lookup tables of Whirlpool, for the two       *)
(* modules that hold a copy of them: SphWhirlpool (the CPU, whirlpool.c)   *)
(* and CudaWhirlpool (the GPU, cuda_whirlpool_tables.cuh).                 *)
(*                                                                         *)
(* A 64-bit word is the tuple of its eight bytes, least significant first: *)
(* BYTE(x, n) of the code is x[n + 1].  An entry of a table multiplies one *)
(* substituted byte by a row of the diffusion matrix; the table with       *)
(* number k is the one with number 0 turned by k bytes.                    *)
(***************************************************************************)
EXTENDS Integers, Sequences, SequencesExt

Byte == 0..255

\* Eight bytes of a word, eight words of a block.
Eight(Op(_)) == <<Op(0), Op(1), Op(2), Op(3), Op(4), Op(5), Op(6), Op(7)>>

\* x ^ y of two bytes, looked up instead of computed anew each time.
XorBit(x, y, n) == (x \div n + y \div n) % 2
XorTable ==
  [x \in Byte |-> [y \in Byte |->
     XorBit(x, y, 1) + 2 * XorBit(x, y, 2) + 4 * XorBit(x, y, 4) + 8 * XorBit(x, y, 8)
       + 16 * XorBit(x, y, 16) + 32 * XorBit(x, y, 32) + 64 * XorBit(x, y, 64)
       + 128 * XorBit(x, y, 128)]]
XorByte(x, y) == XorTable[x][y]

XorWord(a, b)  == Eight(LAMBDA i : XorByte(a[i + 1], b[i + 1]))
XorWords(a, b) == Eight(LAMBDA j : XorWord(a[j + 1], b[j + 1]))

\* The sum of eight words.
XorAll(Op(_)) ==
  XorWord(XorWord(XorWord(Op(0), Op(1)), XorWord(Op(2), Op(3))),
          XorWord(XorWord(Op(4), Op(5)), XorWord(Op(6), Op(7))))

Matrices == [1..8 -> [1..8 -> Byte]]

ZeroWord  == Eight(LAMBDA i : 0)
ZeroWords == Eight(LAMBDA j : ZeroWord)

\* Multiplication in GF(2^8) modulo x^8 + x^4 + x^3 + x^2 + 1.
Double(x)   == IF x < 128 THEN 2 * x ELSE XorByte(2 * x - 256, 29)
TimesGF(c, x) ==
  LET x2 == Double(x)
      x4 == Double(x2)
      Bit(n, y) == IF (c \div n) % 2 = 1 THEN y ELSE 0
  IN XorByte(XorByte(Bit(1, x), Bit(2, x2)), XorByte(Bit(4, x4), Bit(8, Double(x4))))

\* The low bytes of plain_T0 and old1_T0.
plain_S ==
 << 24,  35, 198, 232, 135, 184,   1,  79,  54, 166, 210, 245, 121, 111, 145,  82,
    96, 188, 155, 142, 163,  12, 123,  53,  29, 224, 215, 194,  46,  75, 254,  87,
    21, 119,  55, 229, 159, 240,  74, 218,  88, 201,  41,  10, 177, 160, 107, 133,
   189,  93,  16, 244, 203,  62,   5, 103, 228,  39,  65, 139, 167, 125, 149, 216,
   251, 238, 124, 102, 221,  23,  71, 158, 202,  45, 191,   7, 173,  90, 131,  51,
    99,   2, 170, 113, 200,  25,  73, 217, 242, 227,  91, 136, 154,  38,  50, 176,
   233,  15, 213, 128, 190, 205,  52,  72, 255, 122, 144,  95,  32, 104,  26, 174,
   180,  84, 147,  34, 100, 241, 115,  18,  64,   8, 195, 236, 219, 161, 141,  61,
   151,   0, 207,  43, 118, 130, 214,  27, 181, 175, 106,  80,  69, 243,  48, 239,
    63,  85, 162, 234, 101, 186,  47, 192, 222,  28, 253,  77, 146, 117,   6, 138,
   178, 230,  14,  31,  98, 212, 168, 150, 249, 197,  37,  89, 132, 114,  57,  76,
    94, 120,  56, 140, 209, 165, 226,  97, 179,  33, 156,  30,  67, 199, 252,   4,
    81, 153, 109,  13, 250, 223, 126,  36,  59, 171, 206,  17, 143,  78, 183, 235,
    60, 129, 148, 247, 185,  19,  44, 211, 231, 110, 196,   3,  86,  68, 127, 169,
    42, 187, 193,  83, 220,  11, 157, 108,  49, 116, 246,  70, 172, 137,  20, 225,
    22,  58, 105,   9, 112, 182, 208, 237, 204,  66, 152, 164,  40,  92, 248, 134>>

\* The low bytes of old0_T0.
old0_S ==
 <<104, 208, 235,  43,  72, 157, 106, 228, 227, 163,  86, 129, 125, 241, 133, 158,
    44, 142, 120, 202,  23, 169,  97, 213,  93,  11, 140,  60, 119,  81,  34,  66,
    63,  84,  65, 128, 204, 134, 179,  24,  46,  87,   6,  98, 244,  54, 209, 107,
    27, 101, 117,  16, 218,  73,  38, 249, 203, 102, 231, 186, 174,  80,  82, 171,
     5, 240,  13, 115,  59,   4,  32, 254, 221, 245, 180,  95,  10, 181, 192, 160,
   113, 165,  45,  96, 114, 147,  57,   8, 131,  33,  92, 135, 177, 224,   0, 195,
    18, 145, 138,   2,  28, 230,  69, 194, 196, 253, 191,  68, 161,  76,  51, 197,
   132,  35, 124, 176,  37,  21,  53, 105, 255, 148,  77, 112, 162, 175, 205, 214,
   108, 183, 248,   9, 243, 103, 164, 234, 236, 182, 212, 210,  20,  30, 225,  36,
    56, 198, 219,  75, 122,  58, 222,  94, 223, 149, 252, 170, 215, 206,   7,  15,
    61,  88, 154, 152, 156, 242, 167,  17, 126, 139,  67,   3, 226, 220, 229, 178,
    78, 199, 109, 233,  39,  64, 216,  55, 146, 143,   1,  29,  83,  62,  89, 193,
    79,  50,  22, 250, 116, 251,  99, 159,  52,  26,  42,  90, 141, 201, 207, 246,
   144,  40, 136, 155,  49,  14, 189,  74, 232, 150, 166,  12, 200, 121, 188, 190,
   239, 110,  70, 151,  91, 237,  25, 217, 172, 153, 168,  41, 100,  31, 173,  85,
    19, 187, 247, 111, 185,  71,  47, 238, 184, 123, 137,  48, 211, 127, 118, 130>>

\* Table k: byte i of entry x is S[x] times the row's coefficient i - k.
Table(S, row, k) ==
  [x \in Byte |-> Eight(LAMBDA i : TimesGF(row[((i - k) % 8) + 1], S[x + 1]))]

\* The entries of a table of n words, byte by byte, each as often as its place
\* says: no single entry can change, and no two neighbours change places, and
\* leave it as it is.
Weighted(T, n) ==
  Eight(LAMBDA i : LET sum[k \in 0..n] == IF k = 0 THEN 0 ELSE sum[k - 1] + k * T[k - 1][i + 1]
                   IN sum[n])

\* The eight tables of a version have these sums, each turned one byte on.
SumsAsWritten(T, sums) ==
  \A k \in 0..7 : Weighted(T[k + 1], 256) = Eight(LAMBDA i : sums[((i - k) % 8) + 1])

\* Ten rounds, each a function of what the round before has made.
Rounds(Round, start) ==
  LET at[r \in 0..10] == IF r = 0 THEN start ELSE Round[r - 1][at[r - 1]] IN at

\* Round constant r: eight consecutive bytes of the substitution box.
RoundConstants(S) == [r \in 0..9 |-> Eight(LAMBDA i : S[8 * r + i + 1])]

=============================================================================
