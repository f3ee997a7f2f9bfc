------------------------ MODULE WhirlpoolBackendProofs ------------------------
(***************************************************************************)
(* Theorems about WhirlpoolBackend, for every set of works, batches and    *)
(* hashes, every launch geometry and every number of failing calls.        *)
(*                                                                         *)
(* The arithmetic comes first: bytes as numbers, their order, the share    *)
(* target, text and bytes, the header.  Then the invariant, one lemma per  *)
(* conjunct with one step per action, the four properties from it, and     *)
(* the steps of the abstract search.                                       *)
(***************************************************************************)
EXTENDS WhirlpoolBackend, DataLemmas, SequenceTheorems, TLAPS

-----------------------------------------------------------------------------
(* Numbers as bytes.                                                       *)

\* What is assumed of the digits, the bytes and the width of a hash.
LEMMA Bytes == Byte \in Nat \ {0} /\ Hex \in Nat \ {0} /\ Byte = Hex * Hex /\ Byte >= 4
<1>1. \A h \in Nat : h >= 2 => h * h \in Nat /\ h * h >= 4
  OBVIOUS
<1>2. Hex \in Nat /\ Hex >= 2
  BY PowAssumption
<1> QED
  BY <1>1, <1>2 DEF Byte

\* A hash has at least eight bytes.
LEMMA Width == N \in Nat /\ N >= 8
  BY PowAssumption

\* What the bytes from the i-th on stand for.
From(v, b, n) == v[n + 1] = 0 /\ \A i \in 1..n : v[i] = b[i] + Byte * v[i + 1]

\* FromLE is computed from the last byte down.
LEMMA FromExists ==
  ASSUME NEW n \in Nat, NEW b \in [1..n -> Nat]
  PROVE  \E v \in [1..n + 1 -> Nat] : From(v, b, n) /\ FromLE(b) = v[1]
<1> DEFINE h == [q \in (1..n) \X Nat |-> b[q[1]] + Byte * q[2]]
<1>1. \A i \in 1..n : \A x \in Nat : h[<<i, x>>] = b[i] + Byte * x /\ b[i] + Byte * x \in Nat
  <2> SUFFICES ASSUME NEW i \in 1..n, NEW x \in Nat
               PROVE  h[<<i, x>>] = b[i] + Byte * x /\ b[i] + Byte * x \in Nat
    OBVIOUS
  <2>1. <<i, x>> \in (1..n) \X Nat /\ <<i, x>>[1] = i /\ <<i, x>>[2] = x
    OBVIOUS
  <2>2. h[<<i, x>>] = b[i] + Byte * x
    BY <2>1, Zenon
  <2>3. b[i] \in Nat /\ Byte * x \in Nat
    BY Bytes
  <2> QED
    BY <2>2, <2>3
<1> HIDE DEF h
<1>2. Closed(h, 1..n, Nat)
  BY <1>1 DEF Closed
<1>3. PICK v \in [1..n + 1 -> Nat] : CountsDown(v, 0, h, n)
  <2> 0 \in Nat
    OBVIOUS
  <2> QED
    BY <1>2, DownRecursion
<1>4. From(v, b, n)
  <2>1. ASSUME NEW i \in 1..n PROVE v[i] = b[i] + Byte * v[i + 1]
    <3>1. v[i + 1] \in Nat
      OBVIOUS
    <3> QED
      BY <1>1, <1>3, <3>1 DEF CountsDown
  <2> QED
    BY <1>3, <2>1 DEF From, CountsDown
<1>5. Len(b) = n
  OBVIOUS
<1>6. v = [i \in 1..Len(b) + 1 |-> IF i > Len(b) THEN 0 ELSE b[i] + Byte * v[i + 1]]
  <2>1. ASSUME NEW i \in 1..n + 1 PROVE v[i] = IF i > n THEN 0 ELSE b[i] + Byte * v[i + 1]
    <3>1. CASE i = n + 1
      BY <1>4, <3>1 DEF From
    <3>2. CASE i # n + 1
      <4>1. i \in 1..n /\ ~(i > n)
        BY <3>2
      <4> QED
        BY <1>4, <4>1 DEF From
    <3> QED
      BY <3>1, <3>2
  <2> QED
    BY <1>5, <2>1
<1> DEFINE w == CHOOSE f : f = [i \in 1..Len(b) + 1 |-> IF i > Len(b) THEN 0 ELSE b[i] + Byte * f[i + 1]]
<1>7. w = [i \in 1..Len(b) + 1 |-> IF i > Len(b) THEN 0 ELSE b[i] + Byte * w[i + 1]]
  BY <1>6, Zenon
<1>8. FromLE(b) = w[1]
  BY Zenon DEF FromLE
<1> HIDE DEF w
<1>9. \A i \in 1..n + 1 : i \in {k \in 1..n + 1 : w[k] = v[k]}
  <2> DEFINE P == {k \in 1..n + 1 : w[k] = v[k]}
  <2>1. n + 1 \in P
    BY <1>4, <1>5, <1>7 DEF From
  <2>2. \A i \in 1..n : i + 1 \in P => i \in P
    <3> SUFFICES ASSUME NEW i \in 1..n, w[i + 1] = v[i + 1] PROVE w[i] = v[i]
      OBVIOUS
    <3>1. i \in 1..Len(b) + 1 /\ ~(i > Len(b))
      BY <1>5
    <3>2. w[i] = b[i] + Byte * w[i + 1]
      BY <1>7, <3>1
    <3> QED
      BY <1>4, <3>2 DEF From
  <2> HIDE DEF P
  <2>3. \A i \in 1..n + 1 : i \in P
    BY <2>1, <2>2, DownInduction
  <2> QED
    BY <2>3 DEF P
<1>10. FromLE(b) = v[1]
  BY <1>8, <1>9
<1> QED
  BY <1>4, <1>10

\* Two numbers are alike from some byte on, and differ in the byte below.
Top(i, a, b, n) == a[i] # b[i] /\ \A j \in i + 1..n : a[j] = b[j]

\* Where two sequences differ there is a last place where they do.
LEMMA TopDifference ==
  ASSUME NEW n \in Nat, NEW a, NEW b, ~ \A i \in 1..n : a[i] = b[i]
  PROVE  \E i \in 1..n : Top(i, a, b, n)
<1> USE DEF Top
<1> SUFFICES ASSUME \A i \in 1..n : (\A j \in i + 1..n : a[j] = b[j]) => a[i] = b[i]
             PROVE  FALSE
  BY Zenon
<1> DEFINE P == {i \in 1..n + 1 : \A j \in i..n : a[j] = b[j]}
<1>1. n + 1 \in P
  OBVIOUS
<1>2. \A i \in 1..n : i + 1 \in P => i \in P
  <2> SUFFICES ASSUME NEW i \in 1..n, \A j \in i + 1..n : a[j] = b[j]
               PROVE  \A j \in i..n : a[j] = b[j]
    OBVIOUS
  <2>1. a[i] = b[i]
    OBVIOUS
  <2>2. \A j \in i..n : j = i \/ j \in i + 1..n
    OBVIOUS
  <2> QED
    BY <2>1, <2>2
<1>3. 1 \in 1..n + 1
  OBVIOUS
<1> HIDE DEF P
<1>4. \A i \in 1..n + 1 : i \in P
  BY <1>1, <1>2, DownInduction
<1> QED
  BY <1>3, <1>4 DEF P

\* The topmost difference decides, whatever is below.
LEMMA TopDecides ==
  ASSUME NEW n \in Nat, NEW a \in [1..n -> 0..Byte - 1], NEW b \in [1..n -> 0..Byte - 1],
         NEW i \in 1..n, a[i] < b[i], \A j \in i + 1..n : a[j] = b[j]
  PROVE  FromLE(a) < FromLE(b)
<1>0. a \in [1..n -> Nat] /\ b \in [1..n -> Nat]
  BY Bytes
<1>1. PICK v \in [1..n + 1 -> Nat] : From(v, a, n) /\ FromLE(a) = v[1]
  BY <1>0, FromExists
<1>2. PICK w \in [1..n + 1 -> Nat] : From(w, b, n) /\ FromLE(b) = w[1]
  BY <1>0, FromExists
<1> DEFINE P == {k \in 1..n + 1 : IF k > i THEN v[k] = w[k] ELSE v[k] < w[k]}
<1>3. n + 1 \in P
  BY <1>1, <1>2 DEF From
<1>4. ASSUME NEW k \in 1..n, k + 1 \in P PROVE k \in P
  <2>0. k + 1 \in 1..n + 1
    OBVIOUS
  <2>1. PICK x \in Nat, y \in Nat : x = v[k + 1] /\ y = w[k + 1]
    BY <2>0
  <2>2. v[k] = a[k] + Byte * x /\ w[k] = b[k] + Byte * y
    BY <1>1, <1>2, <2>1 DEF From
  <2>3. CASE k > i
    <3>1. a[k] = b[k] /\ x = y
      BY <1>4, <2>1, <2>3
    <3> QED
      BY <2>2, <2>3, <3>1
  <2>4. CASE k = i
    <3>1. a[k] < b[k] /\ x = y
      BY <1>4, <2>1, <2>4
    <3>2. PICK z \in Nat : z = Byte * x
      BY Bytes
    <3>3. a[k] \in Nat /\ b[k] \in Nat
      BY <1>0
    <3> QED
      BY <2>2, <2>4, <3>1, <3>2, <3>3
  <2>5. CASE k < i
    <3>1. x < y
      BY <1>4, <2>1, <2>5
    <3>2. Byte * (x + 1) <= Byte * y
      <4> \A p \in Nat, q \in Nat : q >= 0 /\ p >= 0 => p * q >= 0
        OBVIOUS
      <4>1. y - (x + 1) \in Nat
        BY <3>1
      <4>2. Byte * (y - (x + 1)) >= 0
        BY <4>1, Bytes
      <4>3. Byte * (y - (x + 1)) = Byte * y - Byte * (x + 1)
        BY Bytes
      <4>4. Byte * y \in Int /\ Byte * (x + 1) \in Int
        BY Bytes
      <4> QED
        BY <4>2, <4>3, <4>4
    <3>3. Byte * (x + 1) = Byte * x + Byte
      BY Bytes
    <3>4. PICK p \in Nat, q \in Nat : p = Byte * x /\ q = Byte * y
      BY Bytes
    <3>5. a[k] \in 0..Byte - 1 /\ b[k] \in Nat
      BY <1>0
    <3>6. p + Byte <= q
      BY <3>2, <3>3, <3>4
    <3>7. v[k] = a[k] + p /\ w[k] = b[k] + q
      BY <2>2, <3>4
    <3>8. v[k] < w[k]
      <4>1. PICK d \in 0..Byte - 1, e \in Nat : d = a[k] /\ e = b[k]
        BY <3>5
      <4>2. d + p < e + q
        BY <3>6, <4>1, Bytes
      <4> QED
        BY <3>7, <4>1, <4>2
    <3> QED
      BY <2>5, <3>8
  <2> QED
    BY <2>3, <2>4, <2>5
<1>5. 1 \in 1..n + 1 /\ ~(1 > i)
  OBVIOUS
<1> HIDE DEF P
<1>6. \A k \in 1..n + 1 : k \in P
  BY <1>3, <1>4, DownInduction
<1>7. v[1] < w[1]
  BY <1>5, <1>6 DEF P
<1> QED
  BY <1>1, <1>2, <1>7

\* The number, as a comparison of bytes from the top finds it.
LEMMA LeqIsOrder ==
  ASSUME NEW n \in Nat, NEW a \in [1..n -> 0..Byte - 1], NEW b \in [1..n -> 0..Byte - 1]
  PROVE  /\ FromLE(a) \in Nat
         /\ FromLE(a) <= FromLE(b) <=> a = b \/ \E i \in 1..n : /\ a[i] < b[i]
                                                                /\ \A j \in i + 1..n : a[j] = b[j]
<1>0. a \in [1..n -> Nat] /\ b \in [1..n -> Nat]
  BY Bytes
<1>1. FromLE(a) \in Nat /\ FromLE(b) \in Nat
  <2>1. ASSUME NEW c \in [1..n -> Nat] PROVE FromLE(c) \in Nat
    <3>1. PICK v \in [1..n + 1 -> Nat] : From(v, c, n) /\ FromLE(c) = v[1]
      BY FromExists
    <3> QED
      BY <3>1
  <2> QED
    BY <1>0, <2>1
<1>2. CASE a = b
  BY <1>1, <1>2
<1>3. CASE a # b
  <2>1. ~ \A i \in 1..n : a[i] = b[i]
    BY <1>3
  <2>2. PICK i \in 1..n : a[i] # b[i] /\ \A j \in i + 1..n : a[j] = b[j]
    <3>1. \E i \in 1..n : Top(i, a, b, n)
      BY <2>1, TopDifference
    <3> QED
      BY <3>1 DEF Top
  <2>3. CASE a[i] < b[i]
    <3>1. FromLE(a) < FromLE(b)
      BY <2>2, <2>3, TopDecides
    <3> QED
      BY <1>1, <2>2, <2>3, <3>1
  <2>4. CASE b[i] < a[i]
    <3>0. \A j \in i + 1..n : b[j] = a[j]
      BY <2>2
    <3>1. FromLE(b) < FromLE(a)
      BY <3>0, <2>4, TopDecides
    <3>2. ASSUME NEW k \in 1..n, a[k] < b[k], \A j \in k + 1..n : a[j] = b[j] PROVE FALSE
      <4>1. FromLE(a) < FromLE(b)
        BY <3>2, TopDecides
      <4> QED
        BY <1>1, <3>1, <4>1
    <3> QED
      BY <1>1, <1>3, <3>1, <3>2
  <2>5. a[i] \in Int /\ b[i] \in Int
    BY <1>0
  <2> QED
    BY <2>2, <2>3, <2>4, <2>5
<1> QED
  BY <1>1, <1>2, <1>3

\* A quarter of a hash is some of its bytes.
Size == N \div 4
Part(b, j) == SubSeq(b, j * Size + 1, (j + 1) * Size)

\* The multiples of a quarter.
LEMMA Sizes == /\ Size \in Nat \ {0} /\ N = Size + Size + Size + Size
               /\ 0 * Size = 0 /\ 1 * Size = Size /\ 2 * Size = Size + Size
               /\ 3 * Size = Size + Size + Size /\ 4 * Size = Size + Size + Size + Size
<1>1. Size \in Nat \ {0} /\ N = 4 * Size
  BY PowAssumption DEF Size
<1> QED
  BY <1>1

\* The words of a hash are its quarters as numbers.
LEMMA Quarter ==
  ASSUME NEW b, Number(b), NEW j \in 0..3
  PROVE  /\ j * Size \in Nat /\ j * Size + Size <= N
         /\ Part(b, j) \in [1..Size -> 0..Byte - 1]
         /\ \A i \in 1..Size : Part(b, j)[i] = b[j * Size + i]
         /\ Words(b)[j] = FromLE(Part(b, j))
<1>1. PICK o \in Nat : o = j * Size /\ (j + 1) * Size = o + Size /\ o + Size <= N
  <2>1. j \in {0, 1, 2, 3}
    OBVIOUS
  <2> QED
    BY <2>1, Sizes
<1> DEFINE S == 0..Byte - 1
<1>0. b \in [1..N -> S]
  BY DEF Number
<1> HIDE DEF S
<1>2. b \in Seq(S) /\ Len(b) = N
  BY <1>0, IsSeq, Width
<1>3. Part(b, j) = SubSeq(b, o + 1, o + Size)
  BY <1>1 DEF Part
<1>4. Size \in Nat /\ o + Size <= Len(b)
  BY <1>1, <1>2, Sizes
<1>5. Part(b, j) \in [1..Size -> S] /\ \A i \in 1..Size : Part(b, j)[i] = b[o + i]
  <2>1. /\ SubSeq(b, o + 1, o + Size) \in [1..Size -> S]
        /\ \A i \in 1..Size : SubSeq(b, o + 1, o + Size)[i] = b[o + i]
    BY <1>2, <1>4, SubSeqIs
  <2> QED
    BY <1>3, <2>1
<1>6. Words(b)[j] = FromLE(Part(b, j))
  BY DEF Words, Part, Size
<1> QED
  BY <1>1, <1>5, <1>6 DEF S

\* The words of two hashes that are alike above some byte and differ there.
LEMMA WordsDecide ==
  ASSUME NEW a, Number(a), NEW b, Number(b), NEW i \in 1..N, a[i] < b[i],
         \A m \in i + 1..N : a[m] = b[m]
  PROVE  \E j \in 0..3 : /\ Words(a)[j] < Words(b)[j]
                         /\ \A k \in j + 1..3 : Words(a)[k] = Words(b)[k]
<1>1. PICK j \in 0..3, o \in Nat : o = j * Size /\ o < i /\ i <= o + Size
                          /\ \A k \in j + 1..3 : k * Size >= o + Size
  <2>1. CASE i <= Size
    <3> \A k \in 0 + 1..3 : k * Size >= 0 + Size
      <4> \A k \in 0 + 1..3 : k \in {1, 2, 3}
        OBVIOUS
      <4> QED
        BY Sizes
    <3> 0 \in 0..3 /\ 0 = 0 * Size
      BY Sizes
    <3> QED
      BY <2>1, Sizes
  <2>2. CASE i > Size /\ i <= Size + Size
    <3> \A k \in 1 + 1..3 : k * Size >= Size + Size
      <4> \A k \in 1 + 1..3 : k \in {2, 3}
        OBVIOUS
      <4> QED
        BY Sizes
    <3> 1 \in 0..3
      BY Sizes
    <3> QED
      BY <2>2, Sizes
  <2>3. CASE i > Size + Size /\ i <= Size + Size + Size
    <3> \A k \in 2 + 1..3 : k * Size >= Size + Size + Size
      <4> \A k \in 2 + 1..3 : k \in {3}
        OBVIOUS
      <4> QED
        BY Sizes
    <3> 2 \in 0..3
      BY Sizes
    <3> QED
      BY <2>3, Sizes
  <2>4. CASE i > Size + Size + Size
    <3> \A k \in 3 + 1..3 : FALSE
      OBVIOUS
    <3> 3 \in 0..3
      BY Sizes
    <3> QED
      BY <2>4, Sizes
  <2> QED
    BY Sizes, <2>1, <2>2, <2>3, <2>4
<1>2. Words(a)[j] < Words(b)[j]
  <2>1. PICK m \in 1..Size : o + m = i /\ \A x \in m + 1..Size : o + x \in i + 1..N
    <3>1. i - o \in 1..Size /\ o + (i - o) = i
      BY <1>1, Sizes
    <3>2. \A x \in (i - o) + 1..Size : o + x \in i + 1..N
      BY <1>1, Quarter, Sizes
    <3> QED
      BY <3>1, <3>2
  <2>2. Part(a, j)[m] < Part(b, j)[m]
    BY <1>1, <2>1, Quarter
  <2>3. \A x \in m + 1..Size : Part(a, j)[x] = Part(b, j)[x]
    <3> TAKE x \in m + 1..Size
    <3>1. x \in 1..Size /\ o + x \in i + 1..N
      BY <2>1
    <3>2. Part(a, j)[x] = a[o + x] /\ Part(b, j)[x] = b[o + x]
      BY <1>1, <3>1, Quarter
    <3> QED
      BY <3>1, <3>2
  <2>4. Part(a, j) \in [1..Size -> 0..Byte - 1] /\ Part(b, j) \in [1..Size -> 0..Byte - 1]
    BY Quarter
  <2>5. FromLE(Part(a, j)) < FromLE(Part(b, j))
    <3> Size \in Nat
      BY Sizes
    <3> QED
      BY <2>2, <2>3, <2>4, TopDecides
  <2> QED
    BY <2>5, Quarter
<1>3. ASSUME NEW k \in j + 1..3 PROVE Words(a)[k] = Words(b)[k]
  <2>1. PICK p \in Nat : k \in 0..3 /\ p = k * Size /\ p >= o + Size /\ p + Size <= N
    <3> k \in 0..3
      OBVIOUS
    <3> QED
      BY <1>1, Quarter
  <2>2. \A x \in 1..Size : p + x \in i + 1..N
    BY <1>1, <2>1, Sizes
  <2>3. \A x \in 1..Size : Part(a, k)[x] = Part(b, k)[x]
    <3> TAKE x \in 1..Size
    <3>1. Part(a, k)[x] = a[p + x] /\ Part(b, k)[x] = b[p + x]
      BY <2>1, Quarter
    <3> QED
      BY <2>2, <3>1
  <2>4. Part(a, k) \in [1..Size -> 0..Byte - 1] /\ Part(b, k) \in [1..Size -> 0..Byte - 1]
    BY <2>1, Quarter
  <2>5. Part(a, k) = Part(b, k)
    <3> Size \in Nat
      BY Sizes
    <3> QED
      BY <2>3, <2>4, SameSeq
  <2> QED
    BY <2>1, <2>5, Quarter
<1> QED
  BY <1>2, <1>3

\* The words are numbers.
LEMMA WordsAreNumbers == ASSUME NEW b, Number(b) PROVE \A j \in 0..3 : Words(b)[j] \in Nat
<1> TAKE j \in 0..3
<1>1. Part(b, j) \in [1..Size -> 0..Byte - 1] /\ Words(b)[j] = FromLE(Part(b, j))
  BY Quarter
<1> QED
  BY <1>1, LeqIsOrder, Sizes

\* A hash meets the target on the device exactly if it does not exceed it.
LEMMA MeetsIsOrder ==
  ASSUME NEW v, Number(v), NEW t, Number(t), c_target_w = Words(t)
  PROVE  Meets(v) <=> FromLE(v) <= FromLE(t)
<1>1. FromLE(v) \in Nat /\ FromLE(t) \in Nat
  BY LeqIsOrder, Width DEF Number
<1>2. CASE v = t
  BY <1>1, <1>2 DEF Meets
<1>3. CASE v # t
  <2>1. ~ \A i \in 1..N : v[i] = t[i]
    BY <1>3, Width, SameSeq DEF Number
  <2>2. PICK i \in 1..N : v[i] # t[i] /\ \A j \in i + 1..N : v[j] = t[j]
    <3>1. \E i \in 1..N : Top(i, v, t, N)
      BY <2>1, TopDifference, Width
    <3> QED
      BY <3>1 DEF Top
  <2>3. v[i] \in Int /\ t[i] \in Int
    BY Bytes DEF Number
  <2>4. CASE v[i] < t[i]
    <3>1. FromLE(v) < FromLE(t)
      BY <2>2, <2>4, TopDecides, Width DEF Number
    <3>2. Meets(v)
      BY <2>2, <2>4, WordsDecide DEF Meets
    <3> QED
      BY <1>1, <3>1, <3>2
  <2>5. CASE t[i] < v[i]
    <3>0. \A j \in i + 1..N : t[j] = v[j]
      BY <2>2
    <3>1. FromLE(t) < FromLE(v)
      BY <3>0, <2>5, TopDecides, Width DEF Number
    <3>2. PICK j \in 0..3 : /\ Words(t)[j] < Words(v)[j]
                            /\ \A k \in j + 1..3 : Words(t)[k] = Words(v)[k]
      BY <3>0, <2>5, WordsDecide
    <3>3. \A k \in 0..3 : Words(t)[k] \in Nat /\ Words(v)[k] \in Nat
      BY WordsAreNumbers
    <3>4. ~ Meets(v)
      <4>1. Words(v) # Words(t)
        BY <3>2, <3>3
      <4>2. ASSUME NEW m \in 0..3, Words(v)[m] < Words(t)[m],
                   \A k \in m + 1..3 : Words(v)[k] = Words(t)[k]
            PROVE  FALSE
        <5>1. CASE m = j
          BY <3>2, <3>3, <4>2, <5>1
        <5>2. CASE m > j
          BY <3>2, <3>3, <4>2, <5>2
        <5>3. CASE m < j
          BY <3>2, <3>3, <4>2, <5>3
        <5> QED
          BY <5>1, <5>2, <5>3
      <4> QED
        BY <4>1, <4>2 DEF Meets
    <3> QED
      BY <1>1, <3>1, <3>4
  <2> QED
    BY <2>2, <2>3, <2>4, <2>5
<1> QED
  BY <1>2, <1>3

-----------------------------------------------------------------------------
(* Launch geometry.                                                        *)

\* clamp_threads answers with a block size the device has.
LEMMA Clamped == ASSUME NEW arg \in Int PROVE clamp_threads(arg) \in 1..MaxThreads
<1> DEFINE asked == IF arg > 0 THEN arg ELSE MaxThreads
           capped == IF asked > MaxThreads THEN MaxThreads ELSE asked
<1>1. capped \in Nat /\ capped <= MaxThreads
  BY BackendAssumption
<1>2. PICK q \in Int, r \in 0..Warp - 1 : q = capped \div Warp /\ capped = Warp * q + r
  <2> capped \in Int /\ Warp \in Nat \ {0}
    BY <1>1, BackendAssumption
  <2> QED
    BY DivMod
<1>3. (capped \div Warp) * Warp \in Int /\ (capped \div Warp) * Warp <= capped
  <2>1. PICK p \in Int : p = Warp * q /\ p = q * Warp
    BY BackendAssumption
  <2> QED
    BY <1>1, <1>2, <2>1
<1> DEFINE whole == (capped \div Warp) * Warp
<1>4. clamp_threads(arg) = IF whole < Warp THEN Warp ELSE whole
  BY DEF clamp_threads
<1> HIDE DEF whole, capped
<1>5. whole \in Int /\ whole <= MaxThreads
  BY <1>1, <1>3, BackendAssumption DEF whole
<1> QED
  BY <1>4, <1>5, BackendAssumption

\* A launch has a block, and no more than the device holds.
LEMMA Stride ==
  ASSUME threads \in 1..MaxThreads, count \in 1..MaxCount
  PROVE  /\ stride \in Nat \ {0}
         /\ Threads = 0..stride - 1 /\ Threads \subseteq AllThreads
         /\ \A i \in 0..count - 1 : i % stride \in Threads /\ i \in Own(i % stride)
<1>1. threads \in Nat \ {0} /\ count \in Nat \ {0} /\ Saturation \in Nat \ {0} /\ MaxThreads \in Nat
  BY BackendAssumption
<1>2. PICK q \in Int, r \in 0..threads - 1 :
        q = (count + threads - 1) \div threads /\ count + threads - 1 = threads * q + r
  <2> count + threads - 1 \in Int
    BY <1>1
  <2> QED
    BY <1>1, DivMod
<1>3. q >= 1
  <2>1. CASE q <= 0
    <3>1. \A m \in Nat, k \in Int : k <= 0 => m * k <= 0
      OBVIOUS
    <3>2. PICK p \in Int : p = threads * q /\ p <= 0
      BY <1>1, <2>1, <3>1
    <3> QED
      BY <1>1, <1>2, <3>2
  <2> QED
    BY <2>1
<1>4. Blocks(count) = IF q < Saturation THEN q ELSE Saturation
  BY <1>2 DEF Blocks
<1>5. PICK g \in 1..Saturation : g = Blocks(count)
  BY <1>1, <1>3, <1>4
<1>6. stride = threads * g
  BY <1>5 DEF stride
<1>7. stride \in Nat \ {0} /\ stride <= MaxThreads * Saturation /\ MaxThreads * Saturation \in Nat
  <2>1. \A a, b \in Nat : a * b \in Nat
    OBVIOUS
  <2>2. threads * g \in Nat /\ threads * g # 0
    BY <1>1
  <2>3. threads * g <= threads * Saturation
    <3>1. threads * (Saturation - g) \in Nat
      <4> Saturation - g \in Nat
        BY <1>1
      <4> QED
        BY <1>1, <2>1
    <3>2. threads * (Saturation - g) = threads * Saturation - threads * g
      BY <1>1
    <3> QED
      BY <1>1, <3>1, <3>2
  <2>4. threads * Saturation <= MaxThreads * Saturation
    <3>1. (MaxThreads - threads) * Saturation \in Nat
      <4> MaxThreads - threads \in Nat
        BY <1>1
      <4> QED
        BY <1>1, <2>1
    <3>2. (MaxThreads - threads) * Saturation = MaxThreads * Saturation - threads * Saturation
      BY <1>1
    <3> QED
      BY <1>1, <3>1, <3>2
  <2>5. MaxThreads * Saturation \in Nat /\ threads * Saturation \in Nat
    BY <1>1
  <2> QED
    BY <1>6, <2>2, <2>3, <2>4, <2>5
<1>8. Threads = 0..stride - 1 /\ Threads \subseteq AllThreads
  <2> DEFINE M == MaxThreads * Saturation
  <2>1. stride \in Nat \ {0} /\ stride <= M /\ M \in Nat
    BY <1>7
  <2>2. AllThreads = 0..M - 1
    BY DEF AllThreads
  <2> HIDE DEF M
  <2> QED
    BY <2>1, <2>2 DEF Threads
<1>9. ASSUME NEW i \in 0..count - 1 PROVE i % stride \in Threads /\ i \in Own(i % stride)
  <2>1. i % stride \in 0..stride - 1
    <3> i \in Int
      BY <1>1
    <3> QED
      BY <1>7, DivMod
  <2> QED
    BY <1>8, <2>1 DEF Own
<1> QED
  BY <1>7, <1>8, <1>9

\* While the launch does not change, neither does what a thread is to hash.
LEMMA SameLaunch == ASSUME UNCHANGED <<threads, count>>
                    PROVE  /\ stride' = stride /\ Threads' = Threads
                           /\ \A t : Own(t)' = Own(t)
<1>1. stride' = stride
  BY DEF stride, Blocks
<1> QED
  BY <1>1 DEF Threads, Own

\* While the constants do not change, messages and judgements stay.
LEMMA SameJob == ASSUME UNCHANGED constants
                 PROVE  /\ \A n : Message(n)' = Message(n)
                        /\ \A v : Meets(v)' = Meets(v)
  BY DEF constants, Message, Meets

-----------------------------------------------------------------------------
(* The invariant.                                                          *)

\* The hash of a result block that is cleared.
LEMMA ZerosAreNumber == Number(Zeros)
  BY Bytes DEF Number, Zeros

\* The invariant holds of a backend nothing has been set up on.
LEMMA InitIInv == Init => IInv
<1> SUFFICES ASSUME Init PROVE IInv
  OBVIOUS
<1> USE DEF Init
<1>1. TypeInv
  <2>1. work \in Works
    <3> \E w \in Works : TRUE
      BY BackendAssumption
    <3> QED
      BY Zenon
  <2>2. MaxThreads \in 1..MaxThreads /\ 0 \in 0..MaxCount
    BY BackendAssumption
  <2>3. have_job \in BOOLEAN /\ found \in BOOLEAN /\ setup_ok \in BOOLEAN /\ batch_ok \in BOOLEAN
        /\ overlooked \in BOOLEAN /\ result.found \in BOOLEAN
    BY DEF NoResult
  <2>4. Zeros \in [1..N -> 0..Byte - 1]
    BY ZerosAreNumber DEF Number
  <2>5. val \in [AllThreads -> [1..N -> 0..Byte - 1]]
    BY <2>4
  <2>6. Number(target) /\ Number(found_hash.val) /\ Number(result.hash)
    BY ZerosAreNumber DEF NoResult
  <2>7. hashed \in [0..MaxCount - 1 -> {0, 1}]
    OBVIOUS
  <2>8. tpc \in [AllThreads -> {"loop", "cas", "nonce", "hash", "exit"}] /\ idx \in [AllThreads -> Nat]
    OBVIOUS
  <2> QED
    BY <2>1, <2>2, <2>3, <2>5, <2>6, <2>7, <2>8 DEF TypeInv
<1>2. QuietInv
  BY DEF QuietInv
<1>3. ThreadInv
  BY DEF ThreadInv
<1>4. WinInv /\ OutcomeInv
  BY DEF WinInv, OutcomeInv
<1>5. UploadInv
  <2>1. c_block1_w0 \in Seq(Nat) /\ c_block1_nbits \in Seq(Nat)
    BY DEF Junk
  <2> QED
    BY <2>1 DEF UploadInv
<1>6. OverlookInv
  BY DEF OverlookInv
<1> QED
  BY <1>1, <1>2, <1>3, <1>4, <1>5, <1>6 DEF IInv

\* The index that is hashed is one of the thread's own, and is new.
LEMMA HashEffect ==
  ASSUME IInv, NEW t \in Threads, NEW v \in HashValues, Hash(t, v)
  PROVE  /\ pc = "kernel" /\ tpc[t] = "loop" /\ t \in AllThreads
         /\ stride \in Nat \ {0} /\ count \in Nat \ {0} /\ count <= MaxCount
         /\ idx[t] \in 0..count - 1 /\ idx[t] \in 0..MaxCount - 1
         /\ idx[t] \in Own(t) /\ hashed[idx[t]] = 0
         /\ hashed' = [hashed EXCEPT ![idx[t]] = 1]
         /\ UNCHANGED <<threads, count>> /\ UNCHANGED constants
<1>1. pc = "kernel" /\ tpc[t] = "loop" /\ idx[t] < count
  BY DEF Hash, InLoop
<1>2. count \in Nat \ {0} /\ count <= MaxCount /\ count \in 1..MaxCount /\ MaxCount \in Nat
  BY <1>1, BackendAssumption DEF IInv, TypeInv, ThreadInv
<1>3. threads \in 1..MaxThreads
  BY DEF IInv, TypeInv
<1>4. stride \in Nat \ {0} /\ t \in AllThreads
  BY <1>2, <1>3, Stride
<1>5. idx[t] \in Nat /\ idx[t] % stride = t
  BY <1>1, <1>4 DEF IInv, TypeInv, ThreadInv
<1>6. idx[t] \in 0..count - 1 /\ idx[t] \in 0..MaxCount - 1 /\ idx[t] \in Own(t)
  BY <1>1, <1>2, <1>5 DEF Own
<1>7. hashed[idx[t]] = 0
  BY <1>1, <1>5, <1>6 DEF IInv, ThreadInv
<1>8. hashed' = [hashed EXCEPT ![idx[t]] = 1]
  BY <1>7 DEF Hash
<1>9. UNCHANGED <<threads, count>> /\ UNCHANGED constants
  BY DEF Hash, hostside, batch, device
<1> QED
  BY <1>1, <1>2, <1>4, <1>6, <1>7, <1>8, <1>9

-----------------------------------------------------------------------------
(* The share target.                                                       *)

\* The divisor is a difficulty rounded up to whole numbers, and never zero.
LEMMA DivisorIs == ASSUME NEW d \in Int
                   PROVE  Divisor(d) \in Nat \ {0} /\ (d > 0 => d <= 2 * Divisor(d))
<1>1. CASE d <= 0
  BY <1>1 DEF Divisor
<1>2. CASE d > 0
  BY <1>2 DEF Divisor
<1> QED
  BY <1>1, <1>2

\* The difficulty 1 target has bytes.
LEMMA Diff1IsNumber == Number(Diff1)
  BY Bytes DEF Number, Diff1

\* One step of the division: the quotient is a byte.
LEMMA DivideByte ==
  ASSUME NEW m \in Nat \ {0}, NEW r \in 0..m - 1, NEW d \in 0..Byte - 1
  PROVE  /\ (r * Byte + d) % m \in 0..m - 1
         /\ ((r * Byte + d) \div m) % Byte \in 0..Byte - 1
         /\ r * Byte + d = m * (((r * Byte + d) \div m) % Byte) + ((r * Byte + d) % m)
<1>1. PICK z \in Nat : z = r * Byte /\ z <= m * Byte - Byte /\ m * Byte \in Nat
  <2>1. \A a, b \in Nat : a * b \in Nat
    OBVIOUS
  <2>2. (m - 1 - r) * Byte \in Nat
    <3> m - 1 - r \in Nat
      OBVIOUS
    <3> QED
      BY <2>1, Bytes
  <2>3. (m - 1 - r) * Byte = m * Byte - Byte - r * Byte
    BY Bytes
  <2>4. r * Byte \in Nat /\ m * Byte \in Nat
    BY <2>1, Bytes
  <2> QED
    BY <2>2, <2>3, <2>4, Bytes
<1>2. PICK q \in Int, s \in 0..m - 1 : q = (z + d) \div m /\ s = (z + d) % m /\ z + d = m * q + s
  <2> z + d \in Int
    BY Bytes
  <2> QED
    BY DivMod
<1>3. q \in 0..Byte - 1
  <2>1. z + d >= 0 /\ z + d < m * Byte
    BY <1>1, Bytes
  <2>2. CASE q <= -1
    <3>1. m * q <= -m
      BY <2>2, Multiple
    <3>2. PICK p \in Int : p = m * q
      OBVIOUS
    <3> QED
      BY <1>2, <2>1, <3>1, <3>2
  <2>3. CASE q >= Byte
    <3>1. PICK e \in Nat : e = q - Byte
      BY <2>3, Bytes
    <3>2. m * e \in Nat /\ m * e = m * q - m * Byte
      BY <3>1, Bytes
    <3>3. PICK p \in Int, M \in Int, k \in Nat : p = m * q /\ M = m * Byte /\ k = m * e
      BY <1>1, <3>2
    <3>4. k = p - M /\ z + d = p + s /\ z + d < M
      BY <1>2, <2>1, <3>2, <3>3
    <3> QED
      BY <3>3, <3>4
  <2> QED
    BY <2>2, <2>3, Bytes
<1>4. q % Byte = q
  BY <1>3, Bytes, Wrapping
<1> QED
  BY <1>1, <1>2, <1>3, <1>4

\* The division of the code is division: its quotient times the divisor misses
\* the number by less than the divisor.
LEMMA ShareTarget ==
  ASSUME NEW d \in Int
  PROVE  /\ Number(make_share_target(d))
         /\ \E r \in 0..Divisor(d) - 1 :
              FromLE(Diff1) = Divisor(d) * FromLE(make_share_target(d)) + r
<1> DEFINE m == Divisor(d)
           h == [q \in (1..N) \X (0..m - 1) |-> (q[2] * Byte + Diff1[q[1]]) % m]
<1>1. m \in Nat \ {0} /\ N \in Nat
  BY DivisorIs, Width
<1>2. Diff1 \in [1..N -> 0..Byte - 1]
  BY Diff1IsNumber DEF Number
<1> HIDE DEF m
<1>3. \A i \in 1..N : \A x \in 0..m - 1 :
        h[<<i, x>>] = (x * Byte + Diff1[i]) % m /\ (x * Byte + Diff1[i]) % m \in 0..m - 1
  <2> SUFFICES ASSUME NEW i \in 1..N, NEW x \in 0..m - 1
               PROVE  /\ h[<<i, x>>] = (x * Byte + Diff1[i]) % m
                      /\ (x * Byte + Diff1[i]) % m \in 0..m - 1
    OBVIOUS
  <2>1. <<i, x>> \in (1..N) \X (0..m - 1) /\ <<i, x>>[1] = i /\ <<i, x>>[2] = x
    OBVIOUS
  <2>2. h[<<i, x>>] = (x * Byte + Diff1[i]) % m
    BY <2>1, Zenon
  <2>3. Diff1[i] \in 0..Byte - 1
    BY <1>2
  <2> QED
    BY <1>1, <2>2, <2>3, DivideByte
<1> HIDE DEF h
<1>4. Closed(h, 1..N, 0..m - 1)
  BY <1>3 DEF Closed
<1>5. PICK rem \in [1..N + 1 -> 0..m - 1] : CountsDown(rem, 0, h, N)
  <2> 0 \in 0..m - 1
    BY <1>1
  <2> QED
    BY <1>1, <1>4, DownRecursion
<1>6. rem[N + 1] = 0 /\ \A i \in 1..N : /\ rem[i + 1] \in 0..m - 1
                                        /\ rem[i] = (rem[i + 1] * Byte + Diff1[i]) % m
  <2>1. ASSUME NEW i \in 1..N
        PROVE  rem[i + 1] \in 0..m - 1 /\ rem[i] = (rem[i + 1] * Byte + Diff1[i]) % m
    <3>1. i + 1 \in 1..N + 1
      BY <1>1
    <3>2. rem[i + 1] \in 0..m - 1
      BY <3>1
    <3> QED
      BY <1>3, <1>5, <3>2 DEF CountsDown
  <2> QED
    BY <1>5, <2>1 DEF CountsDown
<1> DEFINE Is(f) == f = [i \in 1..N + 1 |-> IF i = N + 1 THEN 0
                                            ELSE (f[i + 1] * Byte + Diff1[i]) % m]
<1>7. Is(rem)
  <2>1. ASSUME NEW i \in 1..N + 1
        PROVE  rem[i] = IF i = N + 1 THEN 0 ELSE (rem[i + 1] * Byte + Diff1[i]) % m
    <3>1. i = N + 1 \/ i \in 1..N
      BY <1>1
    <3>2. i \in 1..N => i # N + 1
      BY <1>1
    <3> QED
      BY <1>6, <3>1, <3>2
  <2> QED
    BY <2>1
<1> DEFINE f == CHOOSE f : Is(f)
           T == [i \in 1..N |-> ((rem[i + 1] * Byte + Diff1[i]) \div m) % Byte]
<1>8. Is(f)
  <2> HIDE DEF Is
  <2> QED
    BY <1>7, Zenon
<1>9. make_share_target(d) = [i \in 1..N |-> ((f[i + 1] * Byte + Diff1[i]) \div m) % Byte]
  BY Zenon DEF make_share_target, m
<1> HIDE DEF f
<1>10. \A i \in 1..N + 1 : f[i] = rem[i]
  <2> DEFINE P == {k \in 1..N + 1 : f[k] = rem[k]}
  <2>1. N + 1 \in P
    BY <1>1, <1>6, <1>8
  <2>2. \A i \in 1..N : i + 1 \in P => i \in P
    <3> SUFFICES ASSUME NEW i \in 1..N, f[i + 1] = rem[i + 1] PROVE f[i] = rem[i]
      BY <1>1
    <3>1. i \in 1..N + 1 /\ i # N + 1
      BY <1>1
    <3>2. f[i] = (f[i + 1] * Byte + Diff1[i]) % m
      BY <1>8, <3>1
    <3> QED
      BY <1>6, <3>2
  <2> HIDE DEF P
  <2>3. \A i \in 1..N + 1 : i \in P
    BY <1>1, <2>1, <2>2, DownInduction
  <2> QED
    BY <2>3 DEF P
<1>11. make_share_target(d) = T
  <2>1. \A i \in 1..N : i + 1 \in 1..N + 1
    BY <1>1
  <2>2. \A i \in 1..N : f[i + 1] = rem[i + 1]
    BY <1>10, <2>1
  <2> QED
    BY <1>9, <2>2
<1> HIDE DEF Is
<1>12. ASSUME NEW i \in 1..N
       PROVE  /\ T[i] \in 0..Byte - 1
              /\ rem[i + 1] * Byte + Diff1[i] = m * T[i] + rem[i]
  <2>1. rem[i + 1] \in 0..m - 1 /\ Diff1[i] \in 0..Byte - 1
    BY <1>2, <1>6
  <2>2. T[i] = ((rem[i + 1] * Byte + Diff1[i]) \div m) % Byte
    OBVIOUS
  <2> HIDE DEF T
  <2> QED
    BY <1>1, <1>6, <2>1, <2>2, DivideByte
<1>13. T \in [1..N -> 0..Byte - 1]
  BY <1>12
<1> HIDE DEF T
<1>14. Diff1 \in [1..N -> Nat] /\ T \in [1..N -> Nat]
  BY <1>2, <1>13, Bytes
<1>15. PICK v \in [1..N + 1 -> Nat] : From(v, Diff1, N) /\ FromLE(Diff1) = v[1]
  BY <1>1, <1>14, FromExists
<1>16. PICK w \in [1..N + 1 -> Nat] : From(w, T, N) /\ FromLE(T) = w[1]
  BY <1>1, <1>14, FromExists
<1>17. \A i \in 1..N + 1 : v[i] = m * w[i] + rem[i]
  <2> DEFINE P == {k \in 1..N + 1 : v[k] = m * w[k] + rem[k]}
  <2>1. N + 1 \in P
    <3> m * 0 + 0 = 0
      BY <1>1
    <3> QED
      BY <1>1, <1>6, <1>15, <1>16 DEF From
  <2>2. ASSUME NEW i \in 1..N, v[i + 1] = m * w[i + 1] + rem[i + 1]
        PROVE  v[i] = m * w[i] + rem[i]
    <3>0. i \in 1..N + 1 /\ i + 1 \in 1..N + 1
      BY <1>1
    <3>1. PICK y \in Nat, r \in Nat, D \in Nat, q \in Nat :
            y = w[i + 1] /\ r = rem[i + 1] /\ D = Diff1[i] /\ q = T[i]
      <4>1. w[i + 1] \in Nat /\ rem[i + 1] \in 0..m - 1
        BY <3>0
      <4>2. Diff1[i] \in Nat /\ T[i] \in Nat
        BY <1>14
      <4>3. rem[i + 1] \in Nat
        BY <1>1, <4>1
      <4> QED
        BY <4>1, <4>2, <4>3
    <3>2. v[i] = D + Byte * (m * y + r) /\ w[i] = q + Byte * y
      BY <1>15, <1>16, <2>2, <3>1 DEF From
    <3>3. r * Byte + D = m * q + rem[i]
      BY <1>12, <3>1
    <3>4. Byte * (m * y + r) = Byte * (m * y) + r * Byte
      BY <1>1, Bytes
    <3>5. m * (q + Byte * y) = m * q + m * (Byte * y)
      BY <1>1, Bytes
    <3>6. Byte * (m * y) = m * (Byte * y)
      BY <1>1, Bytes
    <3>7. rem[i] \in Int
      BY <3>0
    <3>8. PICK a \in Nat, b \in Nat, c \in Nat : a = Byte * (m * y) /\ b = r * Byte /\ c = m * q
      BY <1>1, Bytes
    <3>9. v[i] = D + a + b /\ m * w[i] = c + a /\ b + D = c + rem[i]
      BY <3>2, <3>3, <3>4, <3>5, <3>6, <3>8
    <3> QED
      BY <3>7, <3>9
  <2>3. \A i \in 1..N : i + 1 \in P => i \in P
    BY <1>1, <2>2
  <2> HIDE DEF P
  <2>4. \A i \in 1..N + 1 : i \in P
    BY <1>1, <2>1, <2>3, DownInduction
  <2> QED
    BY <2>4 DEF P
<1>18. 1 \in 1..N + 1
  BY <1>1
<1>19. Number(make_share_target(d))
  BY <1>11, <1>13 DEF Number
<1> QED
  BY <1>11, <1>15, <1>16, <1>17, <1>18, <1>19 DEF m

\* What a hash under the share target is worth.
LEMMA Worth ==
  ASSUME NEW d \in Int, NEW v, Number(v), FromLE(v) <= FromLE(make_share_target(d))
  PROVE  FromLE(v) * (IF d > 0 THEN d ELSE 2) <= 2 * FromLE(Diff1)
<1>1. PICK m \in Nat \ {0} : m = Divisor(d) /\ (d > 0 => d <= 2 * m)
  BY DivisorIs
<1>2. PICK x \in Nat, y \in Nat, D \in Nat :
        x = FromLE(v) /\ y = FromLE(make_share_target(d)) /\ D = FromLE(Diff1)
  BY ShareTarget, Diff1IsNumber, LeqIsOrder, Width DEF Number
<1>3. PICK r \in 0..m - 1 : D = m * y + r
  BY <1>1, <1>2, ShareTarget
<1>4. PICK e \in Nat \ {0} : e = (IF d > 0 THEN d ELSE 2) /\ e <= 2 * m
  BY <1>1
<1>5. \A a, b, c \in Nat : a <= b => a * c <= b * c
  <2> SUFFICES ASSUME NEW a \in Nat, NEW b \in Nat, NEW c \in Nat, a <= b PROVE a * c <= b * c
    OBVIOUS
  <2>1. PICK k \in Nat : b = a + k
    <3> b - a \in Nat /\ b = a + (b - a)
      OBVIOUS
    <3> QED
      OBVIOUS
  <2>2. (a + k) * c = a * c + k * c /\ k * c \in Nat /\ a * c \in Nat
    OBVIOUS
  <2> QED
    BY <2>1, <2>2
<1>6. x * e <= y * e /\ e * y <= (2 * m) * y
  BY <1>1, <1>2, <1>4, <1>5
<1>7. (2 * m) * y = 2 * (m * y) /\ y * e = e * y
  OBVIOUS
<1>8. PICK p \in Nat, s \in Nat, t \in Nat : p = m * y /\ s = x * e /\ t = y * e
  OBVIOUS
<1>9. s <= 2 * D
  BY <1>3, <1>6, <1>7, <1>8
<1> QED
  BY <1>2, <1>4, <1>8, <1>9

-----------------------------------------------------------------------------
(* Bytes and their text.                                                   *)

\* Four bytes as a number, the most significant first.
LEMMA ParseHex ==
  ASSUME NEW h \in [1..8 -> 0..Hex - 1]
  PROVE  \E f \in [0..8 -> Nat] :
           /\ f[0] = 0 /\ \A i \in 0..7 : f[i + 1] = Hex * f[i] + h[i + 1]
           /\ parse_hex_u32(h) = f[8]
<1> DEFINE k == [q \in (1..8) \X Nat |-> Hex * q[2] + h[q[1]]]
<1>1. \A i \in 1..8 : \A v \in Nat : k[<<i, v>>] = Hex * v + h[i] /\ Hex * v + h[i] \in Nat
  <2> SUFFICES ASSUME NEW i \in 1..8, NEW v \in Nat
               PROVE  k[<<i, v>>] = Hex * v + h[i] /\ Hex * v + h[i] \in Nat
    OBVIOUS
  <2>1. <<i, v>> \in (1..8) \X Nat /\ <<i, v>>[1] = i /\ <<i, v>>[2] = v
    OBVIOUS
  <2>2. k[<<i, v>>] = Hex * v + h[i]
    BY <2>1, Zenon
  <2>3. Hex * v \in Nat /\ h[i] \in Nat
    BY Bytes
  <2> QED
    BY <2>2, <2>3
<1> HIDE DEF k
<1>2. Closed(k, 1..8, Nat)
  BY <1>1 DEF Closed
<1>3. PICK g \in [SUBSET (1..8) -> Nat], f \in [0..8 -> Nat] : FoldsInOrder(g, f, 0, k, 8)
  <2> 0 \in Nat /\ 8 \in Nat
    OBVIOUS
  <2> QED
    BY <1>2, FoldInOrder
<1>4. DOMAIN h = 1..8
  OBVIOUS
<1> DEFINE Is(x) == x = [s \in SUBSET (DOMAIN h) |->
                           IF s = {} THEN 0 ELSE Hex * x[s \ {Max(s)}] + h[Max(s)]]
<1>5. ASSUME NEW s \in SUBSET (1..8), s # {}
      PROVE  /\ k[<<Max(s), g[s \ {Max(s)}]>>] = Hex * g[s \ {Max(s)}] + h[Max(s)]
             /\ Max(s) \in s
  <2>1. Max(s) \in s /\ s \ {Max(s)} \in SUBSET (1..8)
    <3> 8 \in Nat
      OBVIOUS
    <3> QED
      BY <1>5, MaxOf
  <2>2. Max(s) \in 1..8 /\ g[s \ {Max(s)}] \in Nat
    BY <2>1
  <2> QED
    BY <1>1, <2>1, <2>2
<1>6. Is(g)
  <2>1. g = [s \in SUBSET (1..8) |-> IF s = {} THEN 0 ELSE k[<<Max(s), g[s \ {Max(s)}]>>]]
    BY <1>3 DEF FoldsInOrder
  <2>2. ASSUME NEW s \in SUBSET (1..8)
        PROVE  g[s] = IF s = {} THEN 0 ELSE Hex * g[s \ {Max(s)}] + h[Max(s)]
    BY <1>5, <2>1
  <2>3. g = [s \in SUBSET (1..8) |->
               IF s = {} THEN 0 ELSE Hex * g[s \ {Max(s)}] + h[Max(s)]]
    BY <2>2
  <2> QED
    BY <1>4, <2>3
<1> DEFINE x == CHOOSE x : Is(x)
<1>7. Is(x)
  <2> HIDE DEF Is
  <2> QED
    BY <1>6, Zenon
<1>8. parse_hex_u32(h) = x[DOMAIN h]
  BY Zenon DEF parse_hex_u32, FoldLeft, MapThenFoldSet
<1> HIDE DEF x
<1>9. x[1..8] = g[1..8]
  <2>1. x[{}] = g[{}]
    BY <1>4, <1>6, <1>7
  <2>2. \A s \in SUBSET (1..8) :
          s # {} => (x[s \ {Max(s)}] = g[s \ {Max(s)}] => x[s] = g[s])
    BY <1>4, <1>6, <1>7
  <2>3. 8 \in Nat
    OBVIOUS
  <2> QED
    BY <2>1, <2>2, <2>3, FoldIsOne
<1>10. /\ f[0] = 0 /\ \A i \in 0..8 - 1 : f[i + 1] = k[<<i + 1, f[i]>>]
       /\ g[1..8] = f[8]
  BY <1>3 DEF FoldsInOrder
<1>11. \A i \in 0..7 : f[i + 1] = Hex * f[i] + h[i + 1]
  BY <1>1, <1>10
<1> QED
  BY <1>4, <1>8, <1>9, <1>10, <1>11

\* Two digits make a byte.
LEMMA ByteOfDigits ==
  ASSUME NEW a \in 0..Hex - 1, NEW b \in 0..Hex - 1
  PROVE  Hex * a + b \in 0..Byte - 1
<1>1. PICK c \in Nat : c = Hex - 1 - a
  BY Bytes
<1>2. Hex * c \in Nat /\ Hex * c = Hex * Hex - Hex - Hex * a
  BY <1>1, Bytes
<1>3. PICK p \in Nat, q \in Nat, r \in Nat : p = Hex * a /\ q = Hex * c /\ r = Hex * Hex
  BY <1>1, Bytes
<1>4. Byte = r
  BY <1>3, Bytes
<1>5. Hex * a + b = p + b
  BY <1>3
<1>6. q = r - Hex - p
  BY <1>2, <1>3
<1> QED
  BY <1>3, <1>4, <1>5, <1>6, Bytes

\* A text of digits is read two at a time.
LEMMA BytesOfText ==
  ASSUME NEW n \in Nat, NEW h \in [1..2 * n -> 0..Hex - 1]
  PROVE  /\ hex_to_bytes(h) \in [1..n -> 0..Byte - 1]
         /\ \A i \in 1..n : hex_to_bytes(h)[i] = Hex * h[2 * i - 1] + h[2 * i]
<1>1. Len(h) = 2 * n /\ Len(h) \div 2 = n
  OBVIOUS
<1>2. hex_to_bytes(h) = [i \in 1..n |-> Hex * h[2 * i - 1] + h[2 * i]]
  BY <1>1 DEF hex_to_bytes
<1>3. \A i \in 1..n : Hex * h[2 * i - 1] + h[2 * i] \in 0..Byte - 1
  <2> TAKE i \in 1..n
  <2>1. 2 * i - 1 \in 1..2 * n /\ 2 * i \in 1..2 * n
    OBVIOUS
  <2>2. h[2 * i - 1] \in 0..Hex - 1 /\ h[2 * i] \in 0..Hex - 1
    BY <2>1
  <2> QED
    BY <2>2, ByteOfDigits
<1> QED
  BY <1>2, <1>3

\* Four bytes as the code writes them, by what it divides off.
LEMMA Le32 ==
  ASSUME NEW x \in Nat
  PROVE  /\ write_le32(x) \in [1..4 -> 0..Byte - 1]
         /\ write_le32(x)[1] = x % Byte
         /\ write_le32(x)[2] = (x \div Byte) % Byte
         /\ write_le32(x)[3] = ((x \div Byte) \div Byte) % Byte
         /\ write_le32(x)[4] = (((x \div Byte) \div Byte) \div Byte) % Byte
<1>1. /\ 0 \in Nat /\ 1 \in Nat /\ 2 \in Nat /\ 1 - 1 = 0 /\ 2 - 1 = 1 /\ 3 - 1 = 2 /\ 4 - 1 = 3
      /\ Byte \in Int
  BY Bytes
<1>2. Power(Byte, 0) = 1
  BY <1>1, PowerZero
<1>3. Power(Byte, 0 + 1) = Byte * Power(Byte, 0)
  BY <1>1, PowerNext
<1>4. Power(Byte, 1 + 1) = Byte * Power(Byte, 1)
  BY <1>1, PowerNext
<1>5. Power(Byte, 2 + 1) = Byte * Power(Byte, 2)
  BY <1>1, PowerNext
<1>6. 0 + 1 = 1 /\ 1 + 1 = 2 /\ 2 + 1 = 3
  OBVIOUS
<1>7. Power(Byte, 1) = Byte
  BY <1>2, <1>3, <1>6, Bytes
<1>8. Power(Byte, 2) = Byte * Byte /\ Power(Byte, 3) = Byte * (Byte * Byte)
  BY <1>4, <1>5, <1>6, <1>7
<1>9. x \div 1 = x
  OBVIOUS
<1>10. x \div (Byte * Byte) = (x \div Byte) \div Byte
  BY DivDiv, Bytes
<1>11. x \div (Byte * (Byte * Byte)) = ((x \div Byte) \div Byte) \div Byte
  <2>1. Byte * Byte \in Nat \ {0}
    <3> \A a \in Nat \ {0} : a * a \in Nat \ {0}
      OBVIOUS
    <3> QED
      BY Bytes
  <2>2. x \div (Byte * (Byte * Byte)) = (x \div (Byte * Byte)) \div Byte
    BY <2>1, DivDiv, Bytes
  <2> QED
    BY <1>10, <2>2
<1>12. \A i \in 1..4 : x \div Power(Byte, i - 1) \in Nat
  <2>1. \A a \in Nat, m \in Nat \ {0} : a \div m \in Nat
    OBVIOUS
  <2>2. x \div Byte \in Nat
    BY <2>1, Bytes
  <2>3. (x \div Byte) \div Byte \in Nat
    BY <2>1, <2>2, Bytes
  <2>4. ((x \div Byte) \div Byte) \div Byte \in Nat
    BY <2>1, <2>3, Bytes
  <2>5. \A i \in 1..4 : i \in {1, 2, 3, 4}
    OBVIOUS
  <2> QED
    BY <1>1, <1>2, <1>7, <1>8, <1>9, <1>10, <1>11, <2>2, <2>3, <2>4, <2>5
<1>13. \A a \in Nat : a % Byte \in 0..Byte - 1
  BY Bytes
<1>14. \A i \in 1..4 : (x \div Power(Byte, i - 1)) % Byte \in 0..Byte - 1
  BY <1>12, <1>13
<1>15. /\ write_le32(x) \in [1..4 -> 0..Byte - 1]
       /\ \A i \in 1..4 : write_le32(x)[i] = (x \div Power(Byte, i - 1)) % Byte
  BY <1>14 DEF write_le32
<1>16. 1 \in 1..4 /\ 2 \in 1..4 /\ 3 \in 1..4 /\ 4 \in 1..4
  OBVIOUS
<1> QED
  BY <1>1, <1>2, <1>7, <1>8, <1>9, <1>10, <1>11, <1>15, <1>16

\* A field of eight digits, read as a number.
Field(y, b) == y[0] = 0 /\ \A j \in 1..4 : y[j] = Byte * y[j - 1] + b[j]

\* Eight hexadecimal digits make four bytes, and those bytes are the number
\* the digits spell, the first byte first.
LEMMA FieldNumber ==
  ASSUME NEW h \in [1..8 -> 0..Hex - 1]
  PROVE  /\ hex_to_bytes(h) \in [1..4 -> 0..Byte - 1]
         /\ \E y \in [0..4 -> Nat] : Field(y, hex_to_bytes(h)) /\ y[4] = parse_hex_u32(h)
<1>1. PICK f \in [0..8 -> Nat] : /\ f[0] = 0 /\ \A i \in 0..7 : f[i + 1] = Hex * f[i] + h[i + 1]
                                 /\ parse_hex_u32(h) = f[8]
  BY ParseHex
<1> DEFINE b == hex_to_bytes(h)
           y == [j \in 0..4 |-> f[2 * j]]
<1>2. b \in [1..4 -> 0..Byte - 1] /\ \A i \in 1..4 : b[i] = Hex * h[2 * i - 1] + h[2 * i]
  <2> 4 \in Nat /\ 8 = 2 * 4
    OBVIOUS
  <2> QED
    BY BytesOfText
<1> HIDE DEF b
<1>3. y \in [0..4 -> Nat] /\ y[0] = 0 /\ y[4] = parse_hex_u32(h)
  BY <1>1
<1>4. \A j \in 1..4 : y[j] = Byte * y[j - 1] + b[j]
  <2> TAKE j \in 1..4
  <2>1. PICK k \in 0..3 : k = j - 1
    OBVIOUS
  <2>2. /\ 2 * k \in 0..7 /\ 2 * k + 1 \in 0..7 /\ 2 * j = (2 * k + 1) + 1 /\ 2 * j - 1 = 2 * k + 1
        /\ k \in 0..4 /\ j \in 0..4
    BY <2>1
  <2>3. f[2 * k + 1] = Hex * f[2 * k] + h[2 * k + 1]
    BY <1>1, <2>2
  <2>4. f[2 * j] = Hex * f[2 * k + 1] + h[2 * j]
    BY <1>1, <2>2
  <2>5. f[2 * k] \in Nat /\ h[2 * k + 1] \in Nat /\ h[2 * j] \in Nat
    <3> 2 * k \in 0..8 /\ 2 * k + 1 \in 1..8 /\ 2 * j \in 1..8
      BY <2>1
    <3> QED
      BY Bytes
  <2>6. PICK u \in Nat, v \in Nat, w \in Nat : u = f[2 * k] /\ v = h[2 * k + 1] /\ w = h[2 * j]
    BY <2>5
  <2>7. f[2 * j] = Hex * (Hex * u + v) + w
    BY <2>3, <2>4, <2>6
  <2>8. Hex * (Hex * u + v) = (Hex * Hex) * u + Hex * v
    BY <2>6, Bytes
  <2>9. b[j] = Hex * v + w
    BY <1>2, <2>2, <2>6
  <2>10. y[j] = f[2 * j] /\ y[j - 1] = u
    BY <2>1, <2>2, <2>6
  <2>11. PICK p \in Nat, q \in Nat : p = Byte * u /\ q = Hex * v
    BY Bytes
  <2>12. (Hex * Hex) * u = p
    BY <2>11, Bytes
  <2> QED
    BY <2>7, <2>8, <2>9, <2>10, <2>11, <2>12
<1> HIDE DEF y
<1> QED
  BY <1>2, <1>3, <1>4 DEF b, Field

\* The same written as bytes.
LEMMA FieldBytes ==
  ASSUME NEW h \in [1..8 -> 0..Hex - 1]
  PROVE  write_le32(parse_hex_u32(h)) = Reverse(hex_to_bytes(h))
<1> DEFINE b == hex_to_bytes(h)
<1>2. b \in [1..4 -> 0..Byte - 1]
  BY FieldNumber
<1>1. PICK y \in [0..4 -> Nat] : Field(y, b) /\ y[4] = parse_hex_u32(h)
  BY FieldNumber
<1> HIDE DEF b
<1>3. y \in [0..4 -> Nat] /\ y[0] = 0 /\ y[4] = parse_hex_u32(h)
  BY <1>1 DEF Field
<1>4. \A j \in 1..4 : y[j] = Byte * y[j - 1] + b[j]
  BY <1>1 DEF Field
<1>5. \A j \in 1..4 : y[j] \div Byte = y[j - 1] /\ y[j] % Byte = b[j]
  <2> TAKE j \in 1..4
  <2>1. y[j - 1] \in Nat /\ y[j] \in Nat /\ b[j] \in 0..Byte - 1
    <3> j - 1 \in 0..4 /\ j \in 0..4
      OBVIOUS
    <3> QED
      BY <1>2, <1>3
  <2>2. PICK X \in Int, Q \in Int, R \in 0..Byte - 1 : X = y[j] /\ Q = y[j - 1] /\ R = b[j]
    BY <2>1
  <2>3. X = Byte * Q + R
    BY <1>4, <2>2
  <2>4. PICK q \in Int, r \in 0..Byte - 1 : q = X \div Byte /\ r = X % Byte /\ X = Byte * q + r
    <3>1. X % Byte \in 0..Byte - 1 /\ X \div Byte \in Int /\ X = Byte * (X \div Byte) + (X % Byte)
      BY DivMod, Bytes
    <3> QED
      BY <3>1, Zenon
  <2>5. Byte * q + r = Byte * Q + R
    BY <2>3, <2>4
  <2>6. q = Q /\ r = R
    BY <2>5, Remainder, Bytes
  <2> QED
    BY <2>2, <2>4, <2>6
<1>6. /\ y[4] \div Byte = y[3] /\ y[3] \div Byte = y[2] /\ y[2] \div Byte = y[1]
      /\ y[4] % Byte = b[4] /\ y[3] % Byte = b[3] /\ y[2] % Byte = b[2] /\ y[1] % Byte = b[1]
  <2> 1 \in 1..4 /\ 2 \in 1..4 /\ 3 \in 1..4 /\ 4 \in 1..4 /\ 4 - 1 = 3 /\ 3 - 1 = 2 /\ 2 - 1 = 1
    OBVIOUS
  <2> QED
    BY <1>5
<1> DEFINE z == write_le32(parse_hex_u32(h))
<1>7. /\ z \in [1..4 -> 0..Byte - 1]
      /\ z[1] = b[4] /\ z[2] = b[3] /\ z[3] = b[2] /\ z[4] = b[1]
  <2> parse_hex_u32(h) \in Nat
    BY <1>3
  <2> QED
    BY <1>3, <1>6, Le32
<1> HIDE DEF z
<1>8. Reverse(b) = [i \in 1..4 |-> b[4 - i + 1]]
  <2> Len(b) = 4
    BY <1>2
  <2> QED
    BY DEF Reverse
<1>9. \A i \in 1..4 : z[i] = b[4 - i + 1]
  <2> \A i \in 1..4 : i \in {1, 2, 3, 4}
    OBVIOUS
  <2> QED
    BY <1>7
<1>10. z = [i \in 1..4 |-> b[4 - i + 1]]
  BY <1>7, <1>9
<1> QED
  BY <1>8, <1>10 DEF z, b

\* Bytes written as text and read again.
LEMMA TextOfBytes ==
  ASSUME NEW n \in Nat, NEW b \in [1..n -> 0..Byte - 1]
  PROVE  HexOf(b) \in [1..2 * n -> 0..Hex - 1] /\ hex_to_bytes(HexOf(b)) = b
<1>1. ASSUME NEW x \in 0..Byte - 1
      PROVE  /\ x \div Hex \in 0..Hex - 1 /\ x % Hex \in 0..Hex - 1
             /\ Hex * (x \div Hex) + (x % Hex) = x
  <2>1. PICK q \in Int, r \in 0..Hex - 1 : q = x \div Hex /\ r = x % Hex /\ x = Hex * q + r
    <3> x \in Int
      OBVIOUS
    <3>1. x % Hex \in 0..Hex - 1 /\ x \div Hex \in Int /\ x = Hex * (x \div Hex) + (x % Hex)
      BY DivMod, Bytes
    <3> QED
      BY <3>1, Zenon
  <2>2. q >= 0
    <3> SUFFICES ASSUME q <= -1 PROVE FALSE
      OBVIOUS
    <3> PICK m \in Int : m = Hex * q
      BY Bytes
    <3> m <= -Hex
      BY Multiple, Bytes
    <3> QED
      BY <2>1, Bytes
  <2>3. q < Hex
    <3> SUFFICES ASSUME q - Hex >= 0 PROVE FALSE
      BY Bytes
    <3>1. Hex * (q - Hex) \in Nat /\ Hex * (q - Hex) = Hex * q - Hex * Hex
      BY Bytes
    <3> PICK m \in Int, k \in Int : m = Hex * q /\ k = Hex * Hex
      BY Bytes
    <3> QED
      BY <2>1, <3>1, Bytes
  <2> QED
    BY <2>1, <2>2, <2>3, Bytes
<1>2. Len(b) = n
  OBVIOUS
<1> DEFINE S == 0..Byte - 1
           D == 0..Hex - 1
<1>3. b \in [1..n -> S]
  OBVIOUS
<1>4. \A x \in S : x \div Hex \in D /\ x % Hex \in D
  BY <1>1
<1> HIDE DEF S, D
<1>5. \A i \in 1..2 * n : IF i % 2 = 1 THEN (i + 1) \div 2 \in 1..n ELSE i \div 2 \in 1..n
  OBVIOUS
<1>6. HexOf(b) \in [1..2 * n -> D]
  BY <1>2, <1>3, <1>4, <1>5 DEF HexOf
<1>7. \A j \in 1..n : HexOf(b)[2 * j - 1] = b[j] \div Hex /\ HexOf(b)[2 * j] = b[j] % Hex
  <2> TAKE j \in 1..n
  <2>1. /\ 2 * j - 1 \in 1..2 * n /\ 2 * j \in 1..2 * n /\ (2 * j - 1) % 2 = 1 /\ (2 * j) % 2 # 1
        /\ ((2 * j - 1) + 1) \div 2 = j /\ (2 * j) \div 2 = j
    OBVIOUS
  <2> QED
    BY <1>2, <2>1 DEF HexOf
<1>8. /\ hex_to_bytes(HexOf(b)) \in [1..n -> S]
      /\ \A i \in 1..n : hex_to_bytes(HexOf(b))[i] = Hex * HexOf(b)[2 * i - 1] + HexOf(b)[2 * i]
  BY <1>6, BytesOfText DEF D, S
<1>9. \A i \in 1..n : b[i] \in S /\ Hex * (b[i] \div Hex) + (b[i] % Hex) = b[i]
  BY <1>1, <1>3 DEF S
<1>10. \A i \in 1..n : hex_to_bytes(HexOf(b))[i] = b[i]
  BY <1>7, <1>8, <1>9
<1> QED
  BY <1>3, <1>6, <1>8, <1>10, SameSeq DEF D

-----------------------------------------------------------------------------
(* The header.                                                             *)

\* The swap of the bytes of each word, by the word and the place in it.
Swapped(s, d, n) == \A q \in 0..n - 1, r \in 0..3 : s[4 * q + r + 1] = d[4 * q + 4 - r]

\* The swap of the header turns every four-byte word around and keeps the
\* length.
LEMMA SwapAt ==
  ASSUME NEW n \in Nat, NEW m \in Nat, m = 4 * n, NEW S, NEW d \in [1..m -> S]
  PROVE  /\ SwapInWords(d) \in [1..m -> S]
         /\ Swapped(SwapInWords(d), d, n)
<1>1. Len(d) = m
  OBVIOUS
<1>2. \A i \in 1..m : 4 * ((i - 1) \div 4) + 4 - ((i - 1) % 4) \in 1..m
  OBVIOUS
<1>3. SwapInWords(d) \in [1..m -> S]
  BY <1>1, <1>2 DEF SwapInWords
<1>4. ASSUME NEW q \in 0..n - 1, NEW r \in 0..3
      PROVE  SwapInWords(d)[4 * q + r + 1] = d[4 * q + 4 - r]
  <2>1. /\ 4 * q + r + 1 \in 1..m
        /\ (4 * q + r + 1 - 1) \div 4 = q /\ (4 * q + r + 1 - 1) % 4 = r
    OBVIOUS
  <2> QED
    BY <1>1, <2>1 DEF SwapInWords
<1> QED
  BY <1>3, <1>4 DEF Swapped

\* Swapped in the words, reversed and swapped again is reversed.
LEMMA SwapTwice ==
  ASSUME NEW n \in Nat, NEW m \in Nat, m = 4 * n, NEW S, NEW d \in [1..m -> S]
  PROVE  SwapInWords(Reverse(SwapInWords(d))) = Reverse(d)
<1> DEFINE s == SwapInWords(d)
           r == Reverse(s)
           t == SwapInWords(r)
<1>1. s \in [1..m -> S] /\ Swapped(s, d, n)
  BY SwapAt
<1> HIDE DEF s
<1>3. r \in [1..m -> S] /\ Reversed(r, s, m)
  BY <1>1, ReverseAt
<1> HIDE DEF r
<1>4. t \in [1..m -> S] /\ Swapped(t, r, n)
  BY <1>3, SwapAt
<1> HIDE DEF t
<1>5. Reverse(d) \in [1..m -> S] /\ Reversed(Reverse(d), d, m)
  BY ReverseAt
<1>6. ASSUME NEW i \in 1..m PROVE t[i] = Reverse(d)[i]
  <2>1. PICK q \in 0..n - 1, p \in 0..3 : i = 4 * q + p + 1
    <3>1. (i - 1) \div 4 \in 0..n - 1 /\ (i - 1) % 4 \in 0..3
          /\ i = 4 * ((i - 1) \div 4) + ((i - 1) % 4) + 1
      OBVIOUS
    <3> QED
      BY <3>1, Zenon
  <2>2. t[i] = r[4 * q + 4 - p]
    BY <1>4, <2>1 DEF Swapped
  <2>3. 4 * q + 4 - p \in 1..m
    BY <2>1
  <2>4. PICK u \in 0..n - 1 : u = n - 1 - q
    BY <2>1
  <2>5. m - (4 * q + 4 - p) + 1 = 4 * u + p + 1
    BY <2>4
  <2>6. r[4 * q + 4 - p] = s[4 * u + p + 1]
    BY <1>3, <2>3, <2>5 DEF Reversed
  <2>7. s[4 * u + p + 1] = d[4 * u + 4 - p]
    BY <1>1 DEF Swapped
  <2>8. 4 * u + 4 - p = m - i + 1
    BY <2>1, <2>4
  <2> QED
    BY <1>5, <2>2, <2>6, <2>7, <2>8 DEF Reversed
<1> QED
  BY <1>4, <1>5, <1>6, SameSeq DEF t, r, s

\* What the pool sends is what its job is read from.
LEMMA JobIs ==
  ASSUME NEW w \in Works
  PROVE  /\ Job[w].version = w.pool.version /\ Job[w].nbits = w.pool.nbits
         /\ Job[w].ntime = w.pool.ntime
         /\ Job[w].prevhash = HexOf(Reverse(SwapInWords(w.pool.display)))
         /\ Root[w] = build_merkle_root(w.pool, w.en1, w.en2, w.en2_size)
         /\ Header[w] = build_header80(Job[w], Root[w], 0)
<1>1. /\ Job[w].version = w.pool.version /\ Job[w].nbits = w.pool.nbits
      /\ Job[w].ntime = w.pool.ntime
      /\ Job[w].prevhash = HexOf(Reverse(SwapInWords(w.pool.display)))
      /\ Job[w].coinb1 = w.pool.coinb1 /\ Job[w].coinb2 = w.pool.coinb2
      /\ Job[w].merkle_branch = w.pool.merkle_branch
  BY DEF Job, Notify, parse_notify
<1>2. build_coinbase_hex(Job[w], w.en1, w.en2, w.en2_size)
        = build_coinbase_hex(w.pool, w.en1, w.en2, w.en2_size)
  BY <1>1 DEF build_coinbase_hex
<1>3. build_merkle_root(Job[w], w.en1, w.en2, w.en2_size)
        = build_merkle_root(w.pool, w.en1, w.en2, w.en2_size)
  BY <1>1, <1>2, Zenon DEF build_merkle_root
<1>4. Root[w] = build_merkle_root(Job[w], w.en1, w.en2, w.en2_size)
  BY Zenon DEF Root
<1> QED
  BY <1>1, <1>3, <1>4, Zenon DEF Header

\* The header the miner puts together is the one the pool does.  All of it but
\* the nonce is the same for every nonce.
LEMMA HeaderIs ==
  ASSUME NEW w \in Works
  PROVE  \E k \in Nat : \E A \in [1..k -> 0..Byte - 1] :
           /\ k = 2 * N + 12
           /\ \A n \in Nat : /\ build_header80(Job[w], Root[w], n) = A \o write_le32(n)
                             /\ PoolHeader(w, n) = A \o write_le32(n)
<1> DEFINE S == 0..Byte - 1
           pool == w.pool
           v == Reverse(hex_to_bytes(pool.version))
           p == Reverse(pool.display)
           r == build_merkle_root(pool, w.en1, w.en2, w.en2_size)
           t == Reverse(hex_to_bytes(pool.ntime))
           b == Reverse(hex_to_bytes(pool.nbits))
           A == v \o p \o r \o t \o b
<1>1. ASSUME NEW h \in {pool.version, pool.nbits, pool.ntime}
      PROVE  /\ write_le32(parse_hex_u32(h)) = Reverse(hex_to_bytes(h))
             /\ Reverse(hex_to_bytes(h)) \in [1..4 -> S]
  <2>1. h \in [1..8 -> 0..Hex - 1]
    BY BackendAssumption
  <2>2. write_le32(parse_hex_u32(h)) = Reverse(hex_to_bytes(h))
    BY <2>1, FieldBytes
  <2>3. hex_to_bytes(h) \in [1..4 -> 0..Byte - 1]
    <3> 4 \in Nat /\ 8 = 2 * 4
      OBVIOUS
    <3> QED
      BY <2>1, BytesOfText
  <2>4. Reverse(hex_to_bytes(h)) \in [1..4 -> 0..Byte - 1]
    <3> 4 \in Nat
      OBVIOUS
    <3> QED
      BY <2>3, ReverseAt
  <2> QED
    BY <2>2, <2>4
<1>2. pool.display \in [1..N -> S] /\ r \in [1..N -> S]
  BY BackendAssumption
<1>3. p \in [1..N -> S] /\ SwapInWords(hex_to_bytes(Job[w].prevhash)) = p
  <2> DEFINE s == SwapInWords(pool.display)
             q == Reverse(s)
  <2>1. N \in Nat /\ Size \in Nat /\ N = 4 * Size
    BY Sizes, Width
  <2> HIDE DEF S
  <2>2. s \in [1..N -> S] /\ p \in [1..N -> S]
    BY <1>2, <2>1, SwapAt, ReverseAt
  <2>3. q \in [1..N -> S]
    BY <2>1, <2>2, ReverseAt
  <2>4. hex_to_bytes(HexOf(q)) = q
    BY <2>1, <2>3, TextOfBytes DEF S
  <2>5. SwapInWords(q) = p
    BY <1>2, <2>1, SwapTwice
  <2> QED
    BY <2>2, <2>4, <2>5, JobIs
<1>4. /\ build_header80(Job[w], Root[w], 0) = build_header80(Job[w], Root[w], 0)
      /\ Job[w].version = pool.version /\ Job[w].nbits = pool.nbits
      /\ Job[w].ntime = pool.ntime /\ Root[w] = r
  BY JobIs
<1>5. /\ write_le32(parse_hex_u32(Job[w].version)) = v
      /\ write_le32(parse_hex_u32(Job[w].ntime)) = t
      /\ write_le32(parse_hex_u32(Job[w].nbits)) = b
  BY <1>1, <1>4
<1>6. v \in [1..4 -> S] /\ t \in [1..4 -> S] /\ b \in [1..4 -> S]
  BY <1>1
<1> HIDE DEF v, p, r, t, b, S
<1>7. A \in [1..2 * N + 12 -> S]
  <2>1. v \o p \in [1..4 + N -> S]
    BY <1>3, <1>6, Concat, Width
  <2>2. v \o p \o r \in [1..(4 + N) + N -> S]
    <3> 4 + N \in Nat
      BY Width
    <3> QED
      BY <1>2, <2>1, Concat, Width DEF r
  <2>3. v \o p \o r \o t \in [1..((4 + N) + N) + 4 -> S]
    <3> (4 + N) + N \in Nat /\ 4 \in Nat
      BY Width
    <3> QED
      BY <1>6, <2>2, Concat
  <2>4. A \in [1..(((4 + N) + N) + 4) + 4 -> S]
    <3> ((4 + N) + N) + 4 \in Nat /\ 4 \in Nat
      BY Width
    <3> QED
      BY <1>6, <2>3, Concat
  <2>5. (((4 + N) + N) + 4) + 4 = 2 * N + 12
    BY Width
  <2> QED
    BY <2>4, <2>5
<1>8. \A n \in Nat : build_header80(Job[w], Root[w], n) = A \o write_le32(n)
  BY <1>3, <1>4, <1>5 DEF build_header80
<1>9. \A n \in Nat : PoolHeader(w, n) = A \o write_le32(n)
  BY DEF PoolHeader, v, p, r, t, b
<1> HIDE DEF A
<1>10. 2 * N + 12 \in Nat
  BY Width
<1> QED
  BY <1>7, <1>8, <1>9, <1>10 DEF S

\* The two parts of the last twelve bytes before the nonce.
LEMMA Tail12 ==
  ASSUME NEW S, NEW k \in Nat, NEW a \in [1..k -> S], NEW M \in Nat, M + 12 = k
  PROVE  SubSeq(a, M + 1, M + 8) \o SubSeq(a, (M + 8) + 1, (M + 8) + 4) = SubSeq(a, M + 1, M + 12)
<1>1. PICK l \in Nat, m \in Nat : l = 8 /\ m = 4
  OBVIOUS
<1>2. M + l + m <= k
  BY <1>1
<1>3. SubSeq(a, M + 1, M + l) \o SubSeq(a, (M + l) + 1, (M + l) + m)
        = SubSeq(a, M + 1, M + (l + m))
  BY <1>2, TwoParts
<1>4. M + (l + m) = M + 12
  BY <1>1
<1> QED
  BY <1>1, <1>3, <1>4

\* What is left of a header after its last twelve bytes of work and a nonce
\* appended to it: those twelve bytes and the nonce.
LEMMA Tail16 ==
  ASSUME NEW S, NEW k \in Nat, NEW a \in [1..k -> S], NEW M \in Nat, M + 12 = k,
         NEW m \in Nat, NEW x \in [1..m -> S]
  PROVE  SubSeq(a \o x, M + 1, Len(a \o x)) = SubSeq(a, M + 1, M + 12) \o x
<1>1. PICK l \in Nat : l = 12
  OBVIOUS
<1>2. M + l = k
  BY <1>1
<1>3. SubSeq(a \o x, M + 1, Len(a \o x)) = SubSeq(a, M + 1, M + l) \o x
  BY <1>2, LastPart
<1> QED
  BY <1>1, <1>3

\* What the device hashes for a nonce of a job set up is what the pool hashes.
Hashes(w, K, n) == [mid |-> block0(Header[w]), rk |-> block0(Header[w]), block1 |-> K \o write_le32(n)]

\* The message the device builds from a header set up for nonce 0 differs
\* from the one the pool hashes in the nonce alone, and takes the nonce given.
LEMMA MessageIs ==
  ASSUME NEW w \in Works
  PROVE  /\ W0(Header[w]) \in Seq(Nat) /\ Nbits(Header[w]) \in Seq(Nat)
         /\ MessageOf(Header[w]) = Hashes(w, W0(Header[w]) \o Nbits(Header[w]), 0)
         /\ \A n \in Nat : MessageOf(PoolHeader(w, n))
                              = Hashes(w, W0(Header[w]) \o Nbits(Header[w]), n)
<1> DEFINE S == 0..Byte - 1
<1>1. PICK k \in Nat : \E A \in [1..k -> S] :
        /\ k = 2 * N + 12
        /\ \A n \in Nat : /\ build_header80(Job[w], Root[w], n) = A \o write_le32(n)
                          /\ PoolHeader(w, n) = A \o write_le32(n)
  BY HeaderIs
<1>5. PICK A \in [1..k -> S] :
        /\ k = 2 * N + 12
        /\ \A n \in Nat : /\ build_header80(Job[w], Root[w], n) = A \o write_le32(n)
                          /\ PoolHeader(w, n) = A \o write_le32(n)
  BY <1>1
<1>2. \A n \in Nat : write_le32(n) \in [1..4 -> S]
  BY Le32
<1>3. S \subseteq Nat
  BY Bytes
<1> HIDE DEF S
<1>4. PICK M \in Nat, m \in Nat : M = 2 * N /\ M + 12 = k /\ m = 4
  BY <1>5, Width
<1> DEFINE K == SubSeq(A, M + 1, M + 12)
<1>6. 4 \in Nat /\ 8 \in Nat /\ 12 \in Nat /\ 0 \in Nat
  OBVIOUS
<1>7. ASSUME NEW n \in Nat
      PROVE  /\ block0(A \o write_le32(n)) = SubSeq(A, 0 + 1, 0 + M)
             /\ W0(A \o write_le32(n)) = SubSeq(A, M + 1, M + 8)
             /\ Nbits(A \o write_le32(n)) = SubSeq(A, (M + 8) + 1, (M + 8) + 4)
             /\ SubSeq(A \o write_le32(n), M + 1, Len(A \o write_le32(n))) = K \o write_le32(n)
  <2>1. PICK x \in [1..m -> S] : x = write_le32(n)
    BY <1>2, <1>4
  <2>0. ASSUME NEW o \in Nat, NEW l \in Nat, o + l <= k
        PROVE  SubSeq(A \o x, o + 1, o + l) = SubSeq(A, o + 1, o + l)
    BY <2>0, FirstPart
  <2>2. SubSeq(A \o x, 0 + 1, 0 + M) = SubSeq(A, 0 + 1, 0 + M)
    <3> 0 + M <= k
      BY <1>4
    <3> QED
      BY <1>6, <2>0
  <2>3. SubSeq(A \o x, M + 1, M + 8) = SubSeq(A, M + 1, M + 8)
    <3> M + 8 <= k
      BY <1>4
    <3> QED
      BY <1>6, <2>0
  <2>4. SubSeq(A \o x, (M + 8) + 1, (M + 8) + 4) = SubSeq(A, (M + 8) + 1, (M + 8) + 4)
    <3> (M + 8) + 4 <= k /\ M + 8 \in Nat
      BY <1>4
    <3> QED
      BY <1>6, <2>0
  <2>5. SubSeq(A \o x, M + 1, Len(A \o x)) = K \o x
    <3>1. M + 12 = k
      BY <1>4
    <3> HIDE DEF K
    <3>2. SubSeq(A \o x, M + 1, Len(A \o x)) = SubSeq(A, M + 1, M + 12) \o x
      BY <3>1, Tail16
    <3> QED
      BY <3>2 DEF K
  <2>6. /\ 1 = 0 + 1 /\ 2 * N = 0 + M /\ 2 * N + 1 = M + 1 /\ 2 * N + 8 = M + 8
        /\ 2 * N + 9 = (M + 8) + 1 /\ 2 * N + 12 = (M + 8) + 4
    BY <1>4, Width
  <2> QED
    BY <2>1, <2>2, <2>3, <2>4, <2>5, <2>6 DEF block0, W0, Nbits
<1>8. SubSeq(A, M + 1, M + 8) \o SubSeq(A, (M + 8) + 1, (M + 8) + 4) = K
  <2>1. M + 12 = k
    BY <1>4
  <2> QED
    BY <2>1, Tail12
<1>9. Header[w] = A \o write_le32(0)
  BY <1>5, <1>6, JobIs
<1>10. /\ SubSeq(A, M + 1, M + 8) \in [1..8 -> S]
       /\ SubSeq(A, (M + 8) + 1, (M + 8) + 4) \in [1..4 -> S]
  <2>1. A \in Seq(S) /\ Len(A) = k
    BY IsSeq
  <2>2. M + 8 <= k /\ (M + 8) + 4 <= k /\ M + 8 \in Nat
    BY <1>4
  <2>3. ASSUME NEW o \in Nat, NEW n \in Nat, o + n <= Len(A)
        PROVE  SubSeq(A, o + 1, o + n) \in [1..n -> S]
    BY <2>1, <2>3, SubSeqHolds
  <2> QED
    BY <1>4, <1>6, <2>1, <2>2, <2>3
<1>11. ASSUME NEW l \in Nat, NEW v \in [1..l -> S] PROVE v \in Seq(Nat)
  <2> v \in [1..l -> Nat]
    BY <1>3
  <2> QED
    BY IsSeq
<1>12. W0(Header[w]) \in Seq(Nat) /\ Nbits(Header[w]) \in Seq(Nat)
  BY <1>6, <1>7, <1>9, <1>10, <1>11
<1>13. W0(Header[w]) \o Nbits(Header[w]) = K
  BY <1>6, <1>7, <1>8, <1>9
<1>14. ASSUME NEW n \in Nat
       PROVE  MessageOf(A \o write_le32(n)) = Hashes(w, K, n)
  <2>1. 2 * N + 1 = M + 1
    BY <1>4
  <2>2. block0(A \o write_le32(n)) = block0(Header[w])
    BY <1>6, <1>7, <1>9
  <2>3. SubSeq(A \o write_le32(n), 2 * N + 1, Len(A \o write_le32(n))) = K \o write_le32(n)
    BY <1>7, <2>1
  <2> HIDE DEF K
  <2> QED
    BY <2>2, <2>3, Zenon DEF MessageOf, Hashes
<1> QED
  BY <1>5, <1>6, <1>9, <1>12, <1>13, <1>14

-----------------------------------------------------------------------------
(* Every step keeps the invariant.                                         *)

\* Every step keeps the types.
LEMMA TypeStep == IInv /\ [Next]_vars => TypeInv'
<1> SUFFICES ASSUME IInv, [Next]_vars PROVE TypeInv'
  OBVIOUS
<1>0. TypeInv
  BY DEF IInv
<1> USE DEF TypeInv, batch, block_, kernel, answer, bounds
<1>1. ASSUME NEW w \in Works, NEW failed, NEW gone, SetupJob(w, failed, gone)
      PROVE  TypeInv'
  <2>1. w.difficulty \in Int
    BY BackendAssumption
  <2>2. Number(target')
    BY <1>1, <2>1, ShareTarget DEF SetupJob
  <2>3. work' \in Works /\ have_job' = TRUE /\ setup_ok' \in BOOLEAN /\ setups' \in Nat
        /\ pc' \in {"verify", "idle"}
    BY <1>0, <1>1 DEF SetupJob
  <2>4. UNCHANGED <<batch, block_, kernel, answer, batch_ok, hashed, overlooked>>
    BY <1>1 DEF SetupJob
  <2> QED
    BY <1>0, <2>2, <2>3, <2>4 DEF Number
<1>2. ASSUME NEW failed, NEW gone, Verify(failed, gone) PROVE TypeInv'
  <2>1. Number(found_hash'.val)
    BY <1>0, <1>2, ZerosAreNumber DEF Verify
  <2>2. pc' \in {"idle", "refused"}
    BY <1>2 DEF Verify
  <2>3. UNCHANGED <<work, target, have_job, batch, found, kernel, answer, setup_ok, batch_ok,
                    hashed, overlooked, setups>>
    BY <1>2 DEF Verify
  <2> QED
    BY <1>0, <2>1, <2>2, <2>3 DEF Number
<1>3. ASSUME NEW failed, NEW gone, ReadBack(failed, gone) PROVE TypeInv'
  <2>1. result'.found \in BOOLEAN /\ Number(result'.hash)
    BY <1>0, <1>3, ZerosAreNumber DEF ReadBack
  <2>2. pc' = "judge" /\ batch_ok' \in BOOLEAN
    BY <1>0, <1>3 DEF ReadBack
  <2>3. UNCHANGED <<work, target, have_job, batch, block_, kernel, setup_ok,
                    hashed, overlooked, setups>>
    BY <1>3 DEF ReadBack
  <2> QED
    BY <1>0, <2>1, <2>2, <2>3 DEF Number
<1>4. ASSUME NEW b \in Batches, NEW failed, NEW gone, Launch(b, failed, gone)
      PROVE  TypeInv'
  <2>1. b.start \in Int /\ 0 <= b.start /\ b.count \in 1..MaxCount /\ b.threads \in Int
    BY BackendAssumption
  <2>2. start_nonce' \in Nat /\ count' \in 0..MaxCount /\ threads' \in 1..MaxThreads
    <3>1. start_nonce' = b.start /\ count' = b.count /\ threads' = clamp_threads(b.threads)
      BY <1>4 DEF Launch
    <3> QED
      BY <2>1, <3>1, Clamped
  <2>3. pc' \in {"read", "grid"} /\ found' \in BOOLEAN /\ batch_ok' \in BOOLEAN
    BY <1>0, <1>4 DEF Launch
  <2>4. UNCHANGED <<work, target, have_job, found_hash, kernel, answer, setup_ok, hashed,
                    overlooked, setups>>
    BY <1>4 DEF Launch
  <2> QED
    BY <1>0, <2>2, <2>3, <2>4 DEF Number
<1>5. CASE Grid
  <2>1. threads \in 1..MaxThreads /\ count \in 1..MaxCount
    BY <1>0, <1>5, BackendAssumption DEF Grid, IInv, ThreadInv
  <2>2. Threads \subseteq Nat
    BY <2>1, Stride
  <2>3. tpc' \in [AllThreads -> {"loop", "cas", "nonce", "hash", "exit"}]
        /\ idx' \in [AllThreads -> Nat] /\ pc' = "kernel"
    BY <1>5, <2>2 DEF Grid
  <2>4. UNCHANGED <<work, target, have_job, batch, block_, val, answer,
                    setup_ok, batch_ok, hashed, overlooked, bounds>>
    BY <1>5 DEF Grid, device
  <2> QED
    BY <1>0, <2>3, <2>4 DEF Number
<1>6. ASSUME NoThreads
      PROVE  /\ tpc' \in [AllThreads -> {"loop", "cas", "nonce", "hash", "exit"}]
             /\ idx' \in [AllThreads -> Nat]
             /\ val' \in [AllThreads -> [1..N -> 0..Byte - 1]]
             /\ hashed' \in [0..MaxCount - 1 -> {0, 1}]
             /\ overlooked' \in BOOLEAN
  BY <1>6, ZerosAreNumber DEF NoThreads, Number
<1>7. CASE Abort
  <2>1. pc' = "read" /\ batch_ok' \in BOOLEAN /\ NoThreads
    BY <1>7 DEF Abort
  <2>2. UNCHANGED <<work, target, have_job, batch, block_, answer, setup_ok, bounds>>
    BY <1>7 DEF Abort
  <2> QED
    BY <1>0, <1>6, <2>1, <2>2 DEF Number
<1>8. CASE KernelDone
  BY <1>0, <1>8 DEF KernelDone, device, Number
<1>9. CASE Judge
  BY <1>0, <1>9 DEF Judge, device, Number
<1>10. CASE EndOfScope
  <2>1. pc' = "idle" /\ result' = NoResult /\ NoThreads
    BY <1>10 DEF EndOfScope
  <2>2. UNCHANGED <<work, target, have_job, batch, block_, setup_ok, batch_ok, bounds>>
    BY <1>10 DEF EndOfScope, device
  <2>3. Number(result'.hash) /\ result'.found \in BOOLEAN
    BY <2>1, ZerosAreNumber DEF NoResult
  <2> QED
    BY <1>0, <1>6, <2>1, <2>2, <2>3 DEF Number
<1>11. ASSUME NEW t \in Threads, Thread(t) PROVE TypeInv'
  <2> USE DEF hostside, device
  <2>1. CASE Break(t)
    BY <1>0, <2>1 DEF Break, Leave, Number
  <2>2. CASE LoopEnds(t)
    BY <1>0, <2>2 DEF LoopEnds, Leave, Number
  <2>3. CASE Win(t)
    BY <1>0, <2>3 DEF Win, Number
  <2>4. CASE StoreNonce(t)
    BY <1>0, <2>4 DEF StoreNonce, Number
  <2>5. CASE StoreHash(t)
    <3>1. threads \in 1..MaxThreads /\ count \in 1..MaxCount
      BY <1>0, <2>5, BackendAssumption DEF StoreHash, IInv, ThreadInv
    <3>2. t \in AllThreads
      BY <3>1, Stride
    <3>3. Number(found_hash'.val)
      BY <1>0, <2>5, <3>2 DEF StoreHash, Number
    <3> QED
      BY <1>0, <2>5, <3>3 DEF StoreHash, Leave, Number
  <2>6. ASSUME NEW v \in HashValues, Hash(t, v) PROVE TypeInv'
    <3>1. stride \in Nat \ {0} /\ t \in AllThreads /\ idx[t] \in 0..MaxCount - 1
          /\ hashed' = [hashed EXCEPT ![idx[t]] = 1]
      BY <2>6, HashEffect
    <3>2. hashed' \in [0..MaxCount - 1 -> {0, 1}]
      BY <1>0, <3>1
    <3>3. v \in [1..N -> 0..Byte - 1]
      BY BackendAssumption
    <3>4. tpc' \in [AllThreads -> {"loop", "cas", "nonce", "hash", "exit"}]
          /\ val' \in [AllThreads -> [1..N -> 0..Byte - 1]]
      BY <1>0, <2>6, <3>3 DEF Hash
    <3>5. idx' \in [AllThreads -> Nat]
      BY <1>0, <2>6, <3>1 DEF Hash
    <3>6. overlooked' \in BOOLEAN
      BY <1>0, <2>6 DEF Hash
    <3>7. UNCHANGED <<hostside, block_>>
      BY <2>6 DEF Hash
    <3> QED
      BY <1>0, <3>2, <3>4, <3>5, <3>6, <3>7 DEF Number
  <2> QED
    BY <1>11, <2>1, <2>2, <2>3, <2>4, <2>5, <2>6 DEF Thread
<1>12. CASE Returned \/ UNCHANGED vars
  BY <1>0, <1>12 DEF Returned, vars, device, Number
<1> HIDE DEF TypeInv, batch, block_, kernel, answer, bounds
<1> QED
  BY <1>1, <1>2, <1>3, <1>4, <1>5, <1>7, <1>8, <1>9, <1>10, <1>11, <1>12 DEF Next, Host

\* Outside of the kernel nothing runs, and what it did is forgotten.
LEMMA QuietStep == IInv /\ [Next]_vars => QuietInv'
<1> SUFFICES ASSUME IInv, [Next]_vars PROVE QuietInv'
  OBVIOUS
<1>0. QuietInv
  BY DEF IInv
<1> USE DEF QuietInv, kernel
<1>1. ASSUME NEW w \in Works, NEW failed, NEW gone, SetupJob(w, failed, gone)
      PROVE  QuietInv'
  BY <1>0, <1>1 DEF SetupJob
<1>2. ASSUME NEW failed, NEW gone, Verify(failed, gone) PROVE QuietInv'
  BY <1>0, <1>2 DEF Verify
<1>3. ASSUME NEW failed, NEW gone, ReadBack(failed, gone) PROVE QuietInv'
  BY <1>0, <1>3 DEF ReadBack
<1>4. ASSUME NEW b \in Batches, NEW failed, NEW gone, Launch(b, failed, gone)
      PROVE  QuietInv'
  BY <1>0, <1>4 DEF Launch
<1>5. CASE Grid
  <2>1. pc' = "kernel" /\ UNCHANGED <<threads, count>>
    BY <1>5 DEF Grid, batch
  <2>2. Threads' = Threads
    BY <2>1, SameLaunch
  <2> QED
    BY <1>5, <2>1, <2>2 DEF Grid
<1>6. CASE Abort
  BY <1>6 DEF Abort, NoThreads
<1>7. CASE KernelDone
  BY <1>0, <1>7 DEF KernelDone
<1>8. CASE Judge
  BY <1>0, <1>8 DEF Judge
<1>9. CASE EndOfScope
  BY <1>9 DEF EndOfScope, NoThreads
<1>10. ASSUME NEW t \in Threads, Thread(t) PROVE QuietInv'
  <2>1. pc = "kernel" /\ pc' = pc /\ UNCHANGED <<threads, count>>
    BY <1>10 DEF Thread, Break, LoopEnds, Win, StoreNonce, StoreHash, Hash, InLoop, hostside, batch
  <2>2. Threads' = Threads
    BY <2>1, SameLaunch
  <2>3. \A u \in AllThreads : u # t => tpc'[u] = tpc[u]
    <3>1. tpc \in [AllThreads -> {"loop", "cas", "nonce", "hash", "exit"}]
      BY DEF IInv, TypeInv
    <3> QED
      BY <1>10, <3>1 DEF Thread, Break, LoopEnds, Win, StoreNonce, StoreHash, Hash, Leave
  <2> QED
    BY <1>0, <2>1, <2>2, <2>3
<1>11. CASE Returned \/ UNCHANGED vars
  <2>1. UNCHANGED vars
    BY <1>11 DEF Returned
  <2>2. Threads' = Threads
    BY <2>1, SameLaunch DEF vars, batch
  <2> QED
    BY <1>0, <2>1, <2>2 DEF vars
<1> HIDE DEF QuietInv, kernel
<1> QED
  BY <1>1, <1>2, <1>3, <1>4, <1>5, <1>6, <1>7, <1>8, <1>9, <1>10, <1>11 DEF Next, Host

\* What holds of a thread in the kernel.
ThreadOK(t) ==
  /\ idx[t] % stride = t
  /\ \A i \in Own(t) : i < idx[t] => hashed[i] = 1
  /\ tpc[t] = "loop" => \A i \in Own(t) : i >= idx[t] => hashed[i] = 0
  /\ tpc[t] \in {"cas", "nonce", "hash"} =>
       idx[t] < count /\ hashed[idx[t]] = 1 /\ Meets(val[t])
  /\ tpc[t] = "exit" /\ ~found => \A i \in Own(t) : hashed[i] = 1

\* A thread in the kernel, and what it is at.
LEMMA InKernel ==
  ASSUME IInv, pc = "kernel"
  PROVE  /\ threads \in 1..MaxThreads /\ count \in 1..MaxCount /\ count \in Nat /\ count # 0
         /\ stride \in Nat \ {0} /\ Threads \subseteq AllThreads /\ Threads = 0..stride - 1
         /\ \A i \in 0..count - 1 : i % stride \in Threads /\ i \in Own(i % stride)
         /\ tpc \in [AllThreads -> {"loop", "cas", "nonce", "hash", "exit"}]
         /\ idx \in [AllThreads -> Nat] /\ val \in [AllThreads -> [1..N -> 0..Byte - 1]]
         /\ found \in BOOLEAN
         /\ \A t \in Threads : ThreadOK(t)
<1>1. threads \in 1..MaxThreads /\ count \in 1..MaxCount /\ count \in Nat /\ count # 0
  BY BackendAssumption DEF IInv, ThreadInv, TypeInv
<1>2. /\ stride \in Nat \ {0} /\ Threads \subseteq AllThreads /\ Threads = 0..stride - 1
      /\ \A i \in 0..count - 1 : i % stride \in Threads /\ i \in Own(i % stride)
  BY <1>1, Stride
<1>3. \A t \in Threads : ThreadOK(t)
  BY DEF IInv, ThreadInv, ThreadOK
<1> QED
  BY <1>1, <1>2, <1>3 DEF IInv, TypeInv

\* A step of one thread that hashes nothing leaves the others as they are.
LEMMA OthersStay ==
  ASSUME IInv, NEW t \in Threads, NEW u \in Threads, u # t,
         Break(t) \/ LoopEnds(t) \/ Win(t) \/ StoreNonce(t) \/ StoreHash(t)
  PROVE  ThreadOK(u)'
<1>1. pc = "kernel" /\ UNCHANGED <<threads, count, idx, val, hashed>> /\ UNCHANGED constants
  BY DEF Break, LoopEnds, Win, StoreNonce, StoreHash, InLoop, hostside, batch, device
<1>2. ThreadOK(u) /\ u \in AllThreads /\ t \in AllThreads
  BY <1>1, InKernel
<1>3. tpc'[u] = tpc[u] /\ (found => found')
  <2>1. tpc \in [AllThreads -> {"loop", "cas", "nonce", "hash", "exit"}]
    BY <1>1, InKernel
  <2> QED
    BY <1>2, <2>1 DEF Break, LoopEnds, Win, StoreNonce, StoreHash, Leave, block_
<1>4. stride' = stride /\ Own(u)' = Own(u) /\ Meets(val[u])' = Meets(val[u])
  BY <1>1, SameLaunch, SameJob
<1> QED
  BY <1>1, <1>2, <1>3, <1>4 DEF ThreadOK

\* A step of a thread keeps what it has hashed, and the other threads as they are.
LEMMA ThreadStep == IInv /\ [Next]_vars => ThreadInv'
<1> SUFFICES ASSUME IInv, [Next]_vars PROVE ThreadInv'
  OBVIOUS
<1>0. ThreadInv
  BY DEF IInv
<1>1. ASSUME NEW w \in Works, NEW failed, NEW gone, SetupJob(w, failed, gone)
      PROVE  ThreadInv'
  BY <1>0, <1>1 DEF SetupJob, ThreadInv, batch
<1>2. ASSUME NEW failed, NEW gone, Verify(failed, gone) PROVE ThreadInv'
  BY <1>0, <1>2 DEF Verify, ThreadInv, batch
<1>3. ASSUME NEW failed, NEW gone, ReadBack(failed, gone) PROVE ThreadInv'
  BY <1>0, <1>3 DEF ReadBack, ThreadInv, batch
<1>4. ASSUME NEW b \in Batches, NEW failed, NEW gone, Launch(b, failed, gone)
      PROVE  ThreadInv'
  <2>1. b.count \in 1..MaxCount /\ MaxCount \in Nat
    BY BackendAssumption
  <2>2. \A i \in 0..MaxCount - 1 : hashed[i] = 0
    BY <1>4 DEF Launch, IInv, QuietInv
  <2>3. pc' \in {"read", "grid"} /\ count' # 0 /\ hashed' = hashed
    BY <1>4, <2>1 DEF Launch
  <2> QED
    BY <2>2, <2>3 DEF ThreadInv
<1>5. CASE Grid
  <2>1. /\ pc' = "kernel" /\ UNCHANGED <<threads, count, hashed>> /\ count # 0
        /\ \A i \in 0..MaxCount - 1 : hashed[i] = 0
    BY <1>0, <1>5 DEF Grid, IInv, QuietInv, ThreadInv, batch
  <2>2. threads \in 1..MaxThreads /\ count \in 1..MaxCount /\ MaxCount \in Nat
    BY <2>1, BackendAssumption DEF IInv, TypeInv
  <2>3. stride \in Nat \ {0} /\ Threads = 0..stride - 1 /\ Threads \subseteq AllThreads
    BY <2>2, Stride
  <2>4. stride' = stride /\ Threads' = Threads /\ \A t : Own(t)' = Own(t)
    BY <2>1, SameLaunch
  <2>5. ASSUME NEW t \in Threads PROVE ThreadOK(t)'
    <3>1. idx'[t] = t /\ tpc'[t] = "loop"
      BY <1>5, <2>3 DEF Grid
    <3>2. t % stride = t
      BY <2>3, Wrapping
    <3>3. ASSUME NEW i \in Own(t), i < t PROVE FALSE
      <4>1. i \in Nat /\ i % stride = t /\ i < stride
        BY <2>2, <2>3, <3>3 DEF Own
      <4>2. i % stride = i
        BY <2>3, <4>1, Wrapping
      <4> QED
        BY <3>3, <4>1, <4>2, <2>3
    <3>4. \A i \in Own(t) : hashed'[i] = 0
      BY <2>1, <2>2 DEF Own
    <3> QED
      BY <2>4, <3>1, <3>2, <3>3, <3>4 DEF ThreadOK
  <2>6. \A t \in Threads' : ThreadOK(t)'
    BY <2>4, <2>5
  <2> QED
    BY <1>0, <2>1, <2>6 DEF ThreadInv, ThreadOK
<1>6. CASE Abort
  BY <1>6 DEF Abort, NoThreads, ThreadInv, batch
<1>7. CASE KernelDone
  BY <1>0, <1>7 DEF KernelDone, ThreadInv, batch
<1>8. CASE Judge
  BY <1>0, <1>8 DEF Judge, ThreadInv, batch
<1>9. CASE EndOfScope
  BY <1>9 DEF EndOfScope, NoThreads, ThreadInv, batch
<1>10. ASSUME NEW t \in Threads,
              Break(t) \/ LoopEnds(t) \/ Win(t) \/ StoreNonce(t) \/ StoreHash(t)
       PROVE  ThreadInv'
  <2>1. /\ pc = "kernel" /\ pc' = pc /\ UNCHANGED <<threads, count, idx, val, hashed>>
        /\ UNCHANGED constants
    BY <1>10 DEF Break, LoopEnds, Win, StoreNonce, StoreHash, InLoop, hostside, batch, device
  <2>2. /\ ThreadOK(t) /\ t \in AllThreads /\ count \in Nat
        /\ tpc \in [AllThreads -> {"loop", "cas", "nonce", "hash", "exit"}]
        /\ idx \in [AllThreads -> Nat]
    BY <2>1, InKernel
  <2>3. stride' = stride /\ Own(t)' = Own(t) /\ Meets(val[t])' = Meets(val[t]) /\ Threads' = Threads
    BY <2>1, SameLaunch, SameJob
  <2>4. ThreadOK(t)'
    <3>1. CASE Break(t)
      <4>1. tpc'[t] = "exit" /\ found'
        BY <2>2, <3>1 DEF Break, Stops, Leave, block_
      <4> QED
        BY <2>1, <2>2, <2>3, <4>1 DEF ThreadOK
    <3>2. CASE LoopEnds(t)
      <4>1. tpc'[t] = "exit" /\ idx[t] >= count
        BY <2>2, <3>2 DEF LoopEnds, Leave
      <4>2. \A i \in Own(t) : i < idx[t]
        BY <2>2, <4>1 DEF Own
      <4> QED
        BY <2>1, <2>2, <2>3, <4>1, <4>2 DEF ThreadOK
    <3>3. CASE Win(t)
      <4>1. tpc[t] = "cas" /\ tpc'[t] \in {"exit", "nonce"} /\ found'
        BY <2>2, <3>3 DEF Win
      <4> QED
        BY <2>1, <2>2, <2>3, <4>1 DEF ThreadOK
    <3>4. CASE StoreNonce(t)
      <4>1. tpc[t] = "nonce" /\ tpc'[t] = "hash"
        BY <2>2, <3>4 DEF StoreNonce
      <4> QED
        BY <2>1, <2>2, <2>3, <4>1 DEF ThreadOK
    <3>5. CASE StoreHash(t)
      <4>1. tpc[t] = "hash" /\ tpc'[t] = "exit" /\ found' = found
        BY <2>2, <3>5 DEF StoreHash, Leave
      <4>2. found
        BY <2>1, <4>1 DEF IInv, WinInv, Storing
      <4> QED
        BY <2>1, <2>2, <2>3, <4>1, <4>2 DEF ThreadOK
    <3> QED
      BY <1>10, <3>1, <3>2, <3>3, <3>4, <3>5
  <2>5. \A u \in Threads' : ThreadOK(u)'
    BY <1>10, <2>3, <2>4, OthersStay
  <2> QED
    BY <1>0, <2>1, <2>5 DEF ThreadInv, ThreadOK
<1>11. ASSUME NEW t \in Threads, NEW v \in HashValues, Hash(t, v) PROVE ThreadInv'
  <2>1. /\ pc = "kernel" /\ tpc[t] = "loop" /\ t \in AllThreads
        /\ stride \in Nat \ {0} /\ count \in Nat \ {0} /\ count <= MaxCount
        /\ idx[t] \in 0..count - 1 /\ idx[t] \in 0..MaxCount - 1
        /\ idx[t] \in Own(t) /\ hashed[idx[t]] = 0
        /\ hashed' = [hashed EXCEPT ![idx[t]] = 1]
        /\ UNCHANGED <<threads, count>> /\ UNCHANGED constants
    BY <1>11, HashEffect
  <2>2. /\ \A u \in Threads : ThreadOK(u) /\ u \in AllThreads
        /\ tpc \in [AllThreads -> {"loop", "cas", "nonce", "hash", "exit"}]
        /\ idx \in [AllThreads -> Nat] /\ val \in [AllThreads -> [1..N -> 0..Byte - 1]]
        /\ hashed \in [0..MaxCount - 1 -> {0, 1}] /\ MaxCount \in Nat
    BY <2>1, InKernel, BackendAssumption DEF IInv, TypeInv
  <2>3. /\ stride' = stride /\ Threads' = Threads /\ \A u : Own(u)' = Own(u)
        /\ \A x : Meets(x)' = Meets(x) /\ pc' = pc /\ found' = found
    BY <1>11, <2>1, SameLaunch, SameJob DEF Hash, hostside, block_
  <2>4. \A i \in 0..MaxCount - 1 : hashed'[i] = IF i = idx[t] THEN 1 ELSE hashed[i]
    BY <2>1, <2>2
  <2>5. ThreadOK(t)'
    <3>1. CASE Meets(v)
      <4>1. idx' = idx /\ tpc'[t] = "cas" /\ val'[t] = v
        BY <1>11, <2>1, <2>2, <3>1 DEF Hash
      <4>2. Meets(val[t])'
        BY <2>3, <3>1, <4>1 DEF Meets, constants
      <4>3. \A i \in Own(t) : i < idx[t] => hashed'[i] = 1
        <5>1. \A i \in Own(t) : i \in 0..MaxCount - 1
          BY <2>1, <2>2 DEF Own
        <5> QED
          BY <2>2, <2>4, <5>1 DEF ThreadOK
      <4>4. idx[t] < count /\ idx[t] % stride = t
        <5>1. ThreadOK(t)
          BY <2>2
        <5> QED
          BY <2>1, <5>1 DEF ThreadOK
      <4>5. hashed'[idx[t]] = 1
        BY <2>1, <2>4
      <4> QED
        BY <2>1, <2>3, <4>1, <4>2, <4>3, <4>4, <4>5 DEF ThreadOK
    <3>2. CASE ~ Meets(v)
      <4>1. idx'[t] = idx[t] + stride /\ tpc'[t] = "loop"
        BY <1>11, <2>1, <2>2, <3>2 DEF Hash
      <4>2. idx'[t] % stride = t
        <5>1. idx[t] \in Nat /\ idx[t] % stride = t
          BY <2>1, <2>2 DEF ThreadOK
        <5> QED
          BY <2>1, <4>1, <5>1, Around
      <4>3. ASSUME NEW i \in Own(t)
            PROVE  /\ i \in 0..MaxCount - 1 /\ i \in Int
                   /\ i < idx[t] + stride => i <= idx[t]
        <5>1. i \in 0..MaxCount - 1 /\ i \in Int /\ i % stride = t
          BY <2>1, <2>2 DEF Own
        <5>2. idx[t] \in Int /\ idx[t] % stride = t
          BY <2>1, <2>2 DEF ThreadOK
        <5>3. ASSUME i < idx[t] + stride, i > idx[t] PROVE FALSE
          <6>1. i - idx[t] < stride /\ idx[t] - i < stride
            BY <2>1, <5>1, <5>2, <5>3
          <6>2. i = idx[t]
            BY <2>1, <5>1, <5>2, <6>1, Apart
          <6> QED
            BY <5>1, <5>2, <5>3, <6>2
        <5> QED
          BY <5>1, <5>2, <5>3
      <4>4. \A i \in Own(t) : i < idx'[t] => hashed'[i] = 1
        <5> TAKE i \in Own(t)
        <5> HAVE i < idx'[t]
        <5>1. i <= idx[t] /\ i \in Int /\ i \in 0..MaxCount - 1
          BY <4>1, <4>3
        <5>2. CASE i = idx[t]
          BY <2>4, <5>1, <5>2
        <5>3. CASE i < idx[t]
          <6>1. hashed[i] = 1
            BY <2>2, <5>3 DEF ThreadOK
          <6> QED
            BY <2>4, <5>1, <6>1
        <5> QED
          BY <2>1, <5>1, <5>2, <5>3
      <4>5. \A i \in Own(t) : i >= idx'[t] => hashed'[i] = 0
        <5> TAKE i \in Own(t)
        <5> HAVE i >= idx'[t]
        <5>1. i > idx[t] /\ i >= idx[t] /\ i # idx[t] /\ i \in 0..MaxCount - 1
          BY <2>1, <4>1, <4>3
        <5>2. hashed[i] = 0
          BY <2>1, <2>2, <5>1 DEF ThreadOK
        <5> QED
          BY <2>4, <5>1, <5>2
      <4> QED
        BY <2>3, <4>1, <4>2, <4>4, <4>5 DEF ThreadOK
    <3> QED
      BY <3>1, <3>2
  <2>6. ASSUME NEW u \in Threads, u # t PROVE ThreadOK(u)'
    <3>1. idx'[u] = idx[u] /\ tpc'[u] = tpc[u] /\ val'[u] = val[u]
      BY <1>11, <2>1, <2>2, <2>6 DEF Hash
    <3>2. \A i \in Own(u) : hashed'[i] = hashed[i]
      <4> TAKE i \in Own(u)
      <4>1. i \in 0..MaxCount - 1 /\ i % stride = u
        BY <2>1, <2>2 DEF Own
      <4>2. i # idx[t]
        BY <2>1, <2>6, <4>1 DEF Own
      <4> QED
        BY <2>4, <4>1, <4>2
    <3>3. tpc[u] \in {"cas", "nonce", "hash"} => hashed'[idx[u]] = 1
      <4> HAVE tpc[u] \in {"cas", "nonce", "hash"}
      <4>1. idx[u] \in Nat /\ idx[u] < count /\ hashed[idx[u]] = 1 /\ idx[u] \in 0..MaxCount - 1
        BY <2>1, <2>2 DEF ThreadOK
      <4> QED
        BY <2>4, <4>1
    <3>4. Meets(val[u])' = Meets(val[u])
      BY <2>1, <3>1 DEF Meets, constants
    <3> QED
      BY <2>1, <2>2, <2>3, <3>1, <3>2, <3>3, <3>4 DEF ThreadOK
  <2>7. \A u \in Threads' : ThreadOK(u)'
    BY <2>3, <2>5, <2>6
  <2>8. \A i \in 0..MaxCount - 1 : i >= count => hashed'[i] = 0
    <3> TAKE i \in 0..MaxCount - 1
    <3> HAVE i >= count
    <3>1. i # idx[t] /\ hashed[i] = 0
      BY <1>0, <2>1 DEF ThreadInv
    <3> QED
      BY <2>4, <3>1
  <2> QED
    BY <1>0, <2>1, <2>3, <2>7, <2>8 DEF ThreadInv, ThreadOK
<1>12. CASE Returned \/ UNCHANGED vars
  <2>1. UNCHANGED vars
    BY <1>12 DEF Returned
  <2>2. UNCHANGED <<threads, count, pc, tpc, idx, val, hashed, found>> /\ UNCHANGED constants
    BY <2>1 DEF vars, batch, kernel, block_, device
  <2>3. stride' = stride /\ Threads' = Threads /\ (\A t : Own(t)' = Own(t))
        /\ \A t : Meets(val[t])' = Meets(val[t])
    BY <2>2, SameLaunch DEF Meets, constants
  <2> QED
    BY <1>0, <2>2, <2>3 DEF ThreadInv
<1> QED
  BY <1>1, <1>2, <1>3, <1>4, <1>5, <1>6, <1>7, <1>8, <1>9, <1>10, <1>11, <1>12
     DEF Next, Host, Thread

\* What has been stored stays of use while the batch goes on.
LEMMA WroteStays ==
  ASSUME UNCHANGED <<start_nonce, count>>, UNCHANGED constants,
         \A i \in 0..count - 1 : hashed[i] = 1 => hashed'[i] = 1,
         UNCHANGED <<found_nonce, found_hash>>, Wrote(found_nonce, found_hash)
  PROVE  Wrote(found_nonce, found_hash)'
<1>1. PICK i \in 0..count - 1 :
        /\ found_nonce = start_nonce + i /\ hashed[i] = 1
        /\ found_hash.of = Message(found_nonce) /\ Meets(found_hash.val)
  BY DEF Wrote
<1>2. hashed'[i] = 1 /\ Message(found_nonce)' = Message(found_nonce)
      /\ Meets(found_hash.val)' = Meets(found_hash.val)
  BY <1>1 DEF Message, Meets, constants
<1> QED
  BY <1>1, <1>2 DEF Wrote

\* One thread stores its find: the one whose compare-and-swap came first.
LEMMA WinStep == IInv /\ [Next]_vars => WinInv'
<1> SUFFICES ASSUME IInv, [Next]_vars PROVE WinInv'
  OBVIOUS
<1>0. WinInv
  BY DEF IInv
<1>1. ASSUME NEW w \in Works, NEW failed, NEW gone, SetupJob(w, failed, gone)
      PROVE  WinInv'
  BY <1>0, <1>1 DEF SetupJob, WinInv
<1>2. ASSUME NEW failed, NEW gone, Verify(failed, gone) PROVE WinInv'
  BY <1>0, <1>2 DEF Verify, WinInv
<1>3. ASSUME NEW failed, NEW gone, ReadBack(failed, gone) PROVE WinInv'
  BY <1>0, <1>3 DEF ReadBack, WinInv
<1>4. ASSUME NEW b \in Batches, NEW failed, NEW gone, Launch(b, failed, gone)
      PROVE  WinInv'
  <2>1. pc' \in {"read", "grid"} /\ (pc' = "read" => ~batch_ok')
    BY <1>4 DEF Launch
  <2> QED
    BY <2>1 DEF WinInv
<1>5. CASE Grid
  <2>1. /\ pc' = "kernel" /\ UNCHANGED <<threads, count, batch_ok, found>> /\ count # 0
        /\ (batch_ok => ~found)
    BY <1>5 DEF Grid, IInv, ThreadInv, OutcomeInv, batch, block_
  <2>2. threads \in 1..MaxThreads /\ count \in 1..MaxCount
    BY <2>1, BackendAssumption DEF IInv, TypeInv
  <2>3. Threads \subseteq AllThreads /\ Threads' = Threads
    BY <2>1, <2>2, Stride, SameLaunch
  <2>4. \A t \in Threads' : tpc'[t] = "loop"
    BY <1>5, <2>3 DEF Grid
  <2> QED
    BY <2>1, <2>4 DEF WinInv, Storing
<1>6. CASE Abort
  BY <1>6 DEF Abort, WinInv
<1>7. CASE KernelDone
  <2>1. pc' = "read" /\ UNCHANGED <<start_nonce, count, hashed, found_nonce, found_hash, found, batch_ok>>
        /\ UNCHANGED constants
    BY <1>7 DEF KernelDone, batch, block_, device
  <2>2. ~ \E t \in Threads : Storing(t)
    BY <1>7 DEF KernelDone, Storing
  <2>3. batch_ok /\ found => Wrote(found_nonce, found_hash)
    BY <1>0, <1>7, <2>2 DEF KernelDone, WinInv
  <2>4. batch_ok' /\ found' => Wrote(found_nonce, found_hash)'
    BY <2>1, <2>3, WroteStays
  <2> QED
    BY <2>1, <2>4 DEF WinInv
<1>8. CASE Judge
  BY <1>0, <1>8 DEF Judge, WinInv
<1>9. CASE EndOfScope
  BY <1>9 DEF EndOfScope, WinInv
<1>10. ASSUME NEW t \in Threads, Thread(t) PROVE WinInv'
  <2>1. /\ pc = "kernel" /\ pc' = pc
        /\ UNCHANGED <<threads, count, start_nonce, batch_ok>> /\ UNCHANGED constants
    BY <1>10 DEF Thread, Break, LoopEnds, Win, StoreNonce, StoreHash, Hash, InLoop, hostside,
       batch, device
  <2>2. /\ \A u \in Threads : ThreadOK(u) /\ u \in AllThreads
        /\ tpc \in [AllThreads -> {"loop", "cas", "nonce", "hash", "exit"}]
        /\ idx \in [AllThreads -> Nat] /\ count \in Nat
    BY <2>1, InKernel
  <2>3. Threads' = Threads
    BY <2>1, SameLaunch
  <2>4. /\ \A u, x \in Threads : Storing(u) /\ Storing(x) => u = x
        /\ \A u \in Threads : Storing(u) => found
        /\ \A u \in Threads : tpc[u] = "hash" => found_nonce = start_nonce + idx[u]
        /\ batch_ok /\ found => (\E u \in Threads : Storing(u)) \/ Wrote(found_nonce, found_hash)
    BY <1>0, <2>1 DEF WinInv
  <2>5. SUFFICES
          /\ \A u, x \in Threads : Storing(u)' /\ Storing(x)' => u = x
          /\ \A u \in Threads : Storing(u)' => found'
          /\ \A u \in Threads : tpc'[u] = "hash" => found_nonce' = start_nonce' + idx'[u]
          /\ batch_ok' /\ found' =>
               (\E u \in Threads : Storing(u)') \/ Wrote(found_nonce, found_hash)'
    BY <2>1, <2>3 DEF WinInv, Storing
  <2>6. \A u \in Threads : u # t => tpc'[u] = tpc[u]
    BY <1>10, <2>2 DEF Thread, Break, LoopEnds, Win, StoreNonce, StoreHash, Hash, Leave
  <2>7. CASE Break(t) \/ LoopEnds(t) \/ \E v \in HashValues : Hash(t, v)
    <3>1. tpc[t] = "loop" /\ tpc'[t] \in {"loop", "cas", "exit"} /\ UNCHANGED block_
      BY <2>2, <2>7 DEF Break, LoopEnds, Hash, InLoop, Leave
    <3>2. \A u \in Threads : Storing(u)' = Storing(u) /\ (Storing(u) => u # t)
      BY <2>6, <3>1 DEF Storing
    <3>3. \A u \in Threads : u # t => idx'[u] = idx[u]
      BY <2>2, <2>7 DEF Break, LoopEnds, Hash
    <3>4. \A i \in 0..count - 1 : hashed[i] = 1 => hashed'[i] = 1
      <4>1. CASE Break(t) \/ LoopEnds(t)
        BY <4>1 DEF Break, LoopEnds
      <4>2. ASSUME NEW v \in HashValues, Hash(t, v)
            PROVE  \A i \in 0..count - 1 : hashed[i] = 1 => hashed'[i] = 1
        <5>1. hashed' = [hashed EXCEPT ![idx[t]] = 1] /\ count <= MaxCount /\ count \in Nat
          BY <4>2, HashEffect
        <5>2. hashed \in [0..MaxCount - 1 -> {0, 1}] /\ MaxCount \in Nat
          BY BackendAssumption DEF IInv, TypeInv
        <5>3. \A i \in 0..count - 1 : i \in 0..MaxCount - 1
          BY <5>1, <5>2
        <5> QED
          BY <5>1, <5>2, <5>3
      <4> QED
        BY <2>7, <4>1, <4>2
    <3>5. Wrote(found_nonce, found_hash) => Wrote(found_nonce, found_hash)'
      BY <2>1, <3>1, <3>4, WroteStays DEF block_
    <3>6. \A u \in Threads : tpc'[u] = "hash" => found_nonce' = start_nonce' + idx'[u]
      BY <2>1, <2>4, <2>6, <3>1, <3>3 DEF block_
    <3>7. found' = found /\ batch_ok' = batch_ok
      BY <2>1, <3>1 DEF block_
    <3> QED
      BY <2>4, <3>2, <3>5, <3>6, <3>7
  <2>8. CASE Win(t)
    <3>1. /\ tpc[t] = "cas" /\ tpc'[t] = (IF found THEN "exit" ELSE "nonce") /\ found'
          /\ UNCHANGED <<found_nonce, found_hash, idx, hashed>>
      BY <2>2, <2>8 DEF Win
    <3>2. CASE found
      <4>1. \A u \in Threads : Storing(u)' = Storing(u)
        BY <2>6, <3>1, <3>2 DEF Storing
      <4>2. Wrote(found_nonce, found_hash) => Wrote(found_nonce, found_hash)'
        BY <2>1, <3>1, WroteStays
      <4>3. \A u \in Threads : tpc'[u] = "hash" => found_nonce' = start_nonce' + idx'[u]
        BY <2>1, <2>4, <2>6, <3>1, <3>2
      <4> QED
        BY <2>1, <2>4, <3>1, <3>2, <4>1, <4>2, <4>3
    <3>3. CASE ~found
      <4>1. \A u \in Threads : ~Storing(u)
        BY <2>4, <3>3
      <4>2. \A u \in Threads : Storing(u)' <=> u = t
        BY <2>6, <3>1, <3>3, <4>1 DEF Storing
      <4>3. \A u \in Threads : tpc'[u] # "hash"
        BY <2>6, <3>1, <3>3, <4>1 DEF Storing
      <4> QED
        BY <3>1, <4>2, <4>3
    <3> QED
      BY <2>4, <3>2, <3>3
  <2>9. CASE StoreNonce(t)
    <3>1. /\ tpc[t] = "nonce" /\ tpc'[t] = "hash" /\ found' = found
          /\ found_nonce' = start_nonce + idx[t] /\ idx' = idx
      BY <2>2, <2>9 DEF StoreNonce
    <3>2. \A u \in Threads : Storing(u)' = Storing(u)
      BY <2>6, <3>1 DEF Storing
    <3>3. \A u \in Threads : tpc'[u] = "hash" => u = t
      <4> SUFFICES ASSUME NEW u \in Threads, u # t, tpc'[u] = "hash" PROVE FALSE
        OBVIOUS
      <4> QED
        BY <2>4, <2>6, <3>1 DEF Storing
    <3>4. Storing(t)'
      BY <3>1 DEF Storing
    <3> QED
      BY <2>1, <2>4, <3>1, <3>2, <3>3, <3>4
  <2>10. CASE StoreHash(t)
    <3>1. /\ tpc[t] = "hash" /\ tpc'[t] = "exit" /\ UNCHANGED <<found, found_nonce, idx, hashed>>
          /\ found_hash' = [of |-> Message(start_nonce + idx[t]), val |-> val[t]]
      BY <2>2, <2>10 DEF StoreHash, Leave
    <3>2. \A u \in Threads : ~Storing(u)'
      <4>1. \A u \in Threads : u # t => ~Storing(u)
        BY <2>4, <3>1 DEF Storing
      <4> QED
        BY <2>6, <3>1, <4>1 DEF Storing
    <3>3. \A u \in Threads : tpc'[u] # "hash"
      BY <3>2 DEF Storing
    <3>4. Wrote(found_nonce, found_hash)'
      <4>1. found_nonce' = start_nonce' + idx[t]
        BY <2>1, <2>4, <3>1
      <4>2. idx[t] \in 0..count' - 1 /\ hashed'[idx[t]] = 1 /\ Meets(val[t])
        BY <2>1, <2>2, <3>1 DEF ThreadOK
      <4>3. found_hash'.of = Message(found_nonce)' /\ found_hash'.val = val[t]
        BY <2>1, <3>1, <4>1 DEF Message, constants
      <4>4. Meets(found_hash.val)'
        BY <2>1, <4>2, <4>3 DEF Meets, constants
      <4> QED
        BY <4>1, <4>2, <4>3, <4>4 DEF Wrote
    <3> QED
      BY <3>2, <3>3, <3>4
  <2> QED
    BY <1>10, <2>7, <2>8, <2>9, <2>10 DEF Thread
<1>11. CASE Returned \/ UNCHANGED vars
  <2>1. UNCHANGED vars
    BY <1>11 DEF Returned
  <2>2. /\ UNCHANGED <<threads, count, start_nonce, pc, tpc, idx, hashed, found, batch_ok,
                       found_nonce, found_hash>>
        /\ UNCHANGED constants
    BY <2>1 DEF vars, batch, kernel, block_, device
  <2>3. Threads' = Threads
    BY <2>2, SameLaunch
  <2>4. Wrote(found_nonce, found_hash) => Wrote(found_nonce, found_hash)'
    BY <2>2, WroteStays
  <2> QED
    BY <1>0, <2>2, <2>3, <2>4 DEF WinInv, Storing
<1> QED
  BY <1>1, <1>2, <1>3, <1>4, <1>5, <1>6, <1>7, <1>8, <1>9, <1>10, <1>11 DEF Next, Host

\* What the kernel leaves is what is read back, if no call fails.
LEMMA OutcomeStep == IInv /\ [Next]_vars => OutcomeInv'
<1> SUFFICES ASSUME IInv, [Next]_vars PROVE OutcomeInv'
  OBVIOUS
<1>0. OutcomeInv
  BY DEF IInv
<1>1. ASSUME NEW w \in Works, NEW failed, NEW gone, SetupJob(w, failed, gone)
      PROVE  OutcomeInv'
  BY <1>1 DEF SetupJob, OutcomeInv
<1>2. ASSUME NEW failed, NEW gone, Verify(failed, gone) PROVE OutcomeInv'
  BY <1>2 DEF Verify, OutcomeInv
<1>3. ASSUME NEW failed, NEW gone, ReadBack(failed, gone) PROVE OutcomeInv'
  <2>1. pc = "read" /\ pc' = "judge" /\ batch_ok' = (batch_ok /\ failed = {})
        /\ UNCHANGED <<count, start_nonce, found, found_nonce, found_hash, hashed>>
        /\ UNCHANGED constants
    BY <1>3 DEF ReadBack, batch, block_
  <2>2. SUFFICES ASSUME batch_ok, failed = {}, batch_ok' PROVE OutcomeInv'
    BY <2>1 DEF OutcomeInv
  <2>3. /\ result'.found = found
        /\ found => result'.nonce = found_nonce /\ result'.hash = found_hash.val
                    /\ result'.of = found_hash.of
    BY <1>3, <2>2 DEF ReadBack, IInv, TypeInv
  <2>4. found => Wrote(result.nonce, [of |-> result.of, val |-> result.hash])'
    <3> HAVE found
    <3>1. Wrote(found_nonce, found_hash)
      BY <2>1, <2>2 DEF IInv, WinInv
    <3>2. PICK i \in 0..count - 1 :
            /\ found_nonce = start_nonce + i /\ hashed[i] = 1
            /\ found_hash.of = Message(found_nonce) /\ Meets(found_hash.val)
      BY <3>1 DEF Wrote
    <3>3. /\ result'.nonce = found_nonce /\ result'.hash = found_hash.val
          /\ result'.of = found_hash.of
      BY <2>3
    <3>4. Message(result.nonce)' = Message(found_nonce)
      BY <2>1, <3>3 DEF Message, constants
    <3>5. Meets(result.hash)' = Meets(found_hash.val)
      BY <2>1, <3>3 DEF Meets, constants
    <3> QED
      BY <2>1, <3>2, <3>3, <3>4, <3>5 DEF Wrote
  <2>5. ~found => \A i \in 0..count - 1 : hashed[i] = 1
    BY <1>0, <2>1, <2>2 DEF OutcomeInv
  <2> QED
    BY <2>1, <2>3, <2>4, <2>5 DEF OutcomeInv
<1>4. ASSUME NEW b \in Batches, NEW failed, NEW gone, Launch(b, failed, gone)
      PROVE  OutcomeInv'
  <2>1. /\ pc' = (IF 2 \in failed THEN "read" ELSE "grid")
        /\ found' = (1 \in failed /\ found) /\ batch_ok' = (failed = {})
    BY <1>4 DEF Launch
  <2> QED
    BY <2>1 DEF OutcomeInv
<1>5. CASE Grid
  BY <1>5 DEF Grid, OutcomeInv
<1>6. CASE Abort
  BY <1>6 DEF Abort, OutcomeInv
<1>7. CASE KernelDone
  <2>1. /\ pc = "kernel" /\ pc' = "read" /\ UNCHANGED <<count, found, hashed, batch_ok>>
        /\ \A t \in Threads : tpc[t] = "exit"
    BY <1>7 DEF KernelDone, batch, block_
  <2>2. \A i \in 0..count - 1 : i % stride \in Threads /\ i \in Own(i % stride)
    BY <2>1, InKernel
  <2>3. ~found => \A i \in 0..count - 1 : hashed[i] = 1
    <3>1. \A t \in Threads : ThreadOK(t)
      BY <2>1, InKernel
    <3> QED
      BY <2>1, <2>2, <3>1 DEF ThreadOK
  <2> QED
    BY <2>1, <2>3 DEF OutcomeInv
<1>8. CASE Judge
  <2>1. /\ pc = "judge" /\ pc' = "judged"
        /\ UNCHANGED <<count, start_nonce, found, hashed, batch_ok, result>>
        /\ UNCHANGED constants
    BY <1>8 DEF Judge, batch, block_, device
  <2>2. Wrote(result.nonce, [of |-> result.of, val |-> result.hash])
          => Wrote(result.nonce, [of |-> result.of, val |-> result.hash])'
    BY <2>1 DEF Wrote, Message, Meets, constants
  <2> QED
    BY <1>0, <2>1, <2>2 DEF OutcomeInv
<1>9. CASE EndOfScope
  BY <1>9 DEF EndOfScope, OutcomeInv
<1>10. ASSUME NEW t \in Threads, Thread(t) PROVE OutcomeInv'
  <2>1. pc = "kernel" /\ pc' = pc
    BY <1>10 DEF Thread, Break, LoopEnds, Win, StoreNonce, StoreHash, Hash, InLoop, hostside
  <2> QED
    BY <2>1 DEF OutcomeInv
<1>11. CASE Returned \/ UNCHANGED vars
  <2>1. UNCHANGED vars
    BY <1>11 DEF Returned
  <2>2. /\ UNCHANGED <<pc, count, start_nonce, found, hashed, batch_ok, result>>
        /\ UNCHANGED constants
    BY <2>1 DEF vars, batch, block_, device, answer
  <2>3. Wrote(result.nonce, [of |-> result.of, val |-> result.hash])
          => Wrote(result.nonce, [of |-> result.of, val |-> result.hash])'
    BY <2>2 DEF Wrote, Message, Meets, constants
  <2> QED
    BY <1>0, <2>2, <2>3 DEF OutcomeInv
<1> QED
  BY <1>1, <1>2, <1>3, <1>4, <1>5, <1>6, <1>7, <1>8, <1>9, <1>10, <1>11 DEF Next, Host

\* A job set up whose constants, pc and history stay.
LEMMA UploadStays ==
  ASSUME UploadInv, UNCHANGED <<work, target, have_job, constants, setup_ok, setups>>,
         pc' \notin {"idle", "verify", "refused"} => have_job,
         pc \in {"verify", "refused"} => pc' \in {"verify", "refused"}
  PROVE  UploadInv'
<1>1. UNCHANGED <<work, target, have_job, setup_ok, setups, c_midstate, c_rk, c_block1_w0,
                  c_block1_nbits, c_target_w>>
  BY DEF constants
<1>2. Message(0)' = Message(0)
  BY <1>1 DEF Message
<1>3. Header' = Header /\ MessageOf(Header[work])' = MessageOf(Header[work])
      /\ block0(Header[work])' = block0(Header[work])
      /\ W0(Header[work])' = W0(Header[work]) /\ Nbits(Header[work])' = Nbits(Header[work])
      /\ Words(target)' = Words(target)
      /\ make_share_target(work.difficulty)' = make_share_target(work.difficulty)
  BY <1>1
<1> QED
  BY <1>1, <1>2, <1>3 DEF UploadInv

\* A set-up without a failure, or verified, stays on the device.
LEMMA UploadStep == IInv /\ [Next]_vars => UploadInv'
<1> SUFFICES ASSUME IInv, [Next]_vars PROVE UploadInv'
  OBVIOUS
<1>0. UploadInv /\ setups \in Nat
  BY DEF IInv, TypeInv
<1>1. ASSUME NEW w \in Works, NEW failed, NEW gone, SetupJob(w, failed, gone)
      PROVE  UploadInv'
  <2>1. /\ W0(Header[w]) \in Seq(Nat) /\ Nbits(Header[w]) \in Seq(Nat)
    BY MessageIs
  <2>2. /\ work' = w /\ target' = make_share_target(w.difficulty) /\ have_job' = TRUE
        /\ setup_ok' = (failed = {}) /\ setups' = setups + 1
        /\ pc' = (IF setups = 0 THEN "verify" ELSE "idle")
        /\ c_block1_w0' = (IF 8 \in failed THEN c_block1_w0 ELSE W0(Header[w]))
        /\ c_block1_nbits' = (IF 9 \in failed THEN c_block1_nbits ELSE Nbits(Header[w]))
        /\ c_target_w' = (IF 10 \in failed THEN c_target_w ELSE Words(target'))
    BY <1>1 DEF SetupJob
  <2>3. failed = {} => c_midstate' = block0(Header[w]) /\ c_rk' = block0(Header[w])
    BY <1>1 DEF SetupJob
  <2>4. c_block1_w0' \in Seq(Nat) /\ c_block1_nbits' \in Seq(Nat)
    BY <1>0, <2>1, <2>2 DEF UploadInv
  <2>5. setups' # 0 /\ (setups' = 1 => pc' = "verify") /\ pc' \in {"idle", "verify"}
    BY <1>0, <2>2
  <2> QED
    BY <2>2, <2>3, <2>4, <2>5 DEF UploadInv
<1>2. ASSUME NEW failed, NEW gone, Verify(failed, gone) PROVE UploadInv'
  <2>1. /\ UNCHANGED <<work, target, have_job, constants, setup_ok, setups>>
        /\ pc' \in {"idle", "refused"}
        /\ pc' = "idle" => Message(0) = MessageOf(Header[work])
    BY <1>2 DEF Verify, Verified
  <2>2. UNCHANGED <<work, target, have_job, setup_ok, setups, c_midstate, c_rk, c_block1_w0,
                    c_block1_nbits, c_target_w>>
    BY <2>1 DEF constants
  <2>3. Message(0)' = Message(0) /\ MessageOf(Header[work])' = MessageOf(Header[work])
    BY <2>2 DEF Message
  <2> QED
    BY <1>0, <2>1, <2>2, <2>3 DEF UploadInv
<1>3. ASSUME NEW failed, NEW gone, ReadBack(failed, gone) PROVE UploadInv'
  <2>1. UNCHANGED <<work, target, have_job, constants, setup_ok, setups>>
        /\ pc = "read" /\ pc' = "judge"
    BY <1>3 DEF ReadBack
  <2>2. have_job
    BY <1>0, <2>1 DEF UploadInv
  <2> QED
    BY <1>0, <2>1, <2>2, UploadStays
<1>4. ASSUME NEW b \in Batches, NEW failed, NEW gone, Launch(b, failed, gone)
      PROVE  UploadInv'
  <2>1. UNCHANGED <<work, target, have_job, constants, setup_ok, setups>>
        /\ pc = "idle" /\ have_job
    BY <1>4 DEF Launch
  <2> QED
    BY <1>0, <2>1, UploadStays
<1>5. CASE Grid \/ Abort \/ KernelDone \/ Judge \/ EndOfScope
  <2>1. UNCHANGED <<work, target, have_job, constants, setup_ok, setups>>
        /\ pc \in {"grid", "kernel", "judge", "judged"}
    BY <1>5 DEF Grid, Abort, KernelDone, Judge, EndOfScope, device, bounds
  <2>2. have_job
    BY <1>0, <2>1 DEF UploadInv
  <2> QED
    BY <1>0, <2>1, <2>2, UploadStays
<1>6. ASSUME NEW t \in Threads, Thread(t) PROVE UploadInv'
  <2>1. UNCHANGED <<work, target, have_job, constants, setup_ok, setups>>
        /\ pc = "kernel" /\ pc' = pc
    BY <1>6 DEF Thread, Break, LoopEnds, Win, StoreNonce, StoreHash, Hash, InLoop, hostside,
       device, bounds
  <2>2. have_job
    BY <1>0, <2>1 DEF UploadInv
  <2> QED
    BY <1>0, <2>1, <2>2, UploadStays
<1>7. CASE Returned \/ UNCHANGED vars
  <2>1. UNCHANGED <<work, target, have_job, constants, setup_ok, setups, pc>>
    BY <1>7 DEF Returned, vars, device, bounds
  <2>2. pc' \notin {"idle", "verify", "refused"} => have_job
    BY <1>0, <2>1 DEF UploadInv
  <2> QED
    BY <1>0, <2>1, <2>2, UploadStays
<1> QED
  BY <1>1, <1>2, <1>3, <1>4, <1>5, <1>6, <1>7 DEF Next, Host

\* A hash passed over is above the target that was set up.
LEMMA OverlookStep == IInv /\ [Next]_vars => OverlookInv'
<1> SUFFICES ASSUME IInv, [Next]_vars, setup_ok' PROVE ~overlooked'
  BY DEF OverlookInv
<1>1. ASSUME NEW w \in Works, NEW failed, NEW gone, SetupJob(w, failed, gone)
      PROVE  ~overlooked'
  BY <1>1 DEF SetupJob, IInv, QuietInv
<1>2. ASSUME NEW t \in Threads, NEW v \in HashValues, Hash(t, v) PROVE ~overlooked'
  <2>1. setup_ok /\ ~overlooked /\ Number(target) /\ c_target_w = Words(target)
    BY <1>2 DEF Hash, hostside, IInv, TypeInv, OverlookInv, UploadInv
  <2>2. Number(v)
    BY BackendAssumption DEF Number
  <2>3. ~Meets(v) => ~(FromLE(v) <= FromLE(target))
    BY <2>1, <2>2, MeetsIsOrder
  <2> QED
    BY <1>2, <2>1, <2>3 DEF Hash
<1>3. ASSUME NEW failed, NEW gone,
             Verify(failed, gone) \/ ReadBack(failed, gone)
               \/ \E b \in Batches : Launch(b, failed, gone)
      PROVE  ~overlooked'
  BY <1>3 DEF Verify, ReadBack, Launch, IInv, OverlookInv
<1>4. CASE Grid \/ KernelDone \/ Judge
  BY <1>4 DEF Grid, KernelDone, Judge, IInv, OverlookInv
<1>5. CASE Abort \/ EndOfScope
  BY <1>5 DEF Abort, EndOfScope, NoThreads
<1>6. ASSUME NEW t \in Threads, Break(t) \/ LoopEnds(t) \/ Win(t) \/ StoreNonce(t) \/ StoreHash(t)
      PROVE  ~overlooked'
  BY <1>6 DEF Break, LoopEnds, Win, StoreNonce, StoreHash, hostside, IInv, OverlookInv
<1>7. CASE Returned \/ UNCHANGED vars
  BY <1>7 DEF Returned, vars, IInv, OverlookInv
<1> QED
  BY <1>1, <1>2, <1>3, <1>4, <1>5, <1>6, <1>7 DEF Next, Host, Thread

\* The inductive invariant of the backend.
THEOREM Invariance == Spec => []IInv
<1>1. IInv /\ [Next]_vars => IInv'
  <2> SUFFICES ASSUME IInv, [Next]_vars PROVE IInv'
    OBVIOUS
  <2>1. TypeInv'
    BY TypeStep
  <2>2. QuietInv'
    BY QuietStep
  <2>3. ThreadInv'
    BY ThreadStep
  <2>4. WinInv'
    BY WinStep
  <2>5. OutcomeInv'
    BY OutcomeStep
  <2>6. UploadInv'
    BY UploadStep
  <2>7. OverlookInv'
    BY OverlookStep
  <2> QED
    BY <2>1, <2>2, <2>3, <2>4, <2>5, <2>6, <2>7 DEF IInv
<1> QED
  BY <1>1, InitIInv, PTL DEF Spec

-----------------------------------------------------------------------------
(* What the miner submits.                                                 *)

\* After a set-up without a failure, or the first one once verified, the device
\* hashes what the pool hashes.
LEMMA HashesForThePool ==
  ASSUME IInv, pc = "judged", setup_ok \/ setups = 1
  PROVE  \A n \in Nat : Message(n) = MessageOf(PoolHeader(work, n))
<1> DEFINE K == W0(Header[work]) \o Nbits(Header[work])
           k == c_block1_w0 \o c_block1_nbits
<1>1. work \in Works /\ UploadInv
  BY DEF IInv, TypeInv
<1>2. /\ W0(Header[work]) \in Seq(Nat) /\ Nbits(Header[work]) \in Seq(Nat)
      /\ MessageOf(Header[work]) = Hashes(work, K, 0)
      /\ \A n \in Nat : MessageOf(PoolHeader(work, n)) = Hashes(work, K, n)
  BY <1>1, MessageIs
<1>3. c_midstate = block0(Header[work]) /\ c_rk = block0(Header[work]) /\ k = K
  <2>1. CASE setup_ok
    BY <1>1, <2>1 DEF UploadInv
  <2>2. CASE setups = 1
    <3>1. Message(0) = Hashes(work, K, 0)
      BY <1>1, <1>2, <2>2 DEF UploadInv
    <3>2. /\ c_midstate = block0(Header[work]) /\ c_rk = block0(Header[work])
          /\ k \o write_le32(0) = K \o write_le32(0)
      BY <3>1 DEF Message, Hashes
    <3>3. k \in Seq(Nat) /\ K \in Seq(Nat)
      BY <1>1, <1>2 DEF UploadInv
    <3>4. write_le32(0) \in Seq(Nat)
      <4>1. write_le32(0) \in [1..4 -> 0..Byte - 1]
        <5> 0 \in Nat
          OBVIOUS
        <5> QED
          BY Le32
      <4>2. write_le32(0) \in [1..4 -> Nat]
        BY <4>1, Bytes
      <4>3. 4 \in Nat
        OBVIOUS
      <4> QED
        BY <4>2, <4>3, IsSeq
    <3> HIDE DEF k, K
    <3>5. k = K
      BY <3>2, <3>3, <3>4, ConcatSimplifications, Zenon
    <3> QED
      BY <3>2, <3>5
  <2> QED
    BY <2>1, <2>2
<1> HIDE DEF K
<1>4. \A n \in Nat : Message(n) = Hashes(work, K, n)
  BY <1>3 DEF Message, Hashes
<1> QED
  BY <1>2, <1>4

\* Every find read back without a failing call is one the pool will accept as
\* such: a nonce of the batch, hashed once, of the header the pool computes.
THEOREM FindsAreReal == Spec => []FindIsReal
<1>1. IInv => FindIsReal
  <2> SUFFICES ASSUME IInv, pc = "judged", batch_ok, setup_ok \/ setups = 1, result.found
               PROVE  /\ result.nonce - start_nonce \in 0..count - 1
                      /\ hashed[result.nonce - start_nonce] = 1
                      /\ result.of = MessageOf(PoolHeader(work, result.nonce))
    BY DEF FindIsReal
  <2>1. PICK i \in 0..count - 1 :
          result.nonce = start_nonce + i /\ hashed[i] = 1 /\ result.of = Message(result.nonce)
    BY DEF IInv, OutcomeInv, Wrote
  <2>2. start_nonce \in Nat /\ i \in Nat /\ result.nonce \in Nat /\ result.nonce - start_nonce = i
    BY <2>1 DEF IInv, TypeInv
  <2>3. result.of = MessageOf(PoolHeader(work, result.nonce))
    BY <2>1, <2>2, HashesForThePool
  <2> QED
    BY <2>1, <2>2, <2>3
<1> QED
  BY <1>1, Invariance, PTL

\* Every find read back without a failure after a set-up without one is worth
\* the difficulty the pool has asked for.
THEOREM FindsAreWorthIt == Spec => []FindIsWorthIt
<1>1. IInv => FindIsWorthIt
  <2> SUFFICES ASSUME IInv, pc = "judged", batch_ok, setup_ok, result.found
               PROVE  FromLE(result.hash) * (IF work.difficulty > 0 THEN work.difficulty ELSE 2)
                        <= 2 * FromLE(Diff1)
    BY DEF FindIsWorthIt
  <2>1. Meets(result.hash) /\ Number(result.hash)
    BY DEF IInv, TypeInv, OutcomeInv, Wrote
  <2>2. /\ c_target_w = Words(target) /\ Number(target)
        /\ target = make_share_target(work.difficulty)
    BY DEF IInv, TypeInv, UploadInv
  <2>3. FromLE(result.hash) <= FromLE(make_share_target(work.difficulty))
    BY <2>1, <2>2, MeetsIsOrder
  <2>4. work.difficulty \in Int
    BY BackendAssumption DEF IInv, TypeInv
  <2> QED
    BY <2>1, <2>3, <2>4, Worth
<1> QED
  BY <1>1, Invariance, PTL

\* A batch without a find, without a failing call, has hashed each of its
\* nonces once, and none that meets the target: for every geometry, poll
\* interval and interleaving of the threads.
THEOREM EmptyMeansAllScanned == Spec => []EmptyMeansScanned
<1>1. IInv => EmptyMeansScanned
  <2> SUFFICES ASSUME IInv, pc = "judged", batch_ok, setup_ok, ~result.found
               PROVE  /\ \A i \in 0..MaxCount - 1 : hashed[i] = (IF i < count THEN 1 ELSE 0)
                      /\ ~overlooked
    BY DEF EmptyMeansScanned
  <2>1. \A i \in 0..count - 1 : hashed[i] = 1
    BY DEF IInv, OutcomeInv
  <2>2. \A i \in 0..MaxCount - 1 : i >= count => hashed[i] = 0
    BY DEF IInv, ThreadInv
  <2>3. count \in Nat
    BY BackendAssumption DEF IInv, TypeInv
  <2>4. ~overlooked
    BY DEF IInv, OverlookInv
  <2> QED
    BY <2>1, <2>2, <2>3, <2>4
<1> QED
  BY <1>1, Invariance, PTL

-----------------------------------------------------------------------------
(* The network target.                                                     *)

\* The bytes divided off a number that has no more of them make that number.
LEMMA DigitsMakeNumber ==
  ASSUME NEW n \in Nat, NEW x \in Nat, x < Power(Byte, n),
         NEW b \in [1..n -> Nat], \A i \in 1..n : b[i] = (x \div Power(Byte, i - 1)) % Byte
  PROVE  FromLE(b) = x
<1>1. PICK v \in [1..n + 1 -> Nat] : From(v, b, n) /\ FromLE(b) = v[1]
  BY FromExists
<1> DEFINE P == {i \in 1..n + 1 : v[i] = x \div Power(Byte, i - 1)}
<1>2. \A i \in Nat : Power(Byte, i) \in Nat \ {0}
  BY PowerPositive, Bytes
<1>3. n + 1 \in P
  <2>1. n + 1 - 1 = n /\ n + 1 \in 1..n + 1
    OBVIOUS
  <2>2. PICK k \in Nat \ {0} : k = Power(Byte, n)
    BY <1>2
  <2>3. x \div k = 0
    <3> x < k
      BY <2>2
    <3> QED
      BY DivNat
  <2> QED
    BY <1>1, <2>1, <2>2, <2>3 DEF From
<1>4. \A i \in 1..n : i + 1 \in P => i \in P
  <2> SUFFICES ASSUME NEW i \in 1..n, v[i + 1] = x \div Power(Byte, (i + 1) - 1)
               PROVE  v[i] = x \div Power(Byte, i - 1)
    OBVIOUS
  <2>1. PICK k \in Nat : k = i - 1 /\ (i + 1) - 1 = k + 1
    OBVIOUS
  <2>2. PICK p \in Nat \ {0} : p = Power(Byte, k)
    BY <1>2
  <2>3. Power(Byte, k + 1) = Byte * p
    BY <2>2, PowerNext, Bytes
  <2>4. x \div (Byte * p) = (x \div p) \div Byte
    BY <2>2, DivDiv, Bytes
  <2>5. PICK y \in Nat : y = x \div p
    <3> x \div p \in Nat
      BY DivNat
    <3> QED
      BY Zenon
  <2>6. y = Byte * (y \div Byte) + (y % Byte)
    <3> y \in Int
      OBVIOUS
    <3> QED
      BY DivMod, Bytes
  <2>7. v[i] = b[i] + Byte * v[i + 1]
    BY <1>1 DEF From
  <2>8. b[i] = y % Byte /\ v[i + 1] = y \div Byte
    BY <2>1, <2>2, <2>3, <2>4, <2>5
  <2>9. y % Byte \in Int /\ y \div Byte \in Int
    <3> y \in Int
      OBVIOUS
    <3> QED
      BY DivMod, Bytes
  <2>10. PICK z \in Int, r \in Int : z = Byte * (y \div Byte) /\ r = y % Byte
    BY <2>9, Bytes
  <2>11. v[i] = y
    BY <2>6, <2>7, <2>8, <2>10
  <2> QED
    BY <2>1, <2>2, <2>5, <2>11
<1>5. 1 \in P
  <2>1. \A i \in 1..n + 1 : i \in P
    <3> HIDE DEF P
    <3> QED
      BY <1>3, <1>4, DownInduction
  <2> QED
    BY <2>1
<1>6. v[1] = x
  <2>1. 1 - 1 = 0 /\ Power(Byte, 0) = 1 /\ x \div 1 = x
    BY PowerZero, Bytes
  <2> QED
    BY <1>5, <2>1
<1> QED
  BY <1>1, <1>6

\* A digit of m * Byte^e, above the three that are dropped.
LEMMA ShiftedDigit ==
  ASSUME NEW m \in Nat, m < Power(Byte, 3), NEW e \in Nat, NEW i \in Nat \ {0}
  PROVE  (((m * Power(Byte, e)) \div Power(Byte, 3)) \div Power(Byte, i - 1)) % Byte
           = IF i + 2 - e \in 0..2 THEN (m \div Power(Byte, i + 2 - e)) % Byte ELSE 0
<1>1. \A k \in Nat : Power(Byte, k) \in Nat \ {0}
  BY PowerPositive, Bytes
<1>2. PICK k \in Nat : k = i - 1 /\ k + 3 = i + 2
  OBVIOUS
<1>3. PICK u \in Nat, E \in Nat \ {0} : E = Power(Byte, e) /\ u = m * E
  <2> PICK E \in Nat \ {0} : E = Power(Byte, e)
    BY <1>1
  <2> m * E \in Nat
    OBVIOUS
  <2> QED
    OBVIOUS
<1>4. (u \div Power(Byte, 3)) \div Power(Byte, k) = u \div Power(Byte, k + 3)
  <2>1. PICK p \in Nat \ {0}, q \in Nat \ {0} : p = Power(Byte, 3) /\ q = Power(Byte, k)
    BY <1>1
  <2>2. Power(Byte, k + 3) = q * p
    BY <2>1, PowerAdd, Bytes
  <2>3. u \div (q * p) = (u \div p) \div q
    BY DivDiv
  <2> QED
    BY <2>1, <2>2, <2>3
<1>5. CASE e <= k + 3
  <2>1. PICK j \in Nat : j = k + 3 - e /\ k + 3 = j + e /\ i + 2 - e = j
    BY <1>2, <1>5
  <2>2. PICK p \in Nat \ {0} : p = Power(Byte, j)
    BY <1>1
  <2>3. Power(Byte, k + 3) = p * E
    BY <1>3, <2>1, <2>2, PowerAdd, Bytes
  <2>4. u \div (p * E) = (u \div E) \div p
    BY DivDiv
  <2>5. u \div E = m
    BY <1>3, TimesDiv
  <2>6. u \div Power(Byte, k + 3) = m \div p
    BY <2>3, <2>4, <2>5
  <2>7. CASE j \in 0..2
    BY <1>2, <1>3, <1>4, <2>1, <2>2, <2>6, <2>7
  <2>8. CASE j \notin 0..2
    <3>1. Power(Byte, 3) <= p
      BY <2>1, <2>2, <2>8, PowerLeq, Bytes
    <3>2. m < p
      <4> PICK a \in Nat \ {0} : a = Power(Byte, 3)
        BY <1>1
      <4> QED
        BY <3>1
    <3>3. m \div p = 0
      BY <3>2
    <3>4. 0 % Byte = 0
      BY Bytes
    <3> QED
      BY <1>2, <1>3, <1>4, <2>1, <2>6, <2>8, <3>3, <3>4
  <2> QED
    BY <2>7, <2>8
<1>6. CASE ~(e <= k + 3)
  <2>1. PICK j \in Nat : j = e - (k + 3) - 1 /\ e = (k + 3) + (j + 1) /\ ~(i + 2 - e \in 0..2)
    BY <1>2, <1>6
  <2>2. PICK p \in Nat \ {0}, q \in Nat \ {0} : p = Power(Byte, j) /\ q = Power(Byte, k + 3)
    BY <1>1
  <2>3. E = q * (Byte * p)
    <3>1. Power(Byte, j + 1) = Byte * p
      BY <2>2, PowerNext, Bytes
    <3>2. k + 3 \in Nat /\ j + 1 \in Nat
      OBVIOUS
    <3>3. Power(Byte, (k + 3) + (j + 1)) = Power(Byte, k + 3) * Power(Byte, j + 1)
      BY <3>2, PowerAdd, Bytes
    <3> QED
      BY <1>3, <2>1, <2>2, <3>1, <3>3
  <2>4. PICK z \in Nat : z = m * p
    OBVIOUS
  <2>5. u = (z * Byte) * q
    <3>1. u = m * (q * (Byte * p))
      BY <1>3, <2>3
    <3>2. m * (q * (Byte * p)) = ((m * p) * Byte) * q
      BY Bytes
    <3> QED
      BY <2>4, <3>1, <3>2
  <2>6. z * Byte \in Int
    BY Bytes
  <2>7. u \div q = z * Byte
    BY <2>5, <2>6, TimesDiv
  <2>8. (z * Byte) % Byte = 0
    BY TimesDiv, Bytes
  <2> QED
    BY <1>2, <1>3, <1>4, <2>1, <2>2, <2>7, <2>8
<1> QED
  BY <1>5, <1>6

\* The network target is the number it stands for, cut off to whole numbers.
LEMMA NetworkTarget ==
  ASSUME NEW nb \in Nat, nb \div Power(Byte, 3) <= N
  PROVE  LET m == (nb % Power(Byte, 3)) % (Power(Byte, 3) \div 2)
             t == network_target_from_nbits_le(nb)
         IN /\ Number(t) /\ m \in Nat
            /\ FromLE(t) = (m * Power(Byte, nb \div Power(Byte, 3))) \div Power(Byte, 3)
<1> DEFINE c == Power(Byte, 3)
           e == nb \div c
           m == (nb % c) % (c \div 2)
           t == network_target_from_nbits_le(nb)
           x == (m * Power(Byte, e)) \div c
<1>1. \A k \in Nat : Power(Byte, k) \in Nat \ {0}
  BY PowerPositive, Bytes
<1>2. c \in Nat \ {0} /\ c \div 2 \in Nat \ {0} /\ c \div 2 < c
  <2>1. Power(Byte, 1) <= Power(Byte, 3)
    BY PowerLeq, Bytes
  <2>2. Power(Byte, 1) = Byte
    <3> 0 \in Nat /\ 0 + 1 = 1
      OBVIOUS
    <3>1. Power(Byte, 0 + 1) = Byte * Power(Byte, 0) /\ Power(Byte, 0) = 1
      BY PowerNext, PowerZero, Bytes
    <3> QED
      BY <3>1, Bytes
  <2>3. PICK d \in Nat : d = c /\ d >= 4
    BY <1>1, <2>1, <2>2, Bytes
  <2>4. d \div 2 \in Nat \ {0} /\ d \div 2 < d
    BY <2>3
  <2> QED
    BY <2>3, <2>4
<1>3. e \in Nat /\ e <= N
  <2> PICK d \in Nat \ {0} : d = c
    BY <1>2
  <2> nb \div d \in Nat
    OBVIOUS
  <2> QED
    OBVIOUS
<1>4. m \in Nat /\ m < c
  <2>1. PICK d \in Nat \ {0}, h \in Nat \ {0} : d = c /\ h = c \div 2 /\ h < d
    BY <1>2
  <2>2. PICK y \in Nat : y = nb % d
    BY <2>1
  <2>3. y % h \in Nat /\ y % h < h
    BY <2>1, <2>2
  <2> QED
    BY <2>1, <2>2, <2>3
<1>5. t = [i \in 1..N |-> IF i - 1 - (e - 3) \in 0..2
                          THEN (m \div Power(Byte, i - 1 - (e - 3))) % Byte ELSE 0]
  BY DEF network_target_from_nbits_le
<1> HIDE DEF m, t, e
<1>6. x \in Nat /\ x < Power(Byte, N)
  <2>1. PICK C \in Nat \ {0}, E \in Nat \ {0}, F \in Nat \ {0} :
          C = c /\ E = Power(Byte, e) /\ F = Power(Byte, N) /\ E <= F
    BY <1>1, <1>3, PowerLeq, Width, Bytes
  <2>2. PICK u \in Nat : u = m * E
    BY <1>4
  <2>3. u < C * E
    <3> m \in Int /\ C \in Int /\ m < C
      BY <1>4, <2>1
    <3> QED
      BY <2>2, LessTimes
  <2>4. C * E <= F * C
    <3>1. ~(F * C < E * C)
      BY <2>1, LessTimes
    <3>2. F * C \in Int /\ E * C \in Int /\ E * C = C * E
      OBVIOUS
    <3>3. PICK f \in Int, g \in Int : f = F * C /\ g = E * C
      OBVIOUS
    <3> QED
      BY <3>1, <3>2, <3>3
  <2>5. u < F * C
    <3> PICK f \in Int, g \in Int : f = F * C /\ g = C * E
      OBVIOUS
    <3> QED
      BY <2>3, <2>4
  <2>6. ~(F <= u \div C)
    <3> ~(F * C <= u)
      <4> PICK f \in Int : f = F * C
        OBVIOUS
      <4> QED
        BY <2>5
    <3> QED
      BY LeqDiv
  <2>7. u \div C \in Nat
    OBVIOUS
  <2> QED
    BY <2>1, <2>2, <2>6, <2>7
<1>7. ASSUME NEW i \in 1..N PROVE t[i] = (x \div Power(Byte, i - 1)) % Byte
  <2>1. i - 1 - (e - 3) = i + 2 - e
    BY <1>3
  <2>2. (x \div Power(Byte, i - 1)) % Byte
          = IF i + 2 - e \in 0..2 THEN (m \div Power(Byte, i + 2 - e)) % Byte ELSE 0
    <3> i \in Nat \ {0} /\ m \in Nat /\ m < Power(Byte, 3) /\ e \in Nat
      BY <1>3, <1>4
    <3> QED
      BY ShiftedDigit
  <2> QED
    BY <1>5, <2>1, <2>2
<1>8. ASSUME NEW i \in 1..N PROVE (x \div Power(Byte, i - 1)) % Byte \in 0..Byte - 1
  <2> HIDE DEF x
  <2>1. PICK p \in Nat \ {0} : p = Power(Byte, i - 1)
    <3> i - 1 \in Nat
      OBVIOUS
    <3> QED
      BY <1>1
  <2>2. x \div p \in Int
    BY <1>6, DivMod
  <2> QED
    BY <2>1, <2>2, DivMod, Bytes
<1>9. Number(t) /\ t \in [1..N -> Nat]
  <2>1. t \in [1..N -> 0..Byte - 1]
    <3> \A i \in 1..N : t[i] \in 0..Byte - 1
      BY <1>7, <1>8
    <3> QED
      BY <1>5
  <2>2. 0..Byte - 1 \subseteq Nat
    BY Bytes
  <2> QED
    BY <2>1, <2>2 DEF Number
<1>10. FromLE(t) = x
  <2> HIDE DEF x
  <2> QED
    BY <1>6, <1>7, <1>9, DigitsMakeNumber, Width
<1> QED
  BY <1>4, <1>9, <1>10 DEF m, t, e

\* The number a field stands for: its first byte above, its last three below.
LEMMA FieldSplits ==
  ASSUME NEW h \in [1..8 -> 0..Hex - 1]
  PROVE  /\ parse_hex_u32(h) \in Nat
         /\ parse_hex_u32(h) \div Power(Byte, 3) = hex_to_bytes(h)[1]
         /\ parse_hex_u32(h) % Power(Byte, 3) = FromLE(SubSeq(Reverse(hex_to_bytes(h)), 1, 3))
<1> DEFINE b == hex_to_bytes(h)
           r == Reverse(b)
           s == SubSeq(r, 1, 3)
           x == parse_hex_u32(h)
<1>1. b \in [1..4 -> 0..Byte - 1]
  BY FieldNumber
<1>2. PICK y \in [0..4 -> Nat] : Field(y, b) /\ y[4] = x
  BY FieldNumber
<1> HIDE DEF b, x
<1>3. PICK b1 \in 0..Byte - 1, b2 \in 0..Byte - 1, b3 \in 0..Byte - 1, b4 \in 0..Byte - 1 :
        b1 = b[1] /\ b2 = b[2] /\ b3 = b[3] /\ b4 = b[4]
  <2> 1 \in 1..4 /\ 2 \in 1..4 /\ 3 \in 1..4 /\ 4 \in 1..4
    OBVIOUS
  <2>1. b[1] \in 0..Byte - 1 /\ b[2] \in 0..Byte - 1 /\ b[3] \in 0..Byte - 1 /\ b[4] \in 0..Byte - 1
    BY <1>1
  <2> QED
    BY <2>1, Zenon
<1>4. x = Byte * (Byte * (Byte * b1 + b2) + b3) + b4
  <2>1. \A j \in 1..4 : y[j] = Byte * y[j - 1] + b[j]
    BY <1>2 DEF Field
  <2>2. 1 \in 1..4 /\ 2 \in 1..4 /\ 3 \in 1..4 /\ 4 \in 1..4 /\ 1 - 1 = 0 /\ 2 - 1 = 1 /\ 3 - 1 = 2 /\ 4 - 1 = 3
    OBVIOUS
  <2>3. y[1] = Byte * 0 + b1 /\ y[2] = Byte * y[1] + b2 /\ y[3] = Byte * y[2] + b3 /\ y[4] = Byte * y[3] + b4
    BY <1>2, <1>3, <2>1, <2>2 DEF Field
  <2>4. Byte * 0 + b1 = b1
    BY Bytes
  <2> QED
    BY <1>2, <2>3, <2>4
<1>5. PICK c \in Nat \ {0}, p \in Nat \ {0} :
        c = Power(Byte, 3) /\ p = Byte * Byte /\ c = Byte * p
  <2>1. PICK p \in Nat \ {0} : p = Byte * Byte
    <3> \A a \in Nat \ {0} : a * a \in Nat \ {0}
      OBVIOUS
    <3> QED
      BY Bytes
  <2>2. Byte * p \in Nat \ {0}
    <3> \A a, d \in Nat \ {0} : a * d \in Nat \ {0}
      OBVIOUS
    <3> QED
      BY Bytes
  <2>3. 0 \in Nat /\ 1 \in Nat /\ 2 \in Nat /\ 0 + 1 = 1 /\ 1 + 1 = 2 /\ 2 + 1 = 3 /\ Byte \in Int
    BY Bytes
  <2>4. Power(Byte, 0 + 1) = Byte * Power(Byte, 0) /\ Power(Byte, 0) = 1
    BY <2>3, PowerNext, PowerZero
  <2>5. Power(Byte, 1 + 1) = Byte * Power(Byte, 1)
    BY <2>3, PowerNext
  <2>6. Power(Byte, 2 + 1) = Byte * Power(Byte, 2)
    BY <2>3, PowerNext
  <2>7. Power(Byte, 1) = Byte
    BY <2>3, <2>4
  <2>8. Power(Byte, 3) = Byte * p
    BY <2>1, <2>3, <2>5, <2>6, <2>7
  <2> QED
    BY <2>1, <2>2, <2>8
<1>6. PICK z \in 0..c - 1 : z = b4 + Byte * (b3 + Byte * b2)
  <2>1. PICK q2 \in Nat : q2 = Byte * b2 /\ q2 <= p - Byte
    <3>1. Byte * (Byte - 1 - b2) \in Nat /\ Byte * (Byte - 1 - b2) = Byte * Byte - Byte - Byte * b2
      <4> Byte - 1 - b2 \in Nat
        BY Bytes
      <4> QED
        BY Bytes
    <3>2. PICK a \in Nat, d \in Nat, g \in Nat : a = Byte * (Byte - 1 - b2) /\ d = Byte * b2 /\ g = Byte * Byte
      BY <3>1, Bytes
    <3> QED
      BY <1>5, <3>1, <3>2, Bytes
  <2>2. PICK q3 \in 0..p - 1 : q3 = b3 + q2
    BY <2>1, Bytes
  <2>3. Byte * (p - 1 - q3) \in Nat /\ Byte * (p - 1 - q3) = Byte * p - Byte - Byte * q3
    <3> p - 1 - q3 \in Nat
      OBVIOUS
    <3> QED
      BY Bytes
  <2>4. PICK a \in Nat, d \in Nat : a = Byte * (p - 1 - q3) /\ d = Byte * q3
    BY <2>3, Bytes
  <2>5. b4 + d \in 0..c - 1
    BY <1>5, <2>3, <2>4, Bytes
  <2> QED
    BY <2>1, <2>2, <2>4, <2>5
<1>7. x = c * b1 + z
  <2>1. Byte * (Byte * (Byte * b1 + b2) + b3) + b4 = (Byte * (Byte * Byte)) * b1 + (b4 + Byte * (b3 + Byte * b2))
    BY Bytes
  <2> QED
    BY <1>4, <1>5, <1>6, <2>1
<1>8. x \in Nat
  BY <1>2
<1>9. x \div c = b1 /\ x % c = z
  <2>1. x % c \in 0..c - 1 /\ x \div c \in Int /\ x = c * (x \div c) + (x % c)
    <3> x \in Int
      BY <1>8
    <3> QED
      BY DivMod
  <2>2. PICK q \in Int, t \in 0..c - 1 : q = x \div c /\ t = x % c /\ x = c * q + t
    BY <2>1, Zenon
  <2>3. b1 \in Int /\ c * q + t = c * b1 + z
    BY <1>7, <2>2
  <2>4. q = b1 /\ t = z
    BY <2>3, Remainder
  <2> QED
    BY <2>2, <2>4
<1>10. FromLE(s) = z
  <2>1. r \in [1..4 -> 0..Byte - 1] /\ r[1] = b4 /\ r[2] = b3 /\ r[3] = b2
    <3>1. 4 \in Nat
      OBVIOUS
    <3>2. r \in [1..4 -> 0..Byte - 1] /\ Reversed(r, b, 4)
      BY <1>1, <3>1, ReverseAt
    <3>3. 1 \in 1..4 /\ 2 \in 1..4 /\ 3 \in 1..4 /\ 4 - 1 + 1 = 4 /\ 4 - 2 + 1 = 3 /\ 4 - 3 + 1 = 2
      OBVIOUS
    <3> QED
      BY <1>3, <3>2, <3>3 DEF Reversed
  <2> HIDE DEF r
  <2>2. s \in [1..3 -> 0..Byte - 1] /\ s[1] = b4 /\ s[2] = b3 /\ s[3] = b2
    <3>1. PICK n \in Nat : n = 4
      OBVIOUS
    <3>2. r \in Seq(0..Byte - 1) /\ Len(r) = 4
      BY <2>1, <3>1, IsSeq
    <3>3. 0 \in Nat /\ 3 \in Nat /\ 0 + 3 <= Len(r) /\ 0 + 1 = 1 /\ 0 + 3 = 3
      BY <3>2
    <3>4. SubSeq(r, 0 + 1, 0 + 3) \in [1..3 -> 0..Byte - 1]
          /\ Holds(r, 0, SubSeq(r, 0 + 1, 0 + 3), 3)
      BY <3>2, <3>3, SubSeqHolds
    <3>5. 1 \in 1..3 /\ 2 \in 1..3 /\ 3 \in 1..3 /\ 0 + 2 = 2
      OBVIOUS
    <3> QED
      BY <2>1, <3>3, <3>4, <3>5 DEF Holds
  <2> HIDE DEF s
  <2>3. s \in [1..3 -> Nat]
    BY <2>2, Bytes
  <2>4. PICK v \in [1..3 + 1 -> Nat] : From(v, s, 3) /\ FromLE(s) = v[1]
    <3> 3 \in Nat
      OBVIOUS
    <3> QED
      BY <2>3, FromExists
  <2>5. v[4] = 0 /\ v[3] = b2 + Byte * v[4] /\ v[2] = b3 + Byte * v[3] /\ v[1] = b4 + Byte * v[2]
    <3> 1 \in 1..3 /\ 2 \in 1..3 /\ 3 \in 1..3 /\ 3 + 1 = 4 /\ 2 + 1 = 3 /\ 1 + 1 = 2
      OBVIOUS
    <3> QED
      BY <2>2, <2>4 DEF From
  <2>6. b2 + Byte * 0 = b2
    BY Bytes
  <2> QED
    BY <1>6, <2>4, <2>5, <2>6
<1> QED
  BY <1>3, <1>5, <1>8, <1>9, <1>10 DEF b, x

\* The comparison of bytes is that of the numbers.
LEMMA LeqTarget ==
  ASSUME NEW h, Number(h), NEW t, Number(t)
  PROVE  hash_leq_target_le(h, t) <=> FromLE(h) <= FromLE(t)
  BY LeqIsOrder, Width DEF hash_leq_target_le, Number

\* The same with the target as text, most significant byte first.
LEMMA MeetsTarget ==
  ASSUME NEW h, Number(h), NEW t, Number(t)
  PROVE  hash_meets_target_le(h, HexOf(Reverse(t))) <=> FromLE(h) <= FromLE(t)
<1> DEFINE S == 0..Byte - 1
           r == Reverse(t)
           x == HexOf(r)
           b == hex_to_bytes(x)
<1>1. h \in [1..N -> S] /\ t \in [1..N -> S]
  BY DEF Number
<1>2. r \in [1..N -> S] /\ Reversed(r, t, N)
  <2> HIDE DEF S
  <2> QED
    BY <1>1, ReverseAt, Width
<1>3. x \in [1..2 * N -> 0..Hex - 1] /\ b = r
  <2> HIDE DEF r
  <2> QED
    BY <1>2, TextOfBytes, Width
<1>4. Len(x) = 2 * N
  <2>1. x \in [1..2 * N -> 0..Hex - 1] /\ 2 * N \in Nat
    BY <1>3, Width
  <2> HIDE DEF x
  <2> QED
    BY <2>1, IsSeq
<1>5. \A i \in 1..N : b[i] = t[N + 1 - i]
  BY <1>2, <1>3, Width DEF Reversed
<1> HIDE DEF S, r, x, b
<1>6. hash_meets_target_le(h, x) <=>
        \/ \A i \in 1..N : h[N + 1 - i] = b[i]
        \/ \E i \in 1..N : /\ h[N + 1 - i] < b[i]
                           /\ \A j \in 1..i - 1 : h[N + 1 - j] = b[j]
  BY <1>4 DEF hash_meets_target_le, b
<1>7. (\A i \in 1..N : h[N + 1 - i] = b[i]) <=> h = t
  <2>1. ASSUME \A i \in 1..N : h[N + 1 - i] = b[i], NEW k \in 1..N PROVE h[k] = t[k]
    <3>1. PICK i \in 1..N : i = N + 1 - k /\ N + 1 - i = k
      BY Width
    <3> QED
      BY <1>5, <2>1, <3>1
  <2>2. (\A i \in 1..N : h[N + 1 - i] = b[i]) => h = t
    BY <1>1, <2>1, SameSeq, Width
  <2>3. h = t => \A i \in 1..N : h[N + 1 - i] = b[i]
    BY <1>5
  <2> QED
    BY <2>2, <2>3
<1>8. ASSUME NEW i \in 1..N, NEW k \in 1..N, k = N + 1 - i
      PROVE  (h[N + 1 - i] < b[i] /\ \A j \in 1..i - 1 : h[N + 1 - j] = b[j])
               <=> (h[k] < t[k] /\ \A j \in k + 1..N : h[j] = t[j])
  <2>1. h[N + 1 - i] = h[k] /\ b[i] = t[k]
    BY <1>5, <1>8
  <2>2. ASSUME \A j \in 1..i - 1 : h[N + 1 - j] = b[j], NEW j \in k + 1..N PROVE h[j] = t[j]
    <3>1. PICK l \in 1..i - 1 : l = N + 1 - j /\ N + 1 - l = j /\ l \in 1..N
      BY <1>8, <2>2, Width
    <3> QED
      BY <1>5, <2>2, <3>1
  <2>3. ASSUME \A j \in k + 1..N : h[j] = t[j], NEW j \in 1..i - 1 PROVE h[N + 1 - j] = b[j]
    <3>1. PICK l \in k + 1..N : l = N + 1 - j /\ j \in 1..N
      BY <1>8, <2>3, Width
    <3> QED
      BY <1>5, <2>3, <3>1
  <2> QED
    BY <2>1, <2>2, <2>3
<1>9. (\E i \in 1..N : /\ h[N + 1 - i] < b[i]
                       /\ \A j \in 1..i - 1 : h[N + 1 - j] = b[j])
        <=> \E k \in 1..N : h[k] < t[k] /\ \A j \in k + 1..N : h[j] = t[j]
  <2>1. \A i \in 1..N : N + 1 - i \in 1..N /\ N + 1 - (N + 1 - i) = i
    BY Width
  <2> QED
    BY <1>8, <2>1
<1>10. hash_meets_target_le(h, x) <=> hash_leq_target_le(h, t)
  BY <1>6, <1>7, <1>9 DEF hash_leq_target_le
<1> QED
  BY <1>10, LeqTarget DEF x, r

-----------------------------------------------------------------------------
(* Blocks.                                                                 *)

\* What the mining thread makes of a find.
BlockInv ==
  pc = "judged" =>
    (block <=> /\ result.found
               /\ hash_leq_target_le(result.hash, network_target_from_nbits_le(
                                                    parse_hex_u32(Job[work].nbits))))

\* Only Judge decides whether a find is a block.
LEMMA BlockStep == BlockInv /\ [Next]_vars => BlockInv'
<1> SUFFICES ASSUME BlockInv, [Next]_vars, pc' = "judged" PROVE BlockInv'
  BY DEF BlockInv
<1>1. CASE Judge
  <2>1. UNCHANGED <<result, work>>
    BY <1>1 DEF Judge
  <2> QED
    BY <1>1, <2>1 DEF BlockInv, Judge
<1>2. CASE Returned \/ UNCHANGED vars
  BY <1>2 DEF BlockInv, Returned, vars, answer
<1>3. ASSUME NEW gone, Host(gone) PROVE FALSE
  BY <1>3 DEF Host, SetupJob, Verify, ReadBack, Launch
<1>4. CASE Grid \/ Abort \/ KernelDone \/ EndOfScope
  BY <1>4 DEF Grid, Abort, KernelDone, EndOfScope
<1>5. ASSUME NEW t \in Threads, Thread(t) PROVE FALSE
  BY <1>5 DEF Thread, Break, LoopEnds, Win, StoreNonce, StoreHash, Hash, InLoop, hostside
<1> QED
  BY <1>1, <1>2, <1>3, <1>4, <1>5 DEF Next

\* A find is called a block exactly if it does not exceed the network target,
\* for every block template whose target fits in a hash: bytes of the mantissa
\* above it are dropped.  The text form of the comparison judges as the device.
THEOREM BlocksAreBlocks ==
  ASSUME \A w \in Works : hex_to_bytes(w.pool.nbits)[1] <= N
  PROVE  Spec => []BlockIsBlock
<1>1. Init => BlockInv
  BY DEF Init, BlockInv
<1>2. Spec => []BlockInv
  BY <1>1, BlockStep, PTL DEF Spec
<1>3. IInv /\ BlockInv => BlockIsBlock
  <2> SUFFICES ASSUME IInv, BlockInv, pc = "judged", result.found PROVE BlockIsBlock
    BY DEF BlockIsBlock
  <2> DEFINE h == work.pool.nbits
             c == Power(Byte, 3)
             nb == parse_hex_u32(h)
             t == network_target_from_nbits_le(nb)
             m == FromLE(SubSeq(Reverse(hex_to_bytes(h)), 1, 3)) % (c \div 2)
             e == hex_to_bytes(h)[1]
  <2>1. work \in Works /\ Number(result.hash) /\ Number(target)
    BY DEF IInv, TypeInv
  <2>2. h \in [1..8 -> 0..Hex - 1] /\ e <= N
    BY <2>1, BackendAssumption
  <2>3. /\ nb \in Nat /\ nb \div c = e
        /\ nb % c = FromLE(SubSeq(Reverse(hex_to_bytes(h)), 1, 3))
    BY <2>2, FieldSplits
  <2>4. /\ Number(t) /\ m \in Nat /\ FromLE(t) = (m * Power(Byte, e)) \div c
    <3> nb \div Power(Byte, 3) <= N
      BY <2>2, <2>3
    <3>1. /\ Number(t) /\ (nb % c) % (c \div 2) \in Nat
          /\ FromLE(t) = (((nb % c) % (c \div 2)) * Power(Byte, nb \div c)) \div c
      BY <2>3, NetworkTarget
    <3> QED
      BY <2>3, <3>1
  <2>5. e \in Nat
    <3>1. hex_to_bytes(h) \in [1..4 -> 0..Byte - 1]
      BY <2>2, FieldNumber
    <3> QED
      BY <3>1, Bytes
  <2>6. block <=> hash_leq_target_le(result.hash, t)
    <3>1. Job[work].nbits = h
      BY <2>1, JobIs
    <3> QED
      BY <3>1 DEF BlockInv
  <2> HIDE DEF t, m, e, h, nb
  <2>7. block <=> FromLE(result.hash) * c <= m * Power(Byte, e)
    <3>1. FromLE(result.hash) \in Int
      <4> PICK v \in [1..N -> 0..Byte - 1] : v = result.hash
        BY <2>1 DEF Number
      <4>1. FromLE(v) \in Nat
        BY LeqIsOrder, Width
      <4> QED
        BY <4>1
    <3>2. Power(Byte, e) \in Nat /\ c \in Nat \ {0}
      BY <2>5, PowerPositive, Bytes
    <3>3. PICK u \in Int : u = m * Power(Byte, e)
      BY <2>4, <3>2
    <3>4. FromLE(result.hash) <= u \div c <=> FromLE(result.hash) * c <= u
      BY <3>1, <3>2, LeqDiv
    <3> QED
      BY <2>1, <2>4, <2>6, <3>3, <3>4, LeqTarget
  <2>8. hash_meets_target_le(result.hash, HexOf(Reverse(target)))
          <=> FromLE(result.hash) <= FromLE(target)
    BY <2>1, MeetsTarget
  <2> QED
    BY <2>7, <2>8 DEF BlockIsBlock, m, e, h
<1> QED
  BY <1>2, <1>3, Invariance, PTL

-----------------------------------------------------------------------------
(* The abstract search.                                                    *)

\* The number of the batch's nonces, their first, what was hashed of them.
LEMMA SameBatch ==
  ASSUME UNCHANGED <<start_nonce, count, hashed>>
  PROVE  Asked' = Asked /\ Tried' = Tried
  BY DEF Asked, Tried

\* The finds there are, when neither a thread nor the result block moves.
LEMMA SameFinds ==
  ASSUME UNCHANGED <<start_nonce, tpc, idx, found, found_nonce>>
  PROVE  Held' = Held /\ Stored' = Stored
  BY DEF Held, Stored

\* Without threads in the kernel the find is the one in the result block.
LEMMA QuietFinds ==
  ASSUME \A t \in AllThreads : tpc[t] \notin {"cas", "nonce", "hash"}
  PROVE  Held = {} /\ Stored = IF found THEN {found_nonce} ELSE {}
  BY DEF Held, Stored

\* A step that touches nothing of the search.
LEMMA Unseen ==
  ASSUME Searching' = Searching, Answered' = Answered,
         Searching \/ Answered => /\ Asked' = Asked /\ Tried' = Tried
                                  /\ (Held \cup Stored)' = Held \cup Stored,
         Answered => result' = result
  PROVE  UNCHANGED Search!search
  BY DEF Search!search

\* A step after which a failed call, or the engine, has ended the batch.
LEMMA Left ==
  ASSUME ~Searching', ~Answered'
  PROVE  Search!Next \/ UNCHANGED Search!search
<1>1. CASE Searching \/ Answered
  <2>1. Search!Leave
    BY <1>1 DEF Search!Leave, Search!NothingYet, Searching, Answered
  <2> QED
    BY <2>1 DEF Search!Next
<1>2. CASE ~Searching /\ ~Answered
  BY <1>2 DEF Search!search
<1> QED
  BY <1>1, <1>2

\* The nonces of a batch are within the bound.
LEMMA Within == ASSUME NEW M \in Nat, NEW n \in 1..M
                PROVE  \A i \in 0..n - 1 : i \in 0..M - 1
  OBVIOUS

\* A launch without a failure starts a search.
LEMMA LaunchCalls ==
  ASSUME IInv, NEW b \in Batches, NEW failed, NEW gone, Launch(b, failed, gone)
  PROVE  Search!Next \/ UNCHANGED Search!search
<1>1. CASE failed # {}
  <2>1. ~batch_ok'
    BY <1>1 DEF Launch
  <2> QED
    BY <2>1, Left DEF Searching, Answered
<1>2. CASE failed = {}
  <2>1. /\ pc = "idle" /\ pc' = "grid" /\ batch_ok' /\ ~found' /\ count' \in 1..MaxCount
        /\ UNCHANGED <<tpc, hashed>>
    <3>1. pc = "idle" /\ batch_ok' = (failed = {}) /\ found' = (1 \in failed /\ found)
          /\ pc' = (IF 2 \in failed THEN "read" ELSE "grid") /\ count' = b.count
      BY DEF Launch
    <3>2. b.count \in 1..MaxCount
      BY BackendAssumption
    <3>3. UNCHANGED <<tpc, hashed>>
      BY DEF Launch, kernel
    <3> QED
      BY <1>2, <3>1, <3>2, <3>3
  <2>2. ~Searching /\ ~Answered /\ Searching' /\ ~Answered'
    BY <2>1 DEF Searching, Answered
  <2>3. \A i \in 0..count' - 1 : hashed'[i] = 0
    <3>1. \A i \in 0..MaxCount - 1 : hashed[i] = 0
      BY <2>1 DEF IInv, QuietInv
    <3>2. MaxCount \in Nat
      BY BackendAssumption
    <3>3. \A i \in 0..count' - 1 : i \in 0..MaxCount - 1
      BY <2>1, <3>2, Within
    <3> QED
      BY <2>1, <3>1, <3>3
  <2>4. Tried' = {}
    BY <2>3 DEF Tried
  <2>5. \A t \in AllThreads : tpc'[t] = "exit"
    BY <2>1 DEF IInv, QuietInv
  <2>6. Held' = {} /\ Stored' = {}
    BY <2>1, <2>5 DEF Held, Stored
  <2>7. Search!Call
    BY <2>2, <2>4, <2>6 DEF Search!Call, Search!NothingYet
  <2> QED
    BY <2>7 DEF Search!Next
<1> QED
  BY <1>1, <1>2

\* What is read back, without a failure, is the answer.
LEMMA ReadBackAnswers ==
  ASSUME IInv, NEW failed, NEW gone, ReadBack(failed, gone)
  PROVE  Search!Next \/ UNCHANGED Search!search
<1>1. /\ pc = "read" /\ pc' = "judge" /\ batch_ok' = (batch_ok /\ failed = {})
      /\ UNCHANGED <<count, start_nonce, tpc, idx, found, found_nonce, hashed>>
  BY DEF ReadBack, batch, block_, kernel
<1>2. CASE ~(batch_ok /\ failed = {})
  <2>1. ~batch_ok'
    BY <1>1, <1>2
  <2> QED
    BY <2>1, Left DEF Searching, Answered
<1>3. CASE batch_ok /\ failed = {}
  <2>1. Searching /\ ~Answered /\ ~Searching' /\ Answered'
    BY <1>1, <1>3 DEF Searching, Answered
  <2>2. Asked' = Asked /\ Tried' = Tried /\ Held' = Held /\ Stored' = Stored
    BY <1>1, SameBatch, SameFinds
  <2>3. \A t \in AllThreads : tpc[t] = "exit"
    BY <1>1 DEF IInv, QuietInv
  <2>4. Held = {} /\ Stored = IF found THEN {found_nonce} ELSE {}
    BY <2>3, QuietFinds
  <2>5. result'.found = found /\ (found => result'.nonce = found_nonce)
    BY <1>3 DEF ReadBack, IInv, TypeInv
  <2>6. CASE found
    <3>1. Search!AnswerFind
      BY <2>1, <2>2, <2>4, <2>5, <2>6 DEF Search!AnswerFind
    <3> QED
      BY <3>1 DEF Search!Next
  <2>7. CASE ~found
    <3>1. \A i \in 0..count - 1 : hashed[i] = 1
      BY <1>1, <1>3, <2>7 DEF IInv, OutcomeInv
    <3>2. Tried = Asked
      BY <3>1 DEF Tried, Asked
    <3>3. Search!AnswerNone
      BY <2>1, <2>2, <2>4, <2>5, <2>7, <3>2 DEF Search!AnswerNone
    <3> QED
      BY <3>3 DEF Search!Next
  <2> QED
    BY <2>6, <2>7
<1> QED
  BY <1>2, <1>3

\* The threads that have a find.
Holding(t) == tpc[t] \in {"cas", "nonce", "hash"}

LEMMA FindsAre ==
  /\ Held = {start_nonce + idx[t] : t \in {u \in AllThreads : Holding(u)}}
  /\ Stored = IF found /\ \A u \in AllThreads : ~Storing(u) THEN {found_nonce} ELSE {}
<1>1. Held = {start_nonce + idx[t] : t \in {u \in AllThreads : Holding(u)}}
  BY DEF Held, Holding
<1>2. (\A u \in AllThreads : ~Storing(u)) <=> \A u \in AllThreads : tpc[u] \notin {"nonce", "hash"}
  BY DEF Storing
<1> QED
  BY <1>1, <1>2 DEF Stored

\* What a step of a thread leaves alone.
LEMMA ThreadKeeps ==
  ASSUME IInv, NEW t \in Threads, Thread(t)
  PROVE  /\ pc = "kernel" /\ UNCHANGED <<pc, batch_ok, start_nonce, count>>
         /\ t \in AllThreads /\ tpc \in [AllThreads -> {"loop", "cas", "nonce", "hash", "exit"}]
         /\ \A u \in AllThreads : u # t => tpc'[u] = tpc[u] /\ idx'[u] = idx[u]
         /\ \A u \in AllThreads : Storing(u) => u \in Threads
<1>1. pc = "kernel" /\ UNCHANGED <<pc, batch_ok, start_nonce, count>>
  BY DEF Thread, Break, LoopEnds, Win, StoreNonce, StoreHash, Hash, InLoop, hostside, batch
<1>2. /\ t \in AllThreads /\ tpc \in [AllThreads -> {"loop", "cas", "nonce", "hash", "exit"}]
      /\ idx \in [AllThreads -> Nat]
  BY <1>1, InKernel
<1>3. \A u \in AllThreads : u # t => tpc'[u] = tpc[u] /\ idx'[u] = idx[u]
  BY <1>2 DEF Thread, Break, LoopEnds, Win, StoreNonce, StoreHash, Hash, Leave
<1>4. \A u \in AllThreads : Storing(u) => u \in Threads
  BY DEF IInv, QuietInv, Storing
<1> QED
  BY <1>1, <1>2, <1>3, <1>4

\* A step that changes no find, and hashes nothing.
LEMMA Unmoved ==
  ASSUME pc = "kernel", UNCHANGED <<pc, batch_ok, start_nonce, count, hashed>>,
         (Held \cup Stored)' = Held \cup Stored
  PROVE  UNCHANGED Search!search
<1>1. Searching' = Searching /\ Answered' = Answered /\ ~Answered
  BY DEF Searching, Answered
<1>2. Asked' = Asked /\ Tried' = Tried
  BY SameBatch
<1> QED
  BY <1>1, <1>2, Unseen

\* A thread that leaves its loop has nothing.
LEMMA LeavingLoop ==
  ASSUME IInv, NEW t \in Threads, Break(t) \/ LoopEnds(t)
  PROVE  UNCHANGED Search!search
<1>0. Thread(t)
  BY DEF Thread
<1>1. /\ tpc[t] = "loop" /\ tpc'[t] = "exit"
      /\ UNCHANGED <<idx, hashed, found, found_nonce>>
  BY <1>0, ThreadKeeps DEF Break, LoopEnds, InLoop, Leave, block_
<1>2. \A u \in AllThreads : Holding(u)' = Holding(u) /\ Storing(u)' = Storing(u)
  BY <1>0, <1>1, ThreadKeeps DEF Holding, Storing
<1>3. start_nonce' = start_nonce
  BY <1>0, ThreadKeeps
<1>4. Held' = Held /\ Stored' = Stored
  <2>1. {u \in AllThreads : Holding(u)}' = {u \in AllThreads : Holding(u)}
    BY <1>2
  <2>2. Held' = {start_nonce + idx[x] : x \in {u \in AllThreads : Holding(u)}}
    BY <1>1, <1>3, <2>1 DEF Held, Holding
  <2>3. Stored' = IF found /\ \A u \in AllThreads : ~Storing(u) THEN {found_nonce} ELSE {}
    BY <1>1, <1>2 DEF Stored, Storing
  <2> QED
    BY <2>2, <2>3, FindsAre
<1> QED
  BY <1>0, <1>1, <1>4, ThreadKeeps, Unmoved

\* A hash that is computed is one nonce tried.
LEMMA HashTries ==
  ASSUME IInv, NEW t \in Threads, NEW v \in HashValues, Hash(t, v), batch_ok
  PROVE  Search!Next
<1> DEFINE At == start_nonce + idx[t]
<1>0. Thread(t)
  BY DEF Thread
<1>1. /\ pc = "kernel" /\ tpc[t] = "loop" /\ t \in AllThreads
      /\ count \in Nat /\ count <= MaxCount /\ idx[t] \in 0..count - 1
      /\ hashed[idx[t]] = 0 /\ hashed' = [hashed EXCEPT ![idx[t]] = 1]
  BY HashEffect
<1>2. start_nonce \in Nat /\ MaxCount \in Nat /\ hashed \in [0..MaxCount - 1 -> {0, 1}]
      /\ UNCHANGED <<start_nonce, count>>
  BY <1>0, BackendAssumption, ThreadKeeps DEF IInv, TypeInv
<1>3. At \in Asked \ Tried
  BY <1>1, <1>2 DEF Asked, Tried
<1>4. Tried' = Tried \cup {At}
  <2>1. \A j \in 0..count - 1 : hashed'[j] = IF j = idx[t] THEN 1 ELSE hashed[j]
    BY <1>1, <1>2
  <2>2. {j \in 0..count - 1 : hashed'[j] # 0} = {j \in 0..count - 1 : hashed[j] # 0} \cup {idx[t]}
    BY <1>1, <2>1
  <2> QED
    BY <1>2, <2>2 DEF Tried
<1>5. Asked' = Asked /\ Searching /\ Searching' /\ ~Answered /\ ~Answered'
  BY <1>0, <1>1, ThreadKeeps DEF Asked, Searching, Answered
<1>6. UNCHANGED <<found, found_nonce>>
  BY DEF Hash, block_
<1>7. tpc'[t] \in {"loop", "cas"} /\ (tpc'[t] = "cas" => idx'[t] = idx[t])
  BY <1>0, <1>1, ThreadKeeps DEF Hash
<1>8. Stored' = Stored
  <2>1. \A u \in AllThreads \ {t} : Storing(u)' = Storing(u)
    BY <1>0, ThreadKeeps DEF Storing
  <2>2. ~Storing(t) /\ ~Storing(t)'
    BY <1>1, <1>7 DEF Storing
  <2>3. Stored' = IF found /\ \A u \in AllThreads : ~Storing(u)' THEN {found_nonce} ELSE {}
    BY <1>6 DEF Stored, Storing
  <2> QED
    BY <2>1, <2>2, <2>3, FindsAre
<1>9. Held' = Held \/ Held' = Held \cup {At}
  <2>1. \A u \in AllThreads \ {t} : Holding(u)' = Holding(u) /\ idx'[u] = idx[u]
    BY <1>0, ThreadKeeps DEF Holding
  <2>2. ~Holding(t) /\ (Holding(t)' => tpc'[t] = "cas")
    BY <1>1, <1>7 DEF Holding
  <2>3. Held' = {start_nonce + idx'[x] : x \in {u \in AllThreads : Holding(u)'}}
    BY <1>2 DEF Held, Holding
  <2>4. CASE Holding(t)'
    BY <1>1, <1>7, <2>1, <2>2, <2>3, <2>4, FindsAre
  <2>5. CASE ~Holding(t)'
    BY <2>1, <2>2, <2>3, <2>5, FindsAre
  <2> QED
    BY <2>4, <2>5
<1>10. (Held \cup Stored)' \in {Held \cup Stored, (Held \cup Stored) \cup {At}}
  BY <1>8, <1>9
<1> HIDE DEF At
<1>11. Search!Try
  BY <1>3, <1>4, <1>5, <1>10 DEF Search!Try
<1> QED
  BY <1>11 DEF Search!Next

\* Of the threads with a find one stores its own, the others let theirs go.
LEMMA WinLetsGo ==
  ASSUME IInv, NEW t \in Threads, Win(t), batch_ok
  PROVE  Search!Next \/ UNCHANGED Search!search
<1>0. Thread(t)
  BY DEF Thread
<1>1. /\ tpc[t] = "cas" /\ found' /\ tpc'[t] = (IF found THEN "exit" ELSE "nonce")
      /\ UNCHANGED <<found_nonce, idx, hashed, start_nonce>> /\ t \in AllThreads
  BY <1>0, ThreadKeeps DEF Win
<1>2. Held' = {start_nonce + idx[x] : x \in {u \in AllThreads : Holding(u)'}}
  BY <1>1 DEF Held, Holding
<1>3. Stored' = IF found' /\ \A u \in AllThreads : ~Storing(u)' THEN {found_nonce} ELSE {}
  BY <1>1 DEF Stored, Storing
<1>4. \A u \in AllThreads \ {t} : Holding(u)' = Holding(u) /\ Storing(u)' = Storing(u)
  BY <1>0, ThreadKeeps DEF Holding, Storing
<1>5. Holding(t) /\ ~Storing(t)
  BY <1>1 DEF Holding, Storing
<1>6. CASE found
  <2>1. ~Holding(t)' /\ ~Storing(t)'
    BY <1>1, <1>6 DEF Holding, Storing
  <2>2. Held' \subseteq Held
    BY <1>2, <1>4, <2>1, FindsAre
  <2>3. Stored' = Stored
    BY <1>1, <1>3, <1>4, <1>5, <1>6, <2>1, FindsAre
  <2>4. Held' # {} \/ Stored' # {}
    <3>1. ASSUME NEW u \in AllThreads, Storing(u)' PROVE Held' # {}
      <4>1. Holding(u)'
        BY <3>1 DEF Storing, Holding
      <4> QED
        BY <1>2, <4>1
    <3> QED
      BY <1>1, <1>3, <3>1
  <2>5. (Held \cup Stored)' # {} /\ (Held \cup Stored)' \subseteq Held \cup Stored
    BY <2>2, <2>3, <2>4
  <2>6. Asked' = Asked /\ Tried' = Tried /\ Searching /\ Searching' /\ ~Answered /\ ~Answered'
    BY <1>0, <1>1, SameBatch, ThreadKeeps DEF Searching, Answered
  <2>7. Search!LetGo
    BY <2>5, <2>6 DEF Search!LetGo
  <2> QED
    BY <2>7 DEF Search!Next
<1>7. CASE ~found
  <2>1. Holding(t)' /\ Storing(t)'
    BY <1>1, <1>7 DEF Holding, Storing
  <2>2. Stored = {} /\ Stored' = {}
    BY <1>1, <1>3, <1>7, <2>1, FindsAre
  <2>3. Held' = Held
    BY <1>2, <1>4, <1>5, <2>1, FindsAre
  <2> QED
    BY <1>0, <1>1, <2>2, <2>3, ThreadKeeps, Unmoved
<1> QED
  BY <1>6, <1>7

\* While it stores its find, and when it has, the find is the same.
LEMMA StoringKeeps ==
  ASSUME IInv, NEW t \in Threads, StoreNonce(t) \/ StoreHash(t)
  PROVE  UNCHANGED Search!search
<1>0. Thread(t)
  BY DEF Thread
<1>1. UNCHANGED <<found, idx, hashed, start_nonce>> /\ t \in AllThreads /\ Storing(t)
  BY <1>0, ThreadKeeps DEF StoreNonce, StoreHash, Storing
<1>2. Held' = {start_nonce + idx[x] : x \in {u \in AllThreads : Holding(u)'}}
  BY <1>1 DEF Held, Holding
<1>3. Stored' = IF found /\ \A u \in AllThreads : ~Storing(u)' THEN {found_nonce'} ELSE {}
  BY <1>1 DEF Stored, Storing
<1>4. \A u \in AllThreads \ {t} : Holding(u)' = Holding(u) /\ Storing(u)' = Storing(u)
  BY <1>0, ThreadKeeps DEF Holding, Storing
<1>5. Holding(t) /\ Stored = {}
  BY <1>1, FindsAre DEF Holding, Storing
<1>6. CASE StoreNonce(t)
  <2>1. Holding(t)' /\ Storing(t)'
    BY <1>0, <1>6, ThreadKeeps DEF StoreNonce, Holding, Storing
  <2>2. Held' = Held
    BY <1>2, <1>4, <1>5, <2>1, FindsAre
  <2>3. Stored' = {}
    BY <1>1, <1>3, <2>1
  <2> QED
    BY <1>0, <1>1, <1>5, <2>2, <2>3, ThreadKeeps, Unmoved
<1>7. CASE StoreHash(t)
  <2>1. /\ ~Holding(t)' /\ ~Storing(t)' /\ tpc[t] = "hash" /\ found_nonce' = found_nonce
    BY <1>0, <1>7, ThreadKeeps DEF StoreHash, Leave, Holding, Storing
  <2>2. found /\ found_nonce = start_nonce + idx[t]
    BY <1>0, <1>1, <2>1, ThreadKeeps DEF IInv, WinInv
  <2>3. \A u \in AllThreads : ~Storing(u)'
    <3>1. \A u \in AllThreads : Storing(u) => u = t
      BY <1>0, <1>1, ThreadKeeps DEF IInv, WinInv
    <3> QED
      BY <1>4, <2>1, <3>1
  <2>4. Stored' = {start_nonce + idx[t]}
    BY <1>3, <2>1, <2>2, <2>3
  <2>5. Held' \cup {start_nonce + idx[t]} = Held
    BY <1>1, <1>2, <1>4, <1>5, <2>1, FindsAre
  <2>6. (Held \cup Stored)' = Held \cup Stored
    BY <1>5, <2>4, <2>5
  <2> QED
    BY <1>0, <1>1, <2>6, ThreadKeeps, Unmoved
<1> QED
  BY <1>6, <1>7

\* A step of a thread is a step of the search, or none of it.
LEMMA ThreadSearches ==
  ASSUME IInv, NEW t \in Threads, Thread(t)
  PROVE  Search!Next \/ UNCHANGED Search!search
<1>1. CASE ~batch_ok
  <2>1. ~batch_ok'
    BY <1>1, ThreadKeeps
  <2> QED
    BY <2>1, Left DEF Searching, Answered
<1>2. CASE batch_ok
  BY <1>2, LeavingLoop, HashTries, WinLetsGo, StoringKeeps DEF Thread
<1> QED
  BY <1>1, <1>2

\* The grid starts, and a kernel ends, without a find that was not there.
LEMMA GridSearches ==
  ASSUME IInv, Grid \/ KernelDone
  PROVE  UNCHANGED Search!search
<1>1. /\ pc \in {"grid", "kernel"} /\ pc' \in {"kernel", "read"}
      /\ UNCHANGED <<batch_ok, start_nonce, count, hashed, found, found_nonce>>
  BY DEF Grid, KernelDone, batch, block_
<1>2. \A u \in AllThreads : tpc[u] \notin {"cas", "nonce", "hash"}
  <2>1. CASE Grid
    BY <2>1 DEF Grid, IInv, QuietInv
  <2>2. CASE KernelDone
    BY <2>2 DEF KernelDone, IInv, QuietInv
  <2> QED
    BY <2>1, <2>2
<1>3. \A u \in AllThreads : tpc'[u] \notin {"cas", "nonce", "hash"}
  <2>1. CASE Grid
    BY <2>1 DEF Grid
  <2>2. CASE KernelDone
    BY <1>2, <2>2 DEF KernelDone, kernel
  <2> QED
    BY <2>1, <2>2
<1>4. Held = {} /\ Stored = IF found THEN {found_nonce} ELSE {}
  BY <1>2, QuietFinds
<1>5. Held' = {} /\ Stored' = IF found THEN {found_nonce} ELSE {}
  BY <1>1, <1>3 DEF Held, Stored
<1>6. Searching' = Searching /\ Answered' = Answered /\ ~Answered
  BY <1>1 DEF Searching, Answered
<1>7. Asked' = Asked /\ Tried' = Tried
  BY <1>1, SameBatch
<1> QED
  BY <1>4, <1>5, <1>6, <1>7, Unseen

\* run_stratum's look at the answer does not change it.
LEMMA JudgeLooks ==
  ASSUME Judge
  PROVE  UNCHANGED Search!search
<1>1. /\ pc = "judge" /\ pc' = "judged"
      /\ UNCHANGED <<batch_ok, start_nonce, count, hashed, tpc, idx, found, found_nonce, result>>
  BY DEF Judge, batch, block_, kernel
<1>2. Searching' = Searching /\ Answered' = Answered
  BY <1>1 DEF Searching, Answered
<1>3. Asked' = Asked /\ Tried' = Tried /\ Held' = Held /\ Stored' = Stored
  BY <1>1, SameBatch, SameFinds
<1> QED
  BY <1>1, <1>2, <1>3, Unseen

\* Every step is one of the abstract search, or none of it.
LEMMA SearchStep == IInv /\ [Next]_vars => [Search!Next]_(Search!search)
<1> SUFFICES ASSUME IInv, [Next]_vars PROVE Search!Next \/ UNCHANGED Search!search
  OBVIOUS
<1>1. ASSUME NEW w \in Works, NEW failed, NEW gone, SetupJob(w, failed, gone)
      PROVE  Search!Next \/ UNCHANGED Search!search
  <2>1. pc' \in {"idle", "verify"}
    BY <1>1 DEF SetupJob
  <2> QED
    BY <2>1, Left DEF Searching, Answered
<1>2. ASSUME NEW failed, NEW gone, Verify(failed, gone)
      PROVE  Search!Next \/ UNCHANGED Search!search
  <2>1. pc' \in {"idle", "refused"}
    BY <1>2 DEF Verify
  <2> QED
    BY <2>1, Left DEF Searching, Answered
<1>3. ASSUME NEW failed, NEW gone, ReadBack(failed, gone)
      PROVE  Search!Next \/ UNCHANGED Search!search
  BY <1>3, ReadBackAnswers
<1>4. ASSUME NEW b \in Batches, NEW failed, NEW gone, Launch(b, failed, gone)
      PROVE  Search!Next \/ UNCHANGED Search!search
  BY <1>4, LaunchCalls
<1>5. CASE Grid \/ KernelDone
  BY <1>5, GridSearches
<1>6. CASE Abort
  <2>1. ~batch_ok'
    BY <1>6 DEF Abort
  <2> QED
    BY <2>1, Left DEF Searching, Answered
<1>7. CASE Judge
  BY <1>7, JudgeLooks
<1>8. CASE EndOfScope
  <2>1. pc' = "idle"
    BY <1>8 DEF EndOfScope
  <2> QED
    BY <2>1, Left DEF Searching, Answered
<1>9. ASSUME NEW t \in Threads, Thread(t) PROVE Search!Next \/ UNCHANGED Search!search
  BY <1>9, ThreadSearches
<1>10. CASE Returned \/ UNCHANGED vars
  <2>1. UNCHANGED <<pc, batch_ok, start_nonce, count, hashed, tpc, idx, found, found_nonce, result>>
    BY <1>10 DEF Returned, vars, batch, kernel, block_, answer
  <2>2. Searching' = Searching /\ Answered' = Answered
    BY <2>1 DEF Searching, Answered
  <2>3. Asked' = Asked /\ Tried' = Tried /\ Held' = Held /\ Stored' = Stored
    BY <2>1, SameBatch, SameFinds
  <2> QED
    BY <2>1, <2>2, <2>3, Unseen
<1> QED
  BY <1>1, <1>2, <1>3, <1>4, <1>5, <1>6, <1>7, <1>8, <1>9, <1>10 DEF Next, Host

\* A batch in which no call fails implements the abstract search, for every
\* grid, polling interval, range and hash, whatever has failed before it.
THEOREM SearchSafety == Spec => SearchSpec
<1>1. Init => Search!Init
  <2> SUFFICES ASSUME Init PROVE Search!Init
    OBVIOUS
  <2>1. ~Searching /\ ~Answered
    BY DEF Init, Searching, Answered
  <2> QED
    BY <2>1 DEF Search!Init, Search!NothingYet
<1> QED
  BY <1>1, SearchStep, Invariance, PTL DEF Spec, SearchSpec, Search!Spec

=============================================================================
