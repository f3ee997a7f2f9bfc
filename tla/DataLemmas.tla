------------------------------ MODULE DataLemmas ------------------------------
(***************************************************************************)
(* What the proof modules need to know of data, whatever it stands for:    *)
(* quotients and remainders, powers, sequences, folds and sums.            *)
(*                                                                         *)
(* Induction is stated for sets instead of predicates: what is to be shown *)
(* of every number, or of every subset of a finite set, is the set of      *)
(* those of which it holds.  A step function is a function of an index and *)
(* a value.  From this it follows that functions defined by recursion, and *)
(* the folds of the community modules, are what their definitions say.     *)
(***************************************************************************)
EXTENDS Powers, Sequences, SequencesExt, FiniteSetsExt, FiniteSetTheorems, TLAPS

-----------------------------------------------------------------------------
(* Remainders.                                                             *)

\* The remainder is determined by what it is.
LEMMA DivMod == ASSUME NEW a \in Int, NEW n \in Nat \ {0}
                PROVE  /\ a % n \in 0..n - 1 /\ a \div n \in Int
                       /\ a = n * (a \div n) + (a % n)
  OBVIOUS

\* The same with names for quotient and remainder.
LEMMA Division == ASSUME NEW a \in Int, NEW n \in Nat \ {0}
                  PROVE  \E q \in Int, r \in 0..n - 1 : r = a % n /\ a = n * q + r
<1>1. a \div n \in Int /\ a % n \in 0..n - 1 /\ a = n * (a \div n) + (a % n)
  BY DivMod
<1>2. QED
  BY <1>1, Zenon

\* A multiple is no smaller than the number.
LEMMA Multiple == ASSUME NEW n \in Nat \ {0}, NEW d \in Int
                  PROVE  /\ d >= 1 => n * d >= n
                         /\ d <= -1 => n * d <= -n
  OBVIOUS

\* Quotient and remainder are determined by each other.
LEMMA Remainder == ASSUME NEW n \in Nat \ {0}, NEW q \in Int, NEW r \in 0..n - 1,
                          NEW p \in Int, NEW m \in 0..n - 1, n * q + r = n * p + m
                   PROVE  q = p /\ r = m
<1>1. n * (q - p) = n * q - n * p
  OBVIOUS
<1>2. n * (q - p) = m - r
  BY <1>1
<1>3. q - p = 0
  BY <1>2, Multiple
<1>4. QED
  BY <1>1, <1>3

\* A remainder may be taken before something is added.
LEMMA Shift == ASSUME NEW a \in Int, NEW b \in Int, NEW n \in Nat \ {0}
               PROVE  ((a % n) + b) % n = (a + b) % n
<1> DEFINE c == (a % n) + b
<1>1. /\ a % n \in Int /\ a \div n \in Int /\ a = n * (a \div n) + (a % n)
  BY DivMod
<1>2. c \in Int /\ a + b \in Int
  BY <1>1
<1>3. PICK r \in 0..n - 1, q \in Int : r = c % n /\ c = n * q + r
  BY <1>2, DivMod
<1>4. PICK m \in 0..n - 1, p \in Int : m = (a + b) % n /\ a + b = n * p + m
  BY <1>2, DivMod
<1>5. PICK d \in Int : d = a \div n + q
  BY <1>1
<1>6. n * d + r = n * p + m
  <2>1. PICK k \in Int : k = a \div n
    BY <1>1
  <2>2. n * d = n * k + n * q
    BY <1>5, <2>1
  <2>3. a + b = n * k + n * q + r
    BY <1>1, <1>3, <2>1
  <2>4. QED
    BY <1>4, <2>2, <2>3
<1>7. r = m
  BY <1>6, Remainder
<1>8. QED
  BY <1>3, <1>4, <1>7

\* Numbers with the same remainder are far apart.
LEMMA Apart == ASSUME NEW i \in Int, NEW j \in Int, NEW n \in Nat \ {0},
                      i - j < n, j - i < n, i % n = j % n
               PROVE  i = j
<1>1. PICK q \in Int, r \in 0..n - 1 : r = i % n /\ i = n * q + r
  BY Division
<1>2. PICK p \in Int, m \in 0..n - 1 : m = j % n /\ j = n * p + m
  BY Division
<1>3. PICK d \in Int : d = q - p
  OBVIOUS
<1>4. i - j = n * d
  <2>1. n * d = n * q - n * p
    BY <1>3
  <2>2. r = m
    BY <1>1, <1>2
  <2>3. PICK x \in Int, y \in Int : x = n * q /\ y = n * p
    OBVIOUS
  <2>4. i = x + r /\ j = y + r
    BY <1>1, <1>2, <2>2, <2>3, Zenon
  <2>5. i - j = x - y
    BY <2>4
  <2>6. n * d = x - y
    BY <2>1, <2>3
  <2>7. QED
    BY <2>5, <2>6
<1>5. d = 0
  BY <1>4, Multiple
<1>6. QED
  BY <1>4, <1>5

\* A number that fits is not changed, and once around is where one was.
LEMMA Wrapping == ASSUME NEW a \in Nat, NEW n \in Nat, a < n
                  PROVE  a % n = a
  OBVIOUS

\* The number itself leaves the remainder as it is.
LEMMA Around == ASSUME NEW a \in Nat, NEW n \in Nat \ {0}
                PROVE  (a + n) % n = a % n
<1> a \in Int /\ a + n \in Int
  OBVIOUS
<1>1. PICK q \in Int, r \in 0..n - 1 : r = a % n /\ a = n * q + r
  BY Division
<1>2. PICK p \in Int, m \in 0..n - 1 : m = (a + n) % n /\ a + n = n * p + m
  BY Division
<1>3. PICK d \in Int : d = q + 1
  OBVIOUS
<1>4. n * d + r = n * p + m
  <2>1. n * d = n * q + n
    BY <1>3
  <2>2. QED
    BY <1>1, <1>2, <2>1
<1>5. r = m
  BY <1>4, Remainder, Zenon
<1>6. QED
  BY <1>1, <1>2, <1>5

\* The quotient grows by one where the remainder comes round to zero.
LEMMA NextQuotient ==
  ASSUME NEW m \in Nat \ {0}, NEW a \in Nat
  PROVE  (a + 1) \div m = IF (a + 1) % m = 0 THEN a \div m + 1 ELSE a \div m
<1>1. PICK q \in Int, r \in 0..m - 1 : q = a \div m /\ r = a % m /\ a = m * q + r
  BY DivMod
<1>2. PICK p \in Int, k \in 0..m - 1 : p = (a + 1) \div m /\ k = (a + 1) % m /\ a + 1 = m * p + k
  <2> a + 1 \in Int
    OBVIOUS
  <2> QED
    BY DivMod
<1>3. CASE r + 1 < m
  <2>1. r + 1 \in 0..m - 1 /\ m * q + (r + 1) = m * p + k
    BY <1>1, <1>2, <1>3
  <2>2. q = p /\ r + 1 = k
    BY <2>1, Remainder
  <2> QED
    BY <1>1, <1>2, <2>2
<1>4. CASE r + 1 = m
  <2>1. PICK d \in Int : d = q + 1
    OBVIOUS
  <2>2. m * d = m * q + m
    BY <2>1
  <2>3. m * d + 0 = m * p + k /\ 0 \in 0..m - 1
    BY <1>1, <1>2, <1>4, <2>2
  <2>4. d = p /\ 0 = k
    BY <2>3, Remainder
  <2> QED
    BY <1>1, <1>2, <2>1, <2>4
<1> QED
  BY <1>3, <1>4

\* Quotients of natural numbers are natural.
LEMMA DivNat == ASSUME NEW x \in Nat, NEW n \in Nat \ {0}
                PROVE  x \div n \in Nat /\ (x < n => x \div n = 0)
  OBVIOUS

\* Dividing twice.
LEMMA DivDiv ==
  ASSUME NEW x \in Nat, NEW m \in Nat \ {0}, NEW n \in Nat \ {0}
  PROVE  x \div (n * m) = (x \div m) \div n
<1>1. PICK q \in Int, r \in 0..m - 1 : q = x \div m /\ x = m * q + r
  BY DivMod
<1>2. PICK p \in Int, s \in 0..n - 1 : p = q \div n /\ q = n * p + s
  BY DivMod
<1>3. PICK k \in Nat \ {0} : k = n * m
  OBVIOUS
<1>4. m * q = m * (n * p) + m * s
  BY <1>2
<1>5. m * (n * p) = k * p
  BY <1>3
<1>6. PICK a \in Nat : a = m * s /\ a + r < k
  <2>1. PICK e \in Nat : e = n - 1 - s
    OBVIOUS
  <2>2. m * e \in Nat /\ m * e = m * n - m - m * s
    BY <2>1
  <2>3. PICK a \in Nat, b \in Nat, c \in Nat : a = m * s /\ b = m * e /\ c = m * n
    OBVIOUS
  <2>4. c = k
    BY <1>3, <2>3
  <2> QED
    BY <2>2, <2>3, <2>4
<1>7. PICK z \in Int : z = k * p
  OBVIOUS
<1>8. x = z + (a + r)
  BY <1>1, <1>4, <1>5, <1>6, <1>7
<1>9. PICK j \in Int, t \in 0..k - 1 : j = x \div k /\ x = k * j + t
  BY DivMod
<1>10. k * p + (a + r) = k * j + t
  BY <1>7, <1>8, <1>9
<1>11. j = p
  <2>1. a + r \in 0..k - 1
    BY <1>6
  <2> QED
    BY <1>10, <2>1, Remainder
<1> QED
  BY <1>1, <1>2, <1>3, <1>9, <1>11

\* A product divided by one of its factors.
LEMMA TimesDiv ==
  ASSUME NEW x \in Int, NEW n \in Nat \ {0}
  PROVE  (x * n) \div n = x /\ (x * n) % n = 0
<1>1. PICK p \in Int : p = x * n /\ p = n * x + 0
  OBVIOUS
<1>2. p % n \in 0..n - 1 /\ p \div n \in Int /\ p = n * (p \div n) + (p % n)
  BY DivMod
<1>3. PICK q \in Int, r \in 0..n - 1 : q = p \div n /\ r = p % n /\ p = n * q + r
  BY <1>2, Zenon
<1>4. n * q + r = n * x + 0 /\ 0 \in 0..n - 1
  BY <1>1, <1>3
<1>5. q = x /\ r = 0
  BY <1>4, Remainder
<1> QED
  BY <1>1, <1>3, <1>5

\* Multiplying keeps the order.
LEMMA LessTimes ==
  ASSUME NEW a \in Int, NEW b \in Int, NEW n \in Nat \ {0}
  PROVE  a * n < b * n <=> a < b
<1>1. PICK p \in Int, q \in Int, d \in Int, r \in Int :
        p = a * n /\ q = b * n /\ d = b - a /\ r = n * d
  OBVIOUS
<1>2. r = q - p
  BY <1>1
<1>3. (d >= 1 => r >= n) /\ (d <= -1 => r <= -n) /\ (d = 0 => r = 0)
  BY <1>1, Multiple
<1> QED
  BY <1>1, <1>2, <1>3

\* What does not exceed a quotient.
LEMMA LeqDiv ==
  ASSUME NEW v \in Int, NEW u \in Int, NEW n \in Nat \ {0}
  PROVE  v <= u \div n <=> v * n <= u
<1>1. u % n \in 0..n - 1 /\ u \div n \in Int /\ u = n * (u \div n) + (u % n)
  BY DivMod
<1>2. PICK q \in Int, r \in 0..n - 1 : q = u \div n /\ u = n * q + r
  BY <1>1, Zenon
<1>3. PICK p \in Int, s \in Int, d \in Int, t \in Int :
        p = v * n /\ s = n * q /\ d = q - v /\ t = n * d
  OBVIOUS
<1>4. t = s - p
  BY <1>3
<1>5. (d >= 1 => t >= n) /\ (d <= -1 => t <= -n) /\ (d = 0 => t = 0)
  BY <1>3, Multiple
<1> QED
  BY <1>2, <1>3, <1>4, <1>5

\* A multiple of the divisor can be taken out of a quotient.
LEMMA AddDiv ==
  ASSUME NEW n \in Nat \ {0}, NEW x \in Int, NEW y \in Int
  PROVE  (x * n + y) \div n = x + (y \div n) /\ (x * n + y) % n = y % n
<1>1. PICK q \in Int, r \in 0..n - 1 : q = y \div n /\ r = y % n /\ y = n * q + r
  BY DivMod
<1>2. PICK p \in Int : p = x * n + y
  OBVIOUS
<1>3. PICK j \in Int, t \in 0..n - 1 : j = p \div n /\ t = p % n /\ p = n * j + t
  BY DivMod
<1>4. n * (x + q) + r = n * j + t
  <2>1. n * (x + q) = x * n + n * q
    BY <1>1
  <2>2. PICK a \in Int, b \in Int, c \in Int, e \in Int :
          a = x * n /\ b = n * q /\ c = n * (x + q) /\ e = n * j
    BY <1>1
  <2>3. c = a + b /\ p = a + y /\ y = b + r /\ p = e + t
    BY <1>1, <1>2, <1>3, <2>1, <2>2
  <2> QED
    BY <2>2, <2>3
<1>5. x + q = j /\ r = t
  <2> x + q \in Int
    OBVIOUS
  <2> QED
    BY <1>4, Remainder
<1> QED
  BY <1>1, <1>2, <1>3, <1>5

\* A quotient below a bound.
LEMMA DivLess ==
  ASSUME NEW n \in Nat \ {0}, NEW x \in Nat, NEW y \in Nat, x < y * n
  PROVE  x \div n < y /\ x \div n \in Nat
<1>1. x \div n \in Nat
  BY DivNat
<1>2. y <= x \div n <=> y * n <= x
  BY LeqDiv
<1>3. PICK p \in Int : p = y * n
  OBVIOUS
<1> QED
  BY <1>1, <1>2, <1>3

\* A quotient and what follows of a smaller and a larger divisor.
LEMMA DivSmaller ==
  ASSUME NEW x \in Nat, NEW m \in Nat \ {0}, NEW n \in Nat \ {0}, m <= n
  PROVE  x \div n <= x \div m
<1>1. PICK v \in Nat : v = x \div n
  BY DivNat
<1>2. v * n <= x
  BY <1>1, LeqDiv
<1>3. v * m <= v * n
  <2>1. PICK e \in Nat : e = n - m
    OBVIOUS
  <2>2. v * e \in Nat /\ v * e = v * n - v * m
    BY <2>1
  <2>3. PICK a \in Nat, b \in Nat, c \in Nat : a = v * e /\ b = v * n /\ c = v * m
    BY <2>2
  <2> QED
    BY <2>2, <2>3
<1>4. PICK a \in Nat, b \in Nat : a = v * m /\ b = v * n
  OBVIOUS
<1>5. v * m <= x
  BY <1>2, <1>3, <1>4
<1> QED
  BY <1>1, <1>5, LeqDiv

\* One step of a long division in base n by m: the next digit w comes down.
LEMMA LongDivision ==
  ASSUME NEW n \in Nat \ {0}, NEW m \in Nat \ {0}, NEW q \in Nat, NEW w \in 0..n - 1
  PROVE  /\ ((q % m) * n + w) % m = (q * n + w) % m
         /\ (((q % m) * n + w) \div m) % n = ((q * n + w) \div m) % n
         /\ ((q * n + w) \div m) \div n = q \div m
<1>1. PICK j \in Int, r \in 0..m - 1 : j = q \div m /\ r = q % m /\ q = m * j + r
  BY DivMod
<1>2. PICK z \in Nat : z = r * n + w
  OBVIOUS
<1>3. z < n * m
  <2>1. PICK e \in Nat : e = m - 1 - r
    OBVIOUS
  <2>2. e * n \in Nat /\ e * n = m * n - n - r * n
    BY <2>1
  <2>3. PICK a \in Nat, b \in Nat, c \in Nat : a = e * n /\ b = m * n /\ c = r * n
    OBVIOUS
  <2>4. b = n * m
    BY <2>3
  <2> QED
    BY <1>2, <2>2, <2>3, <2>4
<1>4. PICK d \in Nat : d = z \div m /\ d < n
  BY <1>3, DivLess
<1>5. q * n + w = (j * n) * m + z
  <2>1. q * n = (m * j) * n + r * n
    BY <1>1
  <2>2. (m * j) * n = (j * n) * m
    OBVIOUS
  <2>3. PICK a \in Int, b \in Int, c \in Int : a = q * n /\ b = (j * n) * m /\ c = r * n
    OBVIOUS
  <2> QED
    BY <1>2, <2>1, <2>2, <2>3
<1>6. (q * n + w) \div m = j * n + d /\ (q * n + w) % m = z % m
  <2>1. PICK a \in Int, b \in Int : a = j * n /\ b = q * n + w /\ b = a * m + z
    BY <1>5
  <2>2. (a * m + z) \div m = a + (z \div m) /\ (a * m + z) % m = z % m
    <3> z \in Int
      OBVIOUS
    <3> QED
      BY AddDiv
  <2> QED
    BY <1>4, <2>1, <2>2
<1>7. d % n = d /\ d \div n = 0
  BY <1>4, Wrapping, DivNat
<1>8. (j * n + d) \div n = j /\ (j * n + d) % n = d
  BY <1>7, AddDiv
<1> QED
  BY <1>1, <1>2, <1>4, <1>6, <1>7, <1>8

-----------------------------------------------------------------------------
(* Smaller and larger of two.                                              *)

\* Min and Max of two numbers.
LEMMA MinOfTwo == ASSUME NEW a \in Int, NEW b \in Int
                  PROVE  /\ Min({a, b}) \in {a, b}
                         /\ Min({a, b}) <= a /\ Min({a, b}) <= b
<1>1. \E x \in {a, b} : \A y \in {a, b} : x <= y
  <2>1. CASE a <= b
    BY <2>1
  <2>2. CASE b <= a
    BY <2>2
  <2>3. QED
    BY <2>1, <2>2
<1>2. Min({a, b}) \in {a, b} /\ \A y \in {a, b} : Min({a, b}) <= y
  BY <1>1, Zenon DEF Min
<1>3. QED
  BY <1>2

\* The larger of two.
LEMMA MaxOfTwo == ASSUME NEW a \in Int, NEW b \in Int
                  PROVE  /\ Max({a, b}) \in {a, b}
                         /\ Max({a, b}) >= a /\ Max({a, b}) >= b
<1>1. \E x \in {a, b} : \A y \in {a, b} : x >= y
  <2>1. CASE a <= b
    BY <2>1
  <2>2. CASE b <= a
    BY <2>2
  <2>3. QED
    BY <2>1, <2>2
<1>2. Max({a, b}) \in {a, b} /\ \A y \in {a, b} : Max({a, b}) >= y
  BY <1>1, Zenon DEF Max
<1>3. QED
  BY <1>2

-----------------------------------------------------------------------------
(* Induction and recursion.                                                *)

\* Induction over the natural numbers, from the well-foundedness of <.
LEMMA SetInduction ==
  ASSUME NEW S, 0 \in S, \A n \in Nat : n \in S => n + 1 \in S
  PROVE  \A n \in Nat : n \in S
<1> DEFINE T == Nat \ S
           R == OpToRel(<, Nat)
<1>1. SUFFICES ASSUME T # {} PROVE FALSE
  OBVIOUS
<1>2. IsWellFoundedOn(R, Nat)
  BY NatLessThanWellFounded
<1>3. T \subseteq Nat
  OBVIOUS
<1> HIDE DEF R, T
<1>4. PICK x \in T : \A y \in T : ~ (<<y, x>> \in R)
  BY <1>1, <1>2, <1>3, WFMin, Zenon
<1> USE DEF T
<1>5. x \in Nat /\ x # 0
  OBVIOUS
<1>6. x - 1 \in Nat /\ (x - 1) + 1 = x /\ x - 1 < x
  BY <1>5
<1>7. x - 1 \in T
  BY <1>5, <1>6
<1>8. <<x - 1, x>> \in R
  BY <1>5, <1>6 DEF R, OpToRel
<1> QED
  BY <1>4, <1>7, <1>8

\* A finite set without one of its elements.
LEMMA OneLess ==
  ASSUME NEW s, IsFiniteSet(s), NEW x \in s
  PROVE  IsFiniteSet(s \ {x}) /\ Cardinality(s \ {x}) = Cardinality(s) - 1
  BY FS_RemoveElement

\* Induction over the subsets of a finite set.
LEMMA SubsetInduction ==
  ASSUME NEW D, IsFiniteSet(D), NEW P, {} \in P,
         \A s \in SUBSET D : \A x \in D \ s : s \in P => s \cup {x} \in P
  PROVE  \A s \in SUBSET D : s \in P
<1> DEFINE T == {n \in Nat : \A s \in SUBSET D : Cardinality(s) = n => s \in P}
<1>1. 0 \in T
  BY FS_EmptySet, FS_Subset
<1>2. \A n \in Nat : n \in T => n + 1 \in T
  <2> SUFFICES ASSUME NEW n \in Nat, n \in T,
                      NEW s \in SUBSET D, Cardinality(s) = n + 1
               PROVE  s \in P
    OBVIOUS
  <2>1. IsFiniteSet(s)
    BY FS_Subset
  <2>2. s # {}
    BY <2>1, FS_EmptySet
  <2>3. PICK x \in s : TRUE
    BY <2>2
  <2>4. Cardinality(s \ {x}) = n
    BY <2>1, <2>3, OneLess
  <2>5. s \ {x} \in SUBSET D /\ x \in D \ (s \ {x}) /\ (s \ {x}) \cup {x} = s
    OBVIOUS
  <2>6. s \ {x} \in P
    BY <2>4, <2>5
  <2> QED
    BY <2>5, <2>6
<1> HIDE DEF T
<1>3. \A n \in Nat : n \in T
  BY <1>1, <1>2, SetInduction, Zenon
<1> TAKE s \in SUBSET D
<1>4. Cardinality(s) \in Nat
  BY FS_Subset, FS_CardinalityType
<1> QED
  BY <1>3, <1>4 DEF T

\* The same, where pick names the element that is put to the others.
PicksInto(pick, P, D) ==
  \A s \in SUBSET D : s # {} => pick[s] \in s /\ (s \ {pick[s]} \in P => s \in P)

\* A finite set is emptied by any choice of its elements.
LEMMA PickInduction ==
  ASSUME NEW D, IsFiniteSet(D), NEW pick, NEW P, {} \in P, PicksInto(pick, P, D)
  PROVE  D \in P
<1> USE DEF PicksInto
<1> DEFINE T == {n \in Nat : \A s \in SUBSET D : Cardinality(s) = n => s \in P}
<1>1. 0 \in T
  BY FS_EmptySet, FS_Subset
<1>2. \A n \in Nat : n \in T => n + 1 \in T
  <2> SUFFICES ASSUME NEW n \in Nat, n \in T,
                      NEW s \in SUBSET D, Cardinality(s) = n + 1
               PROVE  s \in P
    OBVIOUS
  <2>1. IsFiniteSet(s)
    BY FS_Subset
  <2>2. s # {}
    BY <2>1, FS_EmptySet
  <2>3. pick[s] \in s
    BY <2>2
  <2>4. Cardinality(s \ {pick[s]}) = n
    BY <2>1, <2>3, OneLess
  <2>5. s \ {pick[s]} \in SUBSET D
    OBVIOUS
  <2>6. s \ {pick[s]} \in P
    BY <2>4, <2>5
  <2> QED
    BY <2>2, <2>6
<1> HIDE DEF T
<1>3. \A n \in Nat : n \in T
  BY <1>1, <1>2, SetInduction, Zenon
<1>4. Cardinality(D) \in Nat
  BY FS_CardinalityType
<1> QED
  BY <1>3, <1>4 DEF T

-----------------------------------------------------------------------------
(* Recursion.                                                              *)

\* h makes a value of S of an element of D and a value.
Closed(h, D, S) == \A i \in D : \A v \in S : h[<<i, v>>] \in S

\* f counts up from a value, each value from the one before; or down.
CountsUp(f, a, h, n)   == f[0] = a /\ \A i \in 0..n - 1 : f[i + 1] = h[<<i, f[i]>>]
CountsDown(f, a, h, n) == f[n + 1] = a /\ \A i \in 1..n : f[i] = h[<<i, f[i + 1]>>]

\* Such functions exist.
LEMMA Recursion ==
  ASSUME NEW S, NEW a \in S, NEW N \in Nat, NEW h, Closed(h, 0..N - 1, S)
  PROVE  \E f \in [0..N -> S] : CountsUp(f, a, h, N)
<1> USE DEF Closed, CountsUp
<1> DEFINE Good(n, f) == f[0] = a /\ \A i \in 0..n - 1 : f[i + 1] = h[<<i, f[i]>>]
           T == {n \in Nat : n <= N => \E f \in [0..n -> S] : Good(n, f)}
<1>1. 0 \in T
  <2> DEFINE f == [i \in 0..0 |-> a]
  <2>1. f \in [0..0 -> S] /\ Good(0, f)
    OBVIOUS
  <2> QED
    BY <2>1
<1>2. \A n \in Nat : n \in T => n + 1 \in T
  <2> SUFFICES ASSUME NEW n \in Nat, n \in T, n + 1 <= N
               PROVE  \E f \in [0..n + 1 -> S] : Good(n + 1, f)
    OBVIOUS
  <2>1. PICK f \in [0..n -> S] : Good(n, f)
    OBVIOUS
  <2> DEFINE g == [i \in 0..n + 1 |-> IF i = n + 1 THEN h[<<n, f[n]>>] ELSE f[i]]
  <2>2. h[<<n, f[n]>>] \in S
    <3>1. n \in 0..N - 1 /\ f[n] \in S
      BY <2>1
    <3> QED
      BY <3>1
  <2>3. g \in [0..n + 1 -> S]
    BY <2>2
  <2>4. g[0] = a
    BY <2>1
  <2>5. ASSUME NEW i \in 0..(n + 1) - 1
        PROVE  g[i + 1] = h[<<i, g[i]>>]
    <3>1. CASE i = n
      BY <3>1
    <3>2. CASE i # n
      <4>1. i \in 0..n - 1 /\ i \in 0..n + 1 /\ i + 1 \in 0..n + 1 /\ i + 1 # n + 1 /\ i # n + 1
        BY <3>2
      <4>2. g[i + 1] = f[i + 1] /\ g[i] = f[i]
        BY <4>1
      <4> QED
        BY <2>1, <4>1, <4>2
    <3> QED
      BY <3>1, <3>2
  <2>6. Good(n + 1, g)
    BY <2>4, <2>5
  <2> HIDE DEF g, Good
  <2> QED
    BY <2>3, <2>6
<1>3. \A n \in Nat : n \in T
  <2> HIDE DEF T
  <2> QED
    BY <1>1, <1>2, SetInduction, Zenon
<1> QED
  BY <1>3

\* The same downwards.
LEMMA DownInduction ==
  ASSUME NEW n \in Nat, NEW P, n + 1 \in P, \A i \in 1..n : i + 1 \in P => i \in P
  PROVE  \A i \in 1..n + 1 : i \in P
<1> DEFINE T == {k \in Nat : k <= n => n + 1 - k \in P}
<1>1. 0 \in T
  BY n + 1 - 0 = n + 1
<1>2. \A k \in Nat : k \in T => k + 1 \in T
  <2> SUFFICES ASSUME NEW k \in Nat, k \in T, k + 1 <= n PROVE n + 1 - (k + 1) \in P
    OBVIOUS
  <2>1. n - k \in 1..n /\ (n - k) + 1 = n + 1 - k /\ n + 1 - (k + 1) = n - k
    OBVIOUS
  <2> QED
    BY <2>1
<1>3. \A k \in Nat : k \in T
  <2> HIDE DEF T
  <2> QED
    BY <1>1, <1>2, SetInduction, Zenon
<1>4. ASSUME NEW i \in 1..n + 1 PROVE i \in P
  <2>1. n + 1 - i \in Nat /\ n + 1 - i <= n /\ n + 1 - (n + 1 - i) = i
    OBVIOUS
  <2> QED
    BY <1>3, <2>1
<1> QED
  BY <1>4

\* Recursion from above: what counts down exists.
LEMMA DownRecursion ==
  ASSUME NEW S, NEW a \in S, NEW n \in Nat, NEW h, Closed(h, 1..n, S)
  PROVE  \E f \in [1..n + 1 -> S] : CountsDown(f, a, h, n)
<1> DEFINE k == [p \in (0..n - 1) \X S |-> h[<<n - p[1], p[2]>>]]
<1>1. \A i \in 0..n - 1 : \A v \in S : k[<<i, v>>] = h[<<n - i, v>>] /\ n - i \in 1..n
  <2> SUFFICES ASSUME NEW i \in 0..n - 1, NEW v \in S
               PROVE  k[<<i, v>>] = h[<<n - i, v>>] /\ n - i \in 1..n
    OBVIOUS
  <2>1. <<i, v>> \in (0..n - 1) \X S /\ <<i, v>>[1] = i /\ <<i, v>>[2] = v
    OBVIOUS
  <2>2. k[<<i, v>>] = h[<<n - i, v>>]
    BY <2>1, Zenon
  <2> QED
    BY <2>2
<1> HIDE DEF k
<1>2. Closed(k, 0..n - 1, S)
  BY <1>1 DEF Closed
<1>3. PICK g \in [0..n -> S] : CountsUp(g, a, k, n)
  BY <1>2, Recursion
<1> USE DEF CountsUp, CountsDown
<1> DEFINE f == [i \in 1..n + 1 |-> g[n + 1 - i]]
<1>4. f \in [1..n + 1 -> S]
  OBVIOUS
<1>5. f[n + 1] = a
  <2> n + 1 \in 1..n + 1 /\ n + 1 - (n + 1) = 0
    OBVIOUS
  <2> QED
    BY <1>3
<1>6. ASSUME NEW i \in 1..n PROVE f[i] = h[<<i, f[i + 1]>>]
  <2>1. /\ n - i \in 0..n - 1 /\ n - i \in 0..n /\ n - (n - i) = i /\ (n - i) + 1 = n + 1 - i
        /\ n + 1 - (i + 1) = n - i /\ i \in 1..n + 1 /\ i + 1 \in 1..n + 1
    OBVIOUS
  <2>2. f[i] = g[(n - i) + 1] /\ f[i + 1] = g[n - i]
    BY <2>1
  <2>3. g[n - i] \in S
    BY <2>1
  <2>4. g[(n - i) + 1] = k[<<n - i, g[n - i]>>]
    BY <1>3, <2>1
  <2>5. k[<<n - i, g[n - i]>>] = h[<<n - (n - i), g[n - i]>>]
    BY <1>1, <2>1, <2>3
  <2> QED
    BY <2>1, <2>2, <2>4, <2>5
<1> HIDE DEF f
<1> QED
  BY <1>4, <1>5, <1>6

-----------------------------------------------------------------------------
(* Powers.                                                                 *)

\* The powers up to the n-th.
PowersTo(p, b, n) == p = [i \in 0..n |-> IF i = 0 THEN 1 ELSE b * p[i - 1]]

\* Powers are what the recursion says.
LEMMA PowerIs ==
  ASSUME NEW b \in Int, NEW n \in Nat
  PROVE  \E p \in [0..n -> Int] : PowersTo(p, b, n) /\ Power(b, n) = p[n]
<1> DEFINE h == [q \in (0..n - 1) \X Int |-> b * q[2]]
<1>1. \A i \in 0..n - 1 : \A v \in Int : h[<<i, v>>] = b * v /\ b * v \in Int
  <2> SUFFICES ASSUME NEW i \in 0..n - 1, NEW v \in Int
               PROVE  h[<<i, v>>] = b * v /\ b * v \in Int
    OBVIOUS
  <2>1. <<i, v>> \in (0..n - 1) \X Int /\ <<i, v>>[2] = v
    OBVIOUS
  <2>2. h[<<i, v>>] = b * v
    BY <2>1, Zenon
  <2> QED
    BY <2>2
<1> HIDE DEF h
<1>2. Closed(h, 0..n - 1, Int)
  BY <1>1 DEF Closed
<1>3. PICK p \in [0..n -> Int] : CountsUp(p, 1, h, n)
  <2>1. 1 \in Int
    OBVIOUS
  <2> QED
    BY <1>2, <2>1, Recursion
<1>4. p = [i \in 0..n |-> IF i = 0 THEN 1 ELSE b * p[i - 1]]
  <2>1. ASSUME NEW i \in 0..n PROVE p[i] = IF i = 0 THEN 1 ELSE b * p[i - 1]
    <3>1. CASE i = 0
      BY <1>3, <3>1 DEF CountsUp
    <3>2. CASE i # 0
      <4>1. i - 1 \in 0..n - 1 /\ i - 1 \in 0..n /\ (i - 1) + 1 = i
        BY <3>2
      <4>2. p[(i - 1) + 1] = h[<<i - 1, p[i - 1]>>] /\ p[i - 1] \in Int
        BY <1>3, <4>1 DEF CountsUp
      <4> QED
        BY <1>1, <3>2, <4>1, <4>2
    <3> QED
      BY <3>1, <3>2
  <2> QED
    BY <2>1
<1>5. PowersTo(p, b, n)
  BY <1>4 DEF PowersTo
<1>6. Power(b, n) = p[n]
  <2> DEFINE power == CHOOSE f : f = [i \in 0..n |-> IF i = 0 THEN 1 ELSE b * f[i - 1]]
  <2>1. power = [i \in 0..n |-> IF i = 0 THEN 1 ELSE b * power[i - 1]]
    BY <1>4, Zenon
  <2>2. Power(b, n) = power[n]
    BY Zenon DEF Power
  <2> HIDE DEF power
  <2> DEFINE T == {i \in Nat : i <= n => power[i] = p[i]}
  <2>3. 0 \in T
    BY <1>4, <2>1
  <2>4. \A i \in Nat : i \in T => i + 1 \in T
    <3> SUFFICES ASSUME NEW i \in Nat, i + 1 <= n, power[i] = p[i]
                 PROVE  power[i + 1] = p[i + 1]
      OBVIOUS
    <3>1. i + 1 \in 0..n /\ i + 1 # 0 /\ (i + 1) - 1 = i
      OBVIOUS
    <3>2. power[i + 1] = b * power[(i + 1) - 1] /\ p[i + 1] = b * p[(i + 1) - 1]
      BY <1>4, <2>1, <3>1, Zenon
    <3> QED
      BY <3>1, <3>2
  <2>5. n \in T
    <3> HIDE DEF T
    <3> QED
      BY <2>3, <2>4, SetInduction, Zenon
  <2> QED
    BY <2>2, <2>5
<1> QED
  BY <1>5, <1>6

\* The laws of powers.
LEMMA PowerZero == ASSUME NEW b \in Int PROVE Power(b, 0) = 1
<1>1. PICK p \in [0..0 -> Int] : PowersTo(p, b, 0) /\ Power(b, 0) = p[0]
  BY PowerIs
<1> QED
  BY <1>1 DEF PowersTo

\* The next power.
LEMMA PowerNext == ASSUME NEW b \in Int, NEW n \in Nat
                   PROVE  Power(b, n + 1) = b * Power(b, n) /\ Power(b, n) \in Int
<1>1. PICK p \in [0..n + 1 -> Int] : PowersTo(p, b, n + 1) /\ Power(b, n + 1) = p[n + 1]
  <2>1. n + 1 \in Nat
    OBVIOUS
  <2> QED
    BY <2>1, PowerIs
<1>2. PICK q \in [0..n -> Int] : PowersTo(q, b, n) /\ Power(b, n) = q[n]
  BY PowerIs
<1> USE DEF PowersTo
<1> DEFINE T == {i \in Nat : i <= n => q[i] = p[i]}
<1>3. 0 \in T
  BY <1>1, <1>2
<1>4. \A i \in Nat : i \in T => i + 1 \in T
  <2> SUFFICES ASSUME NEW i \in Nat, i + 1 <= n, q[i] = p[i]
               PROVE  q[i + 1] = p[i + 1]
    OBVIOUS
  <2>1. i + 1 \in 0..n /\ i + 1 \in 0..n + 1 /\ i + 1 # 0 /\ (i + 1) - 1 = i
    OBVIOUS
  <2>2. q[i + 1] = b * q[(i + 1) - 1] /\ p[i + 1] = b * p[(i + 1) - 1]
    BY <1>1, <1>2, <2>1, Zenon
  <2> QED
    BY <2>1, <2>2
<1>5. n \in T
  <2> HIDE DEF T
  <2> QED
    BY <1>3, <1>4, SetInduction, Zenon
<1>6. n + 1 \in 0..n + 1 /\ n + 1 # 0 /\ (n + 1) - 1 = n
  OBVIOUS
<1>7. p[n + 1] = b * p[(n + 1) - 1]
  BY <1>1, <1>6, Zenon
<1> QED
  BY <1>1, <1>2, <1>5, <1>6, <1>7

\* Powers of a positive number are positive.
LEMMA PowerPositive == ASSUME NEW b \in Nat \ {0}
                       PROVE  \A n \in Nat : Power(b, n) \in Nat \ {0}
<1> DEFINE T == {n \in Nat : Power(b, n) \in Nat \ {0}}
<1>1. 0 \in T
  BY PowerZero
<1>2. \A n \in Nat : n \in T => n + 1 \in T
  <2> SUFFICES ASSUME NEW n \in Nat, Power(b, n) \in Nat \ {0}
               PROVE  Power(b, n + 1) \in Nat \ {0}
    OBVIOUS
  <2>1. PICK k \in Nat \ {0} : k = Power(b, n)
    OBVIOUS
  <2>2. b * k \in Nat \ {0}
    BY <2>1
  <2> QED
    BY <2>1, <2>2, PowerNext
<1>3. \A n \in Nat : n \in T
  <2> HIDE DEF T
  <2> QED
    BY <1>1, <1>2, SetInduction, Zenon
<1> QED
  BY <1>3

\* The powers of a sum, and their order.
LEMMA PowerAdd == ASSUME NEW b \in Nat \ {0}, NEW m \in Nat, NEW n \in Nat
                  PROVE  Power(b, m + n) = Power(b, m) * Power(b, n)
<1> DEFINE T == {k \in Nat : Power(b, m + k) = Power(b, m) * Power(b, k)}
<1>0. b \in Int
  OBVIOUS
<1>1. 0 \in T
  <2>1. m + 0 = m /\ 0 \in Nat
    OBVIOUS
  <2>2. Power(b, m) \in Nat /\ Power(b, 0) = 1
    BY <1>0, PowerPositive, PowerZero
  <2> QED
    BY <2>1, <2>2
<1>2. \A k \in Nat : k \in T => k + 1 \in T
  <2> SUFFICES ASSUME NEW k \in Nat, Power(b, m + k) = Power(b, m) * Power(b, k)
               PROVE  Power(b, m + (k + 1)) = Power(b, m) * Power(b, k + 1)
    OBVIOUS
  <2>1. m + k \in Nat /\ m + (k + 1) = (m + k) + 1
    OBVIOUS
  <2>2. Power(b, (m + k) + 1) = b * Power(b, m + k) /\ Power(b, k + 1) = b * Power(b, k)
    BY <1>0, <2>1, PowerNext
  <2>3. PICK p \in Nat, q \in Nat : p = Power(b, m) /\ q = Power(b, k)
    BY PowerPositive
  <2>4. b * (p * q) = p * (b * q)
    BY <2>3
  <2> QED
    BY <2>1, <2>2, <2>3, <2>4
<1> HIDE DEF T
<1>3. \A k \in Nat : k \in T
  BY <1>1, <1>2, SetInduction, Zenon
<1> QED
  BY <1>3 DEF T

\* Powers grow with the exponent.
LEMMA PowerLeq == ASSUME NEW b \in Nat \ {0}, NEW m \in Nat, NEW n \in Nat, m <= n
                  PROVE  Power(b, m) <= Power(b, n)
<1>1. PICK d \in Nat : n = m + d
  <2> n - m \in Nat /\ n = m + (n - m)
    OBVIOUS
  <2> QED
    OBVIOUS
<1>2. PICK p \in Nat \ {0}, q \in Nat \ {0} : p = Power(b, m) /\ q = Power(b, d)
  BY PowerPositive
<1>3. p * (q - 1) \in Nat /\ p * (q - 1) = p * q - p
  BY <1>2
<1>4. Power(b, n) = p * q
  BY <1>1, <1>2, PowerAdd
<1>5. PICK r \in Int : r = p * q
  OBVIOUS
<1> QED
  BY <1>2, <1>3, <1>4, <1>5

-----------------------------------------------------------------------------
(* Folds.                                                                  *)

\* g is the value of a fold over every subset of D: the elements are taken out
\* with pick, and h makes a value of an element and the value of the others.
Folds(g, a, h, pick, D) ==
  g = [s \in SUBSET D |-> IF s = {} THEN a ELSE h[<<pick[s], g[s \ {pick[s]}]>>]]

\* Folds exist.
LEMMA FoldExists ==
  ASSUME NEW D, IsFiniteSet(D), NEW V, NEW a \in V, NEW h, NEW pick,
         Closed(h, D, V), \A s \in SUBSET D : s # {} => pick[s] \in s
  PROVE  \E g \in [SUBSET D -> V] : Folds(g, a, h, pick, D)
<1> USE DEF Closed
<1> DEFINE Step(g, s) == IF s = {} THEN a ELSE h[<<pick[s], g[s \ {pick[s]}]>>]
           Upto(n, g) == \A s \in SUBSET D : Cardinality(s) <= n => g[s] = Step(g, s)
           T == {n \in Nat : \E g \in [SUBSET D -> V] : Upto(n, g)}
<1>0. \A s \in SUBSET D : Cardinality(s) \in Nat /\ (Cardinality(s) = 0 <=> s = {})
  BY FS_Subset, FS_CardinalityType, FS_EmptySet
<1>1. 0 \in T
  <2> DEFINE g == [s \in SUBSET D |-> a]
  <2>1. g \in [SUBSET D -> V]
    OBVIOUS
  <2>2. Upto(0, g)
    BY <1>0
  <2> QED
    BY <2>1, <2>2
<1>2. \A n \in Nat : n \in T => n + 1 \in T
  <2> SUFFICES ASSUME NEW n \in Nat,
                      \E g \in [SUBSET D -> V] : Upto(n, g)
               PROVE  \E g \in [SUBSET D -> V] : Upto(n + 1, g)
    <3> HIDE DEF Upto
    <3>1. \A n \in Nat : n + 1 \in Nat
      OBVIOUS
    <3> QED
      BY <3>1, Zenon
  <2>1. PICK g \in [SUBSET D -> V] : Upto(n, g)
    OBVIOUS
  <2> DEFINE k == [s \in SUBSET D |-> Step(g, s)]
  <2>2. k \in [SUBSET D -> V]
    <3> SUFFICES ASSUME NEW s \in SUBSET D, s # {}
                 PROVE  h[<<pick[s], g[s \ {pick[s]}]>>] \in V
      OBVIOUS
    <3>1. pick[s] \in D /\ s \ {pick[s]} \in SUBSET D
      OBVIOUS
    <3>2. g[s \ {pick[s]}] \in V
      BY <3>1
    <3> QED
      BY <3>2
  <2>3. ASSUME NEW s \in SUBSET D, Cardinality(s) <= n
        PROVE  k[s] = g[s]
    BY <2>1, <2>3
  <2>4. ASSUME NEW s \in SUBSET D, Cardinality(s) <= n + 1, s # {}
        PROVE  k[s \ {pick[s]}] = g[s \ {pick[s]}]
    <3>1. pick[s] \in s /\ s \ {pick[s]} \in SUBSET D /\ IsFiniteSet(s)
      BY <2>4, FS_Subset
    <3>2. Cardinality(s \ {pick[s]}) = Cardinality(s) - 1
      BY <3>1, OneLess
    <3>3. Cardinality(s \ {pick[s]}) <= n
      BY <1>0, <2>4, <3>2
    <3> QED
      BY <2>3, <3>1, <3>3
  <2>5. Upto(n + 1, k)
    <3> SUFFICES ASSUME NEW s \in SUBSET D, Cardinality(s) <= n + 1
                 PROVE  k[s] = Step(k, s)
      OBVIOUS
    <3> k[s] = Step(g, s)
      OBVIOUS
    <3> HIDE DEF k
    <3> QED
      BY <2>4
  <2> HIDE DEF k, Upto
  <2> QED
    BY <2>2, <2>5
<1>3. \A n \in Nat : n \in T
  <2> HIDE DEF T
  <2> QED
    BY <1>1, <1>2, SetInduction, Zenon
<1>4. PICK g \in [SUBSET D -> V] : Upto(Cardinality(D), g)
  <2> Cardinality(D) \in Nat
    BY FS_CardinalityType
  <2> QED
    BY <1>3
<1>5. \A s \in SUBSET D : Cardinality(s) <= Cardinality(D)
  BY FS_Subset
<1>6. g = [s \in SUBSET D |-> Step(g, s)]
  BY <1>4, <1>5
<1> QED
  BY <1>6 DEF Folds

\* The elements of a set of indices are taken out from the top.
LEMMA MaxOf == ASSUME NEW n \in Nat
               PROVE  /\ Max(1..n + 1) = n + 1 /\ (1..n + 1) \ {n + 1} = 1..n
                      /\ \A s \in SUBSET (1..n) : s # {} => Max(s) \in s
<1>1. Max(1..n + 1) = n + 1
  <2>1. n + 1 \in 1..n + 1 /\ \A y \in 1..n + 1 : n + 1 >= y
    OBVIOUS
  <2>2. Max(1..n + 1) \in 1..n + 1 /\ \A y \in 1..n + 1 : Max(1..n + 1) >= y
    BY <2>1, Zenon DEF Max
  <2> QED
    BY <2>1, <2>2
<1>2. (1..n + 1) \ {n + 1} = 1..n
  OBVIOUS
<1>3. \A m \in Nat : m \in {k \in Nat : \A s \in SUBSET (1..k) : s # {} => Max(s) \in s}
  <2> DEFINE T == {k \in Nat : \A s \in SUBSET (1..k) : s # {} => Max(s) \in s}
  <2>1. 0 \in T
    <3> \A s \in SUBSET (1..0) : s = {}
      OBVIOUS
    <3> QED
      OBVIOUS
  <2>2. \A k \in Nat : k \in T => k + 1 \in T
    <3> SUFFICES ASSUME NEW k \in Nat, NEW s \in SUBSET (1..k + 1), s # {},
                        \A r \in SUBSET (1..k) : r # {} => Max(r) \in r
                 PROVE  Max(s) \in s
      OBVIOUS
    <3>1. CASE k + 1 \in s
      <4>1. \A y \in s : k + 1 >= y
        OBVIOUS
      <4> QED
        BY <3>1, <4>1, Zenon DEF Max
    <3>2. CASE k + 1 \notin s
      <4>1. s \in SUBSET (1..k)
        BY <3>2
      <4> QED
        BY <4>1
    <3> QED
      BY <3>1, <3>2
  <2> HIDE DEF T
  <2>3. \A m \in Nat : m \in T
    BY <2>1, <2>2, SetInduction, Zenon
  <2> QED
    BY <2>3 DEF T
<1> QED
  BY <1>1, <1>2, <1>3

\* A fold over the indices 1 to n, which takes out the last one first: f has
\* the values of the fold over the first 0 to n of them.
FoldsInOrder(g, f, a, h, n) ==
  /\ g = [s \in SUBSET (1..n) |-> IF s = {} THEN a ELSE h[<<Max(s), g[s \ {Max(s)}]>>]]
  /\ f[0] = a /\ \A i \in 0..n - 1 : f[i + 1] = h[<<i + 1, f[i]>>]
  /\ g[1..n] = f[n]

\* It goes through them from the first to the last.
LEMMA FoldInOrder ==
  ASSUME NEW n \in Nat, NEW V, NEW a \in V, NEW h, Closed(h, 1..n, V)
  PROVE  \E g \in [SUBSET (1..n) -> V], f \in [0..n -> V] : FoldsInOrder(g, f, a, h, n)
<1> DEFINE pick == [s \in SUBSET (1..n) |-> Max(s)]
<1>1. \A s \in SUBSET (1..n) : s # {} => pick[s] \in s /\ pick[s] = Max(s)
  BY MaxOf
<1>2. IsFiniteSet(1..n)
  <2> 1 \in Int /\ n \in Int
    OBVIOUS
  <2> QED
    BY FS_Interval
<1> HIDE DEF pick
<1>3. PICK g \in [SUBSET (1..n) -> V] : Folds(g, a, h, pick, 1..n)
  BY <1>1, <1>2, FoldExists
<1>4. g = [s \in SUBSET (1..n) |-> IF s = {} THEN a ELSE h[<<pick[s], g[s \ {pick[s]}]>>]]
  BY <1>3 DEF Folds
<1>5. g = [s \in SUBSET (1..n) |-> IF s = {} THEN a ELSE h[<<Max(s), g[s \ {Max(s)}]>>]]
  <2>1. ASSUME NEW s \in SUBSET (1..n)
        PROVE  (IF s = {} THEN a ELSE h[<<pick[s], g[s \ {pick[s]}]>>])
                 = (IF s = {} THEN a ELSE h[<<Max(s), g[s \ {Max(s)}]>>])
    BY <1>1
  <2> QED
    BY <1>4, <2>1
<1> DEFINE f == [i \in 0..n |-> g[1..i]]
<1>6. f \in [0..n -> V]
  <2> \A i \in 0..n : (1..i) \in SUBSET (1..n)
    OBVIOUS
  <2> QED
    OBVIOUS
<1>7. f[0] = a
  <2>1. (1..0) = {} /\ 0 \in 0..n /\ {} \in SUBSET (1..n)
    OBVIOUS
  <2>2. g[{}] = a
    BY <1>5, <2>1
  <2> QED
    BY <2>1, <2>2
<1>8. ASSUME NEW i \in 0..n - 1 PROVE f[i + 1] = h[<<i + 1, f[i]>>]
  <2>1. i \in Nat /\ i \in 0..n /\ i + 1 \in 0..n /\ (1..i + 1) \in SUBSET (1..n) /\ (1..i + 1) # {}
    <3>1. i \in Nat /\ i \in 0..n /\ i + 1 \in 0..n /\ i + 1 <= n
      BY <1>8
    <3>2. 1 \in 1..i + 1 /\ \A k \in 1..i + 1 : k \in 1..n
      BY <3>1
    <3>3. (1..i + 1) \subseteq 1..n /\ (1..i + 1) # {}
      BY <3>2, Zenon
    <3> QED
      BY <3>1, <3>3, Zenon
  <2>2. Max(1..i + 1) = i + 1 /\ (1..i + 1) \ {i + 1} = 1..i
    BY <2>1, MaxOf
  <2>3. g[1..i + 1] = h[<<Max(1..i + 1), g[(1..i + 1) \ {Max(1..i + 1)}]>>]
    BY <1>5, <2>1, Zenon
  <2>4. g[1..i + 1] = h[<<i + 1, g[1..i]>>]
    BY <2>2, <2>3
  <2> QED
    BY <2>1, <2>4
<1>9. g[1..n] = f[n]
  OBVIOUS
<1> HIDE DEF f
<1> QED
  BY <1>5, <1>6, <1>7, <1>8, <1>9 DEF FoldsInOrder

\* Any other function of the subsets that is made in the same way.
LEMMA FoldIsOne ==
  ASSUME NEW n \in Nat, NEW x, NEW g, x[{}] = g[{}],
         \A s \in SUBSET (1..n) :
           s # {} => (x[s \ {Max(s)}] = g[s \ {Max(s)}] => x[s] = g[s])
  PROVE  x[1..n] = g[1..n]
<1> DEFINE P == {s \in SUBSET (1..n) : x[s] = g[s]}
           pick == [s \in SUBSET (1..n) |-> Max(s)]
<1>1. \A s \in SUBSET (1..n) : s # {} => pick[s] \in s /\ pick[s] = Max(s)
  BY MaxOf
<1>2. IsFiniteSet(1..n)
  <2> 1 \in Int /\ n \in Int
    OBVIOUS
  <2> QED
    BY FS_Interval
<1> HIDE DEF pick
<1>3. {} \in P
  OBVIOUS
<1>4. \A s \in SUBSET (1..n) : s # {} => pick[s] \in s /\ (s \ {pick[s]} \in P => s \in P)
  BY <1>1
<1>5. PicksInto(pick, P, 1..n)
  BY <1>4 DEF PicksInto
<1> HIDE DEF P
<1>6. (1..n) \in P
  BY <1>2, <1>3, <1>5, PickInduction
<1> QED
  BY <1>6 DEF P

-----------------------------------------------------------------------------
(* Sequences.                                                              *)

\* Sequences as functions, and back.
LEMMA IsSeq == ASSUME NEW n \in Nat, NEW S, NEW v \in [1..n -> S]
               PROVE  v \in Seq(S) /\ Len(v) = n
  OBVIOUS

\* A sequence is a function on its indices.
LEMMA IsFun == ASSUME NEW S, NEW v \in Seq(S)
               PROVE  Len(v) \in Nat /\ v \in [1..Len(v) -> S]
  OBVIOUS

\* A piece of a sequence.
LEMMA SubSeqIs ==
  ASSUME NEW S, NEW v \in Seq(S), NEW o \in Nat, NEW n \in Nat, o + n <= Len(v)
  PROVE  /\ SubSeq(v, o + 1, o + n) \in [1..n -> S]
         /\ \A i \in 1..n : SubSeq(v, o + 1, o + n)[i] = v[o + i]
<1> DEFINE w == SubSeq(v, o + 1, o + n)
<1>1. Len(v) \in Nat
  OBVIOUS
<1>2. w \in Seq(S) /\ Len(w) = n
  BY <1>1
<1>3. \A i \in 1..n : w[i] = v[o + i]
  BY <1>1
<1> HIDE DEF w
<1>4. w \in [1..n -> S]
  BY <1>2, IsFun
<1> QED
  BY <1>3, <1>4 DEF w

\* Sequences are equal if their elements are.
LEMMA SameSeq == ASSUME NEW n \in Nat, NEW S, NEW v \in [1..n -> S], NEW w \in [1..n -> S],
                        \A i \in 1..n : v[i] = w[i]
                 PROVE  v = w
  OBVIOUS

\* c holds the n elements of a from behind the o-th on.
Holds(c, o, a, n) == \A i \in 1..n : c[o + i] = a[i]

\* A part of a sequence holds what stands there.
LEMMA SubSeqHolds ==
  ASSUME NEW S, NEW v \in Seq(S), NEW o \in Nat, NEW n \in Nat, o + n <= Len(v)
  PROVE  /\ SubSeq(v, o + 1, o + n) \in [1..n -> S]
         /\ Holds(v, o, SubSeq(v, o + 1, o + n), n)
  BY SubSeqIs DEF Holds

\* One sequence after the other.
LEMMA Concat ==
  ASSUME NEW S, NEW n \in Nat, NEW m \in Nat, NEW a \in [1..n -> S], NEW b \in [1..m -> S]
  PROVE  /\ a \o b \in [1..n + m -> S]
         /\ Holds(a \o b, 0, a, n) /\ Holds(a \o b, n, b, m)
<1>1. a \in Seq(S) /\ b \in Seq(S) /\ Len(a) = n /\ Len(b) = m
  OBVIOUS
<1>2. a \o b \in Seq(S) /\ Len(a \o b) = n + m
  BY <1>1
<1>3. a \o b \in [1..n + m -> S]
  <2> DEFINE c == a \o b
  <2>1. c \in Seq(S) /\ Len(c) = n + m
    BY <1>2
  <2> HIDE DEF c
  <2> QED
    BY <2>1, IsFun DEF c
<1>4. \A i \in 1..n : (a \o b)[i] = a[i]
  BY <1>1
<1>5. \A i \in 1..m : (a \o b)[n + i] = b[i]
  BY <1>1
<1> QED
  BY <1>3, <1>4, <1>5 DEF Holds

\* A piece of the first of two sequences.
LEMMA FirstPart ==
  ASSUME NEW S, NEW k \in Nat, NEW m \in Nat, NEW a \in [1..k -> S], NEW x \in [1..m -> S],
         NEW o \in Nat, NEW n \in Nat, o + n <= k
  PROVE  SubSeq(a \o x, o + 1, o + n) = SubSeq(a, o + 1, o + n)
<1> DEFINE c == a \o x
<1>1. c \in [1..k + m -> S] /\ Holds(c, 0, a, k)
  BY Concat
<1> HIDE DEF c
<1>2. c \in Seq(S) /\ Len(c) = k + m /\ a \in Seq(S) /\ Len(a) = k
  <2> k + m \in Nat
    OBVIOUS
  <2> QED
    BY <1>1, IsSeq
<1>3. /\ SubSeq(c, o + 1, o + n) \in [1..n -> S]
      /\ Holds(c, o, SubSeq(c, o + 1, o + n), n)
  BY <1>2, SubSeqHolds
<1>4. /\ SubSeq(a, o + 1, o + n) \in [1..n -> S]
      /\ Holds(a, o, SubSeq(a, o + 1, o + n), n)
  BY <1>2, SubSeqHolds
<1>5. \A i \in 1..n : c[o + i] = a[o + i]
  BY <1>1 DEF Holds
<1>6. \A i \in 1..n : SubSeq(c, o + 1, o + n)[i] = SubSeq(a, o + 1, o + n)[i]
  BY <1>3, <1>4, <1>5 DEF Holds
<1> QED
  BY <1>3, <1>4, <1>6, SameSeq DEF c

\* From within the first part on.
LEMMA LastPart ==
  ASSUME NEW S, NEW k \in Nat, NEW m \in Nat, NEW a \in [1..k -> S], NEW x \in [1..m -> S],
         NEW o \in Nat, NEW n \in Nat, o + n = k
  PROVE  SubSeq(a \o x, o + 1, Len(a \o x)) = SubSeq(a, o + 1, o + n) \o x
<1> DEFINE c == a \o x
           d == SubSeq(a, o + 1, o + n)
           e == d \o x
<1>1. c \in [1..k + m -> S] /\ Holds(c, 0, a, k) /\ Holds(c, k, x, m)
  BY Concat
<1>2. a \in Seq(S) /\ Len(a) = k
  BY IsSeq
<1>3. d \in [1..n -> S] /\ Holds(a, o, d, n)
  BY <1>2, SubSeqHolds
<1> HIDE DEF c, d
<1>4. e \in [1..n + m -> S] /\ Holds(e, 0, d, n) /\ Holds(e, n, x, m)
  BY <1>3, Concat
<1> HIDE DEF e
<1>5. c \in Seq(S) /\ Len(c) = k + m
  <2> k + m \in Nat
    OBVIOUS
  <2> QED
    BY <1>1, IsSeq
<1>6. PICK l \in Nat : l = n + m /\ o + l = k + m
  OBVIOUS
<1>7. /\ SubSeq(c, o + 1, o + l) \in [1..l -> S]
      /\ Holds(c, o, SubSeq(c, o + 1, o + l), l)
  BY <1>5, <1>6, SubSeqHolds
<1>8. \A i \in 1..l : c[o + i] = e[i]
  <2> TAKE i \in 1..l
  <2>1. CASE i <= n
    BY <1>1, <1>3, <1>4, <2>1 DEF Holds
  <2>2. CASE i > n
    <3>1. PICK j \in 1..m : i = n + j /\ o + i = k + j
      BY <1>6, <2>2
    <3> QED
      BY <1>1, <1>4, <3>1 DEF Holds
  <2> QED
    BY <2>1, <2>2
<1>9. SubSeq(c, o + 1, o + l) = e
  <2> \A i \in 1..l : SubSeq(c, o + 1, o + l)[i] = e[i]
    BY <1>7, <1>8 DEF Holds
  <2> QED
    BY <1>4, <1>6, <1>7, SameSeq
<1> QED
  BY <1>5, <1>6, <1>9 DEF c, d, e

\* Two pieces next to each other.
LEMMA TwoParts ==
  ASSUME NEW S, NEW k \in Nat, NEW a \in [1..k -> S],
         NEW o \in Nat, NEW n \in Nat, NEW m \in Nat, o + n + m <= k
  PROVE  SubSeq(a, o + 1, o + n) \o SubSeq(a, (o + n) + 1, (o + n) + m)
           = SubSeq(a, o + 1, o + (n + m))
<1> DEFINE d == SubSeq(a, o + 1, o + n)
           e == SubSeq(a, (o + n) + 1, (o + n) + m)
           f == SubSeq(a, o + 1, o + (n + m))
           g == d \o e
<1>1. a \in Seq(S) /\ Len(a) = k
  BY IsSeq
<1>2. d \in [1..n -> S] /\ Holds(a, o, d, n)
  BY <1>1, SubSeqHolds
<1>3. e \in [1..m -> S] /\ Holds(a, o + n, e, m)
  <2> o + n \in Nat
    OBVIOUS
  <2> QED
    BY <1>1, SubSeqHolds
<1>4. f \in [1..n + m -> S] /\ Holds(a, o, f, n + m)
  <2> n + m \in Nat /\ o + (n + m) <= k
    OBVIOUS
  <2> QED
    BY <1>1, SubSeqHolds
<1> HIDE DEF d, e, f
<1>5. g \in [1..n + m -> S] /\ Holds(g, 0, d, n) /\ Holds(g, n, e, m)
  BY <1>2, <1>3, Concat
<1> HIDE DEF g
<1>6. \A i \in 1..n + m : g[i] = f[i]
  <2> TAKE i \in 1..n + m
  <2>1. CASE i <= n
    BY <1>2, <1>4, <1>5, <2>1 DEF Holds
  <2>2. CASE i > n
    <3>1. PICK j \in 1..m : i = n + j /\ o + i = (o + n) + j
      BY <2>2
    <3> QED
      BY <1>3, <1>4, <1>5, <3>1 DEF Holds
  <2> QED
    BY <2>1, <2>2
<1>7. g = f
  <2> n + m \in Nat
    OBVIOUS
  <2> QED
    BY <1>4, <1>5, <1>6, SameSeq
<1> QED
  BY <1>7 DEF g, d, e, f

\* s is d, the other way around.
Reversed(s, d, n) == \A i \in 1..n : s[i] = d[n - i + 1]

\* A reversed sequence.
LEMMA ReverseAt ==
  ASSUME NEW n \in Nat, NEW S, NEW d \in [1..n -> S]
  PROVE  Reverse(d) \in [1..n -> S] /\ Reversed(Reverse(d), d, n)
<1>1. Len(d) = n
  OBVIOUS
<1> QED
  BY <1>1 DEF Reverse, Reversed

-----------------------------------------------------------------------------
(* Sums.  They are taken over functions; the sums of FiniteSetsExt add the *)
(* values at the elements in an order of CHOOSE's own.                     *)

Total(F, S) == MapThenSumSet(LAMBDA x : F[x], S)

Pick(s) == CHOOSE x \in s : TRUE

\* g gives the sum of F over every subset of D, as FiniteSetsExt adds it up.
Adds(g, F, D) ==
  g = [s \in SUBSET D |-> IF s = {} THEN 0 ELSE F[Pick(s)] + g[s \ {Pick(s)}]]

\* The choice from a set is in it.
LEMMA PickIn == \A s : s # {} => Pick(s) \in s
  BY DEF Pick

\* Sums exist.
LEMMA AddsExists ==
  ASSUME NEW D, IsFiniteSet(D), NEW F, \A x \in D : F[x] \in Int
  PROVE  \E g \in [SUBSET D -> Int] : Adds(g, F, D)
<1> DEFINE pick == [s \in SUBSET D |-> Pick(s)]
           h == [p \in D \X Int |-> F[p[1]] + p[2]]
<1>1. \A x \in D : \A v \in Int : h[<<x, v>>] = F[x] + v
  OBVIOUS
<1>2. \A s \in SUBSET D : s # {} => pick[s] \in s /\ pick[s] = Pick(s)
  BY PickIn
<1> HIDE DEF h, pick
<1>3. Closed(h, D, Int)
  <2> SUFFICES ASSUME NEW x \in D, NEW v \in Int PROVE h[<<x, v>>] \in Int
    BY DEF Closed
  <2>1. F[x] \in Int /\ F[x] + v \in Int
    OBVIOUS
  <2> QED
    BY <1>1, <2>1, Zenon
<1>4. PICK g \in [SUBSET D -> Int] : Folds(g, 0, h, pick, D)
  <2> 0 \in Int
    OBVIOUS
  <2> QED
    BY <1>2, <1>3, FoldExists
<1>5. ASSUME NEW s \in SUBSET D, s # {}
      PROVE  h[<<pick[s], g[s \ {pick[s]}]>>] = F[Pick(s)] + g[s \ {Pick(s)}]
  <2>1. pick[s] = Pick(s) /\ Pick(s) \in D /\ s \ {Pick(s)} \in SUBSET D
    BY <1>2, <1>5
  <2>2. g[s \ {Pick(s)}] \in Int
    BY <2>1
  <2> QED
    BY <1>1, <2>1, <2>2
<1>6. g = [s \in SUBSET D |-> IF s = {} THEN 0 ELSE F[Pick(s)] + g[s \ {Pick(s)}]]
  BY <1>4, <1>5 DEF Folds
<1> QED
  BY <1>6 DEF Adds

\* Any element may be the one that is added last.
AnyLast(g, F, D) == \A s \in SUBSET D : \A x \in s : g[s] = F[x] + g[s \ {x}]

\* Whichever element is added last, the sum is the same.
LEMMA AddsMember ==
  ASSUME NEW D, IsFiniteSet(D), NEW F, \A x \in D : F[x] \in Int,
         NEW g \in [SUBSET D -> Int], Adds(g, F, D)
  PROVE  AnyLast(g, F, D)
<1> DEFINE Every(s) == \A x \in s : g[s] = F[x] + g[s \ {x}]
           T == {n \in Nat : \A s \in SUBSET D : Cardinality(s) = n => Every(s)}
<1>0. \A s \in SUBSET D : g[s] = IF s = {} THEN 0 ELSE F[Pick(s)] + g[s \ {Pick(s)}]
  BY DEF Adds
<1>1. 0 \in T
  BY FS_EmptySet, FS_Subset
<1>2. \A n \in Nat : n \in T => n + 1 \in T
  <2> SUFFICES ASSUME NEW n \in Nat,
                      \A s \in SUBSET D : Cardinality(s) = n => Every(s),
                      NEW s \in SUBSET D, Cardinality(s) = n + 1
               PROVE  Every(s)
    <3> HIDE DEF Every
    <3> QED
      OBVIOUS
  <2> SUFFICES ASSUME NEW x \in s
               PROVE  g[s] = F[x] + g[s \ {x}]
    OBVIOUS
  <2> DEFINE p == Pick(s)
  <2>1. p \in s /\ IsFiniteSet(s)
    BY PickIn, FS_Subset
  <2>2. g[s] = F[p] + g[s \ {p}]
    BY <1>0, <2>1
  <2>3. CASE x = p
    BY <2>2, <2>3
  <2>4. CASE x # p
    <3> HIDE DEF p
    <3>1. /\ s \ {p} \in SUBSET D /\ s \ {x} \in SUBSET D
          /\ x \in s \ {p} /\ p \in s \ {x}
          /\ (s \ {p}) \ {x} \in SUBSET D
          /\ (s \ {p}) \ {x} = (s \ {x}) \ {p}
      BY <2>1, <2>4
    <3>2. Cardinality(s \ {p}) = Cardinality(s) - 1 /\ Cardinality(s \ {x}) = Cardinality(s) - 1
      BY <2>1, OneLess
    <3>3. Cardinality(s \ {p}) = n /\ Cardinality(s \ {x}) = n
      BY <3>2
    <3>4. g[s \ {p}] = F[x] + g[(s \ {p}) \ {x}]
      BY <3>1, <3>3
    <3>5. g[s \ {x}] = F[p] + g[(s \ {x}) \ {p}]
      BY <3>1, <3>3
    <3>6. F[x] \in Int /\ F[p] \in Int /\ g[(s \ {p}) \ {x}] \in Int
      BY <2>1, <3>1
    <3>7. \A a, b, c \in Int : a + (b + c) = b + (a + c)
      OBVIOUS
    <3>8. g[s] = F[p] + (F[x] + g[(s \ {p}) \ {x}]) 
      BY <2>2, <3>4
    <3>9. F[x] + g[s \ {x}] = F[x] + (F[p] + g[(s \ {p}) \ {x}])
      BY <3>1, <3>5
    <3> QED
      BY <3>6, <3>7, <3>8, <3>9, Zenon
  <2> QED
    BY <2>3, <2>4
<1>3. \A n \in Nat : n \in T
  <2> HIDE DEF T
  <2> QED
    BY <1>1, <1>2, SetInduction, Zenon
<1>4. ASSUME NEW s \in SUBSET D PROVE Every(s)
  <2> Cardinality(s) \in Nat
    BY FS_Subset, FS_CardinalityType
  <2> QED
    BY <1>3
<1> QED
  BY <1>4 DEF AnyLast

\* A total is what any such function gives, over whatever larger set it is one.
LEMMA TotalIs ==
  ASSUME NEW D, IsFiniteSet(D), NEW F, \A x \in D : F[x] \in Int,
         NEW g, Adds(g, F, D), NEW S \in SUBSET D
  PROVE  Total(F, S) = g[S]
<1> DEFINE iter[s \in SUBSET S] ==
             IF s = {} THEN 0
             ELSE LET x == CHOOSE x \in s : TRUE IN F[x] + iter[s \ {x}]
<1>1. Total(F, S) = iter[S]
  BY DEF Total, MapThenSumSet, MapThenFoldSet
<1>2. IsFiniteSet(S) /\ \A x \in S : F[x] \in Int
  BY FS_Subset
<1>3. \E k \in [SUBSET S -> Int] : Adds(k, F, S)
  BY <1>2, AddsExists
<1>4. iter = [s \in SUBSET S |->
                IF s = {} THEN 0
                ELSE LET x == CHOOSE x \in s : TRUE IN F[x] + iter[s \ {x}]]
  <2>1. \E k : k = [s \in SUBSET S |->
                     IF s = {} THEN 0
                     ELSE LET x == CHOOSE x \in s : TRUE IN F[x] + k[s \ {x}]]
    <3>1. PICK k : Adds(k, F, S)
      BY <1>3
    <3>2. k = [s \in SUBSET S |->
                 IF s = {} THEN 0
                 ELSE LET x == CHOOSE x \in s : TRUE IN F[x] + k[s \ {x}]]
      BY <3>1, Zenon DEF Adds, Pick
    <3> QED
      BY <3>2, Zenon
  <2> QED
    BY <2>1, Zenon
<1> HIDE DEF iter
<1> DEFINE P == {s \in SUBSET S : iter[s] = g[s]}
<1>5. \A s \in SUBSET D : g[s] = IF s = {} THEN 0 ELSE F[Pick(s)] + g[s \ {Pick(s)}]
  BY DEF Adds
<1>6. \A s \in SUBSET S : iter[s] = IF s = {} THEN 0 ELSE F[Pick(s)] + iter[s \ {Pick(s)}]
  BY <1>4 DEF Pick
<1> DEFINE T == {n \in Nat : \A s \in SUBSET S : Cardinality(s) = n => iter[s] = g[s]}
<1>7. 0 \in T
  BY <1>2, <1>5, <1>6, FS_EmptySet, FS_Subset
<1>8. \A n \in Nat : n \in T => n + 1 \in T
  <2> SUFFICES ASSUME NEW n \in Nat, n \in T,
                      NEW s \in SUBSET S, Cardinality(s) = n + 1
               PROVE  iter[s] = g[s]
    OBVIOUS
  <2>1. IsFiniteSet(s)
    BY <1>2, FS_Subset
  <2>2. s # {}
    BY <2>1, FS_EmptySet
  <2>3. Pick(s) \in s /\ s \ {Pick(s)} \in SUBSET S
    BY <2>2, PickIn
  <2>4. Cardinality(s \ {Pick(s)}) = Cardinality(s) - 1
    BY <2>1, <2>3, OneLess
  <2>5. Cardinality(s \ {Pick(s)}) = n
    BY <2>4
  <2>6. iter[s \ {Pick(s)}] = g[s \ {Pick(s)}]
    BY <2>3, <2>5
  <2> QED
    BY <1>5, <1>6, <2>2, <2>6
<1>9. \A n \in Nat : n \in T
  <2> HIDE DEF T
  <2> QED
    BY <1>7, <1>8, SetInduction, Zenon
<1>10. Cardinality(S) \in Nat
  BY <1>2, FS_CardinalityType
<1> QED
  BY <1>1, <1>9, <1>10

\* What the proofs use of sums.
LEMMA TotalEmpty == ASSUME NEW F PROVE Total(F, {}) = 0
<1>1. IsFiniteSet({}) /\ \A x \in {} : F[x] \in Int
  BY FS_EmptySet
<1>2. PICK g \in [SUBSET {} -> Int] : Adds(g, F, {})
  BY <1>1, AddsExists
<1>3. Total(F, {}) = g[{}]
  BY <1>1, <1>2, TotalIs
<1>4. g[{}] = 0
  BY <1>2 DEF Adds
<1> QED
  BY <1>3, <1>4

\* Sums of integers are integers.
LEMMA TotalInt ==
  ASSUME NEW S, IsFiniteSet(S), NEW F, \A x \in S : F[x] \in Int
  PROVE  Total(F, S) \in Int
<1>1. PICK g \in [SUBSET S -> Int] : Adds(g, F, S)
  BY AddsExists
<1>2. Total(F, S) = g[S]
  BY <1>1, TotalIs
<1> QED
  BY <1>2

\* One element less.
LEMMA TotalMember ==
  ASSUME NEW S, IsFiniteSet(S), NEW F, \A x \in S : F[x] \in Int, NEW x \in S
  PROVE  Total(F, S) = F[x] + Total(F, S \ {x})
<1>1. PICK g \in [SUBSET S -> Int] : Adds(g, F, S)
  BY AddsExists
<1>2. Total(F, S) = g[S] /\ Total(F, S \ {x}) = g[S \ {x}]
  BY <1>1, TotalIs
<1>3. AnyLast(g, F, S)
  BY <1>1, AddsMember
<1> QED
  BY <1>2, <1>3 DEF AnyLast

\* One element more.
LEMMA TotalAdd ==
  ASSUME NEW S, IsFiniteSet(S), NEW F, NEW x, x \notin S, \A y \in S \cup {x} : F[y] \in Int
  PROVE  Total(F, S \cup {x}) = F[x] + Total(F, S)
<1>1. IsFiniteSet(S \cup {x}) /\ x \in S \cup {x} /\ (S \cup {x}) \ {x} = S
  BY FS_AddElement
<1> QED
  BY <1>1, TotalMember

\* Only the values at the elements count.
LEMMA TotalSame ==
  ASSUME NEW S, IsFiniteSet(S), NEW F, NEW G, \A x \in S : F[x] \in Int /\ G[x] = F[x]
  PROVE  Total(G, S) = Total(F, S)
<1> DEFINE P == {s \in SUBSET S : Total(G, s) = Total(F, s)}
<1>1. {} \in P
  BY TotalEmpty
<1>2. \A s \in SUBSET S : \A x \in S \ s : s \in P => s \cup {x} \in P
  <2> SUFFICES ASSUME NEW s \in SUBSET S, NEW x \in S \ s, Total(G, s) = Total(F, s)
               PROVE  Total(G, s \cup {x}) = Total(F, s \cup {x})
    OBVIOUS
  <2>1. IsFiniteSet(s) /\ x \notin s /\ \A y \in s \cup {x} : F[y] \in Int /\ G[y] \in Int
    BY FS_Subset
  <2>2. Total(F, s \cup {x}) = F[x] + Total(F, s)
    BY <2>1, TotalAdd
  <2>3. Total(G, s \cup {x}) = G[x] + Total(G, s)
    BY <2>1, TotalAdd
  <2> QED
    BY <2>2, <2>3
<1> HIDE DEF P
<1>3. S \in P
  BY <1>1, <1>2, SubsetInduction
<1> QED
  BY <1>3 DEF P

ChangedAt(F, G, S, x, d) ==
  /\ \A y \in S : F[y] \in Int
  /\ \A y \in S : G[y] = IF y = x THEN F[y] + d ELSE F[y]

\* The sum changes by as much as the one value that changes.
LEMMA TotalChange ==
  ASSUME NEW S, IsFiniteSet(S), NEW F, NEW G, NEW x \in S, NEW d \in Int,
         ChangedAt(F, G, S, x, d)
  PROVE  Total(G, S) = Total(F, S) + d
<1> USE DEF ChangedAt
<1>1. IsFiniteSet(S \ {x})
  BY OneLess
<1>2. Total(G, S \ {x}) = Total(F, S \ {x}) /\ Total(F, S \ {x}) \in Int
  BY <1>1, TotalSame, TotalInt
<1>3. \A y \in S : G[y] \in Int
  OBVIOUS
<1>4. Total(F, S) = F[x] + Total(F, S \ {x}) /\ Total(G, S) = G[x] + Total(G, S \ {x})
  BY <1>3, TotalMember
<1> QED
  BY <1>2, <1>4

\* What leaves F for a subset of the elements is the sum of F over it.
LEMMA TotalSplit ==
  ASSUME NEW S, IsFiniteSet(S), NEW F, \A x \in S : F[x] \in Int, NEW R \in SUBSET S
  PROVE  Total(F, S) = Total(F, R) + Total([x \in S |-> IF x \in R THEN 0 ELSE F[x]], S)
<1> DEFINE G(r) == [x \in S |-> IF x \in r THEN 0 ELSE F[x]]
           P == {r \in SUBSET S : Total(F, S) = Total(F, r) + Total(G(r), S)}
<1>1. {} \in P
  <2>1. Total(G({}), S) = Total(F, S)
    BY TotalSame
  <2> QED
    BY <2>1, TotalEmpty, TotalInt
<1>2. \A r \in SUBSET S : \A x \in S \ r : r \in P => r \cup {x} \in P
  <2> SUFFICES ASSUME NEW r \in SUBSET S, NEW x \in S \ r,
                      Total(F, S) = Total(F, r) + Total(G(r), S)
               PROVE  Total(F, S) = Total(F, r \cup {x}) + Total(G(r \cup {x}), S)
    OBVIOUS
  <2>1. IsFiniteSet(r) /\ x \notin r /\ \A y \in r \cup {x} : F[y] \in Int
    BY FS_Subset
  <2>2. Total(F, r \cup {x}) = F[x] + Total(F, r)
    BY <2>1, TotalAdd
  <2> DEFINE A == G(r)
             B == G(r \cup {x})
             d == -F[x]
  <2>3. x \in S /\ d \in Int /\ \A y \in S : A[y] \in Int
    BY <2>1
  <2>6. ChangedAt(A, B, S, x, d)
    BY <2>1, <2>3 DEF ChangedAt
  <2>4. Total(A, S) \in Int /\ Total(F, r) \in Int
    BY <2>1, <2>3, TotalInt
  <2>5. Total(B, S) = Total(A, S) + d
    <3> HIDE DEF A, B, d
    <3> QED
      BY <2>3, <2>6, TotalChange
  <2> QED
    BY <2>2, <2>4, <2>5
<1> HIDE DEF P
<1>3. R \in P
  BY <1>1, <1>2, SubsetInduction
<1> QED
  BY <1>3 DEF P

\* Zeroes add up to nothing.
LEMMA TotalZero ==
  ASSUME NEW S, IsFiniteSet(S), NEW F, \A x \in S : F[x] = 0
  PROVE  Total(F, S) = 0
<1> DEFINE P == {s \in SUBSET S : Total(F, s) = 0}
<1>1. {} \in P
  BY TotalEmpty
<1>2. \A s \in SUBSET S : \A x \in S \ s : s \in P => s \cup {x} \in P
  <2> SUFFICES ASSUME NEW s \in SUBSET S, NEW x \in S \ s, Total(F, s) = 0
               PROVE  Total(F, s \cup {x}) = 0
    OBVIOUS
  <2>1. IsFiniteSet(s) /\ x \notin s /\ \A y \in s \cup {x} : F[y] \in Int
    BY FS_Subset
  <2>2. Total(F, s \cup {x}) = F[x] + Total(F, s)
    BY <2>1, TotalAdd
  <2> QED
    BY <2>2
<1> HIDE DEF P
<1>3. S \in P
  BY <1>1, <1>2, SubsetInduction
<1> QED
  BY <1>3 DEF P

\* Sums of natural numbers are natural.
LEMMA TotalNat ==
  ASSUME NEW S, IsFiniteSet(S), NEW F, \A x \in S : F[x] \in Nat
  PROVE  Total(F, S) \in Nat
<1> DEFINE P == {s \in SUBSET S : Total(F, s) \in Nat}
<1>1. {} \in P
  BY TotalEmpty
<1>2. \A s \in SUBSET S : \A x \in S \ s : s \in P => s \cup {x} \in P
  <2> SUFFICES ASSUME NEW s \in SUBSET S, NEW x \in S \ s, Total(F, s) \in Nat
               PROVE  Total(F, s \cup {x}) \in Nat
    OBVIOUS
  <2>1. IsFiniteSet(s) /\ x \notin s /\ \A y \in s \cup {x} : F[y] \in Int
    BY FS_Subset
  <2> QED
    BY <2>1, TotalAdd
<1> HIDE DEF P
<1>3. S \in P
  BY <1>1, <1>2, SubsetInduction
<1> QED
  BY <1>3 DEF P

-----------------------------------------------------------------------------
(* Sequences of sequences.                                                 *)

\* f joins the first sequences of q.
Joins(f, q) == f[0] = <<>> /\ \A i \in 0..Len(q) - 1 : f[i + 1] = f[i] \o q[i + 1]

\* FlattenSeq joins one sequence after the other.
LEMMA FlattenIs ==
  ASSUME NEW S, NEW q \in Seq(Seq(S))
  PROVE  \E f \in [0..Len(q) -> Seq(S)] : Joins(f, q) /\ FlattenSeq(q) = f[Len(q)]
<1> DEFINE n == Len(q)
           h == [p \in (0..n - 1) \X Seq(S) |-> p[2] \o q[p[1] + 1]]
<1>0. n \in Nat /\ \A i \in 1..n : q[i] \in Seq(S)
  OBVIOUS
<1>1. \A i \in 0..n - 1 : \A v \in Seq(S) : h[<<i, v>>] = v \o q[i + 1] /\ v \o q[i + 1] \in Seq(S)
  <2> SUFFICES ASSUME NEW i \in 0..n - 1, NEW v \in Seq(S)
               PROVE  h[<<i, v>>] = v \o q[i + 1] /\ v \o q[i + 1] \in Seq(S)
    OBVIOUS
  <2>1. <<i, v>> \in (0..n - 1) \X Seq(S) /\ <<i, v>>[1] = i /\ <<i, v>>[2] = v
    OBVIOUS
  <2>2. h[<<i, v>>] = v \o q[i + 1]
    BY <2>1, Zenon
  <2>3. i + 1 \in 1..n
    BY <1>0
  <2>4. q[i + 1] \in Seq(S)
    BY <1>0, <2>3
  <2>5. v \o q[i + 1] \in Seq(S)
    BY <2>4
  <2> QED
    BY <2>2, <2>5
<1> HIDE DEF h
<1>2. Closed(h, 0..n - 1, Seq(S))
  BY <1>1 DEF Closed
<1>3. PICK f \in [0..n -> Seq(S)] : CountsUp(f, <<>>, h, n)
  <2>1. <<>> \in Seq(S)
    OBVIOUS
  <2> HIDE DEF n
  <2> QED
    BY <1>0, <1>2, <2>1, Recursion
<1>4. Joins(f, q)
  <2>1. ASSUME NEW i \in 0..n - 1 PROVE f[i + 1] = f[i] \o q[i + 1]
    <3>1. i \in 0..n
      BY <1>0
    <3>2. f[i] \in Seq(S)
      BY <1>3, <3>1
    <3>3. f[i + 1] = h[<<i, f[i]>>]
      BY <1>3, Zenon DEF CountsUp
    <3> QED
      BY <1>1, <3>2, <3>3, Zenon
  <2>2. f[0] = <<>>
    BY <1>3, Zenon DEF CountsUp
  <2> QED
    BY <2>1, <2>2, Zenon DEF Joins
<1>5. FlattenSeq(q) = f[n]
  <2>1. CASE n = 0
    <3>1. q = <<>>
      BY <2>1
    <3>2. FlattenSeq(q) = q
      BY <2>1, Zenon DEF FlattenSeq
    <3> QED
      BY <1>4, <2>1, <3>1, <3>2 DEF Joins
  <2>2. CASE n # 0
    <3> DEFINE Is(x) == x = [i \in 1..n |-> IF i = 1 THEN q[i] ELSE x[i - 1] \o q[i]]
               g == [i \in 1..n |-> f[i]]
               flatten == CHOOSE k : Is(k)
    <3>1. ASSUME NEW i \in 1..n PROVE f[i] = IF i = 1 THEN q[i] ELSE g[i - 1] \o q[i]
      <4>1. i - 1 \in 0..n - 1 /\ (i - 1) + 1 = i
        BY <1>0
      <4>2. f[i] = f[i - 1] \o q[i]
        BY <1>4, <4>1 DEF Joins
      <4>3. CASE i = 1
        <5>1. f[i] = <<>> \o q[1] /\ q[1] \in Seq(S)
          BY <1>0, <1>4, <2>2, <4>2, <4>3 DEF Joins
        <5> QED
          BY <4>3, <5>1
      <4>4. CASE i # 1
        <5>1. i - 1 \in 1..n
          BY <4>1, <4>4
        <5> QED
          BY <4>2, <4>4, <5>1
      <4> QED
        BY <4>3, <4>4
    <3>2. Is(g)
      BY <3>1
    <3>3. Is(flatten)
      <4> HIDE DEF Is, g
      <4> QED
        BY <3>2, Zenon
    <3>4. FlattenSeq(q) = flatten[n]
      BY <2>2, Zenon DEF FlattenSeq
    <3> HIDE DEF flatten
    <3> DEFINE T == {i \in Nat : i + 1 <= n => flatten[i + 1] = f[i + 1]}
    <3>5. 0 \in T
      <4>1. 1 \in 1..n
        BY <1>0, <2>2
      <4>2. flatten[1] = q[1] /\ f[1] = q[1]
        BY <3>1, <3>3, <4>1
      <4> QED
        BY <4>2
    <3>6. \A i \in Nat : i \in T => i + 1 \in T
      <4> SUFFICES ASSUME NEW i \in Nat, i \in T, (i + 1) + 1 <= n
                   PROVE  flatten[(i + 1) + 1] = f[(i + 1) + 1]
        OBVIOUS
      <4> DEFINE j == (i + 1) + 1
      <4>1. j \in 1..n /\ j # 1 /\ j - 1 = i + 1 /\ i + 1 \in 1..n /\ i + 1 <= n
        BY <1>0
      <4>2. flatten[i + 1] = f[i + 1]
        BY <4>1
      <4> HIDE DEF j
      <4>3. flatten[j] = flatten[j - 1] \o q[j]
        BY <3>3, <4>1
      <4>4. f[j] = f[j - 1] \o q[j]
        BY <3>1, <4>1
      <4> QED
        BY <4>1, <4>2, <4>3, <4>4 DEF j
    <3>7. \A i \in Nat : i \in T
      <4> HIDE DEF T
      <4> QED
        BY <3>5, <3>6, SetInduction, Zenon
    <3>8. PICK m \in Nat : m + 1 = n
      <4>1. n - 1 \in Nat /\ (n - 1) + 1 = n
        BY <1>0, <2>2
      <4> QED
        BY <4>1
    <3>9. m + 1 <= n
      BY <1>0, <3>8
    <3>10. flatten[m + 1] = f[m + 1]
      BY <3>7, <3>9
    <3> QED
      BY <3>4, <3>8, <3>10
  <2> QED
    BY <2>1, <2>2
<1> QED
  BY <1>4, <1>5

\* The first n sequences of both are the same.
Alike(q, r, n) ==
  /\ Len(q) \in Nat /\ Len(r) \in Nat /\ n <= Len(q) /\ n <= Len(r)
  /\ \A i \in 1..n : q[i] = r[i]

\* Two ways to join sequences that begin alike begin alike.
LEMMA JoinsAgree ==
  ASSUME NEW q, NEW r, NEW n \in Nat, Alike(q, r, n), NEW f, NEW g, Joins(f, q), Joins(g, r)
  PROVE  f[n] = g[n]
<1> DEFINE T == {i \in Nat : i <= n => f[i] = g[i]}
<1>1. 0 \in T
  BY DEF Joins
<1>2. \A i \in Nat : i \in T => i + 1 \in T
  <2> SUFFICES ASSUME NEW i \in Nat, i + 1 <= n, f[i] = g[i] PROVE f[i + 1] = g[i + 1]
    OBVIOUS
  <2>1. i \in 0..Len(q) - 1 /\ i \in 0..Len(r) - 1 /\ i + 1 \in 1..n
    BY DEF Alike
  <2>2. q[i + 1] = r[i + 1]
    BY <2>1 DEF Alike
  <2>3. f[i + 1] = f[i] \o q[i + 1] /\ g[i + 1] = g[i] \o r[i + 1]
    BY <2>1 DEF Joins
  <2> QED
    BY <2>2, <2>3
<1> HIDE DEF T
<1>3. \A i \in Nat : i \in T
  BY <1>1, <1>2, SetInduction, Zenon
<1> QED
  BY <1>3 DEF T

\* One more sequence.
LEMMA FlattenAppend ==
  ASSUME NEW S, NEW q \in Seq(Seq(S)), NEW x \in Seq(S)
  PROVE  FlattenSeq(Append(q, x)) = FlattenSeq(q) \o x /\ FlattenSeq(q) \in Seq(S)
<1> DEFINE r == Append(q, x)
           n == Len(q)
<1>1. r \in Seq(Seq(S)) /\ n \in Nat /\ Len(r) = n + 1 /\ r[n + 1] = x
      /\ \A i \in 1..n : r[i] = q[i]
  OBVIOUS
<1>2. PICK f \in [0..n -> Seq(S)] : Joins(f, q) /\ FlattenSeq(q) = f[n]
  BY FlattenIs
<1> HIDE DEF r
<1>3. PICK g \in [0..n + 1 -> Seq(S)] : Joins(g, r) /\ FlattenSeq(r) = g[n + 1]
  <2>1. PICK g \in [0..Len(r) -> Seq(S)] : Joins(g, r) /\ FlattenSeq(r) = g[Len(r)]
    BY <1>1, FlattenIs
  <2> QED
    BY <1>1, <2>1
<1>5. f[n] = g[n]
  <2>1. n \in Nat /\ Len(q) \in Nat /\ Len(r) \in Nat /\ n <= Len(q) /\ n <= Len(r)
    BY <1>1
  <2>2. Joins(f, q) /\ Joins(g, r)
    BY <1>2, <1>3
  <2>3. PICK k \in Nat : k = n
    BY <2>1
  <2>4. k \in Nat /\ Alike(q, r, k)
    BY <1>1, <2>1, <2>3 DEF Alike
  <2>5. f[k] = g[k]
    BY <2>2, <2>4, JoinsAgree
  <2> QED
    BY <2>3, <2>5
<1>6. g[n + 1] = g[n] \o x
  <2>1. n \in 0..Len(r) - 1
    BY <1>1
  <2> QED
    BY <1>1, <1>3, <2>1 DEF Joins
<1>7. f[n] \in Seq(S)
  <2>1. n \in 0..n
    BY <1>1
  <2> HIDE DEF n
  <2> QED
    BY <1>2, <2>1
<1> QED
  BY <1>2, <1>3, <1>5, <1>6, <1>7 DEF r

=============================================================================
