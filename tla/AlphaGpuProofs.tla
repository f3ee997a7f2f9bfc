--------------------------- MODULE AlphaGpuProofs ---------------------------
(***************************************************************************)
(* Proofs about the GPU of the Alphanumeric engine.                        *)
(*                                                                         *)
(* First the hash of its lanes (AlphaBlake3), for every choice of nonces.  *)
(* A node of the graph means a whole computation, down to the words it     *)
(* starts from (Mean), and different nodes mean different ones, so two     *)
(* paths that mean the same end in the same node (TermsDiffer).  What the  *)
(* sixteen registers mean is then a value: a mix of the code does PMix of  *)
(* it (MixShows), a round PRound.  Of these values it is shown that the    *)
(* diagonals of a round commute (RoundInParts), that the schedule written  *)
(* out by hand is what permute makes (RoundIsRound), and that the nonce    *)
(* does not reach the mixes of the job (NonceFree).  BlakeInv says that    *)
(* the registers of both sides mean what the rounds they have done make of *)
(* the two blocks of the header.                                           *)
(*                                                                         *)
(* Then the comparison of a hash with a target, on both sides, for words   *)
(* and hashes of any size (VerdictInv).                                    *)
(*                                                                         *)
(* Then AlphaGpuContext, for any set of callers and any faults: the device *)
(* copy of the job generation never goes back and ends up at the           *)
(* generation the next launch carries.                                     *)
(***************************************************************************)
EXTENDS AlphaGpuContext, AlphaBlake3, DataLemmas, TLAPS

-----------------------------------------------------------------------------
(* Terms and what they mean.                                               *)

\* The terms over the nodes of a set, by what is done to them.
Words    == {Word(p[1], p[2], p[3], p[4]) : p \in Int \X Int \X Int \X Int}
SumsOf(D)  == {<<"sum", p[1], p[2], p[3]>> : p \in D \X D \X D}
AddsOf(D)  == {<<"add", p[1], p[2]>> : p \in D \X D}
TurnsOf(D) == {<<"rotr xor", p[1], p[2], p[3]>> : p \in D \X D \X Int}
XorsOf(D)  == {<<"xor", p[1], p[2]>> : p \in D \X D}
Term(D)  == Words \cup SumsOf(D) \cup AddsOf(D) \cup TurnsOf(D) \cup XorsOf(D)

\* What a term means when its nodes mean what val says: the whole computation,
\* down to the words it starts from.
Mean(val, t) ==
  CASE t[1] = "word" -> t
    [] t[1] = "sum" -> <<"sum", val[t[2]], val[t[3]], val[t[4]]>>
    [] t[1] = "add" -> <<"add", val[t[2]], val[t[3]]>>
    [] t[1] = "rotr xor" -> <<"rotr xor", val[t[2]], val[t[3]], t[4]>>
    [] OTHER -> <<"xor", val[t[2]], val[t[3]]>>

\* The terms and their parts.
LEMMA WordKind ==
  /\ \A a, b, c, d \in Int : Word(a, b, c, d) \in Words
  /\ \A t \in Words : t[1] = "word" /\ \A val : Mean(val, t) = t
<1>1. ASSUME NEW a \in Int, NEW b \in Int, NEW c \in Int, NEW d \in Int
      PROVE  Word(a, b, c, d) \in Words
  <2>1. PICK p \in Int \X Int \X Int \X Int : p[1] = a /\ p[2] = b /\ p[3] = c /\ p[4] = d
    <3> <<a, b, c, d>> \in Int \X Int \X Int \X Int
      OBVIOUS
    <3> QED
      OBVIOUS
  <2>2. Word(a, b, c, d) = Word(p[1], p[2], p[3], p[4])
    BY <2>1
  <2> QED
    BY <2>2, Zenon DEF Words
<1>2. ASSUME NEW t \in Words PROVE t[1] = "word" /\ \A val : Mean(val, t) = t
  <2>1. PICK p \in Int \X Int \X Int \X Int : t = Word(p[1], p[2], p[3], p[4])
    BY Zenon DEF Words
  <2>2. t[1] = "word"
    BY <2>1 DEF Word
  <2> QED
    BY <2>2 DEF Mean
<1> QED
  BY <1>1, <1>2

\* A sum is of three nodes.
LEMMA SumKind ==
  ASSUME NEW D
  PROVE  /\ \A x, y, m \in D : <<"sum", x, y, m>> \in SumsOf(D)
         /\ \A t \in SumsOf(D) : /\ t[2] \in D /\ t[3] \in D /\ t[4] \in D
                               /\ t = <<"sum", t[2], t[3], t[4]>>
         /\ \A val, x, y, m : Mean(val, <<"sum", x, y, m>>) = <<"sum", val[x], val[y], val[m]>>
<1>1. ASSUME NEW x \in D, NEW y \in D, NEW m \in D PROVE <<"sum", x, y, m>> \in SumsOf(D)
  <2> <<x, y, m>> \in D \X D \X D
    OBVIOUS
  <2> QED
    BY DEF SumsOf
<1>2. ASSUME NEW t \in SumsOf(D)
      PROVE  t[2] \in D /\ t[3] \in D /\ t[4] \in D /\ t = <<"sum", t[2], t[3], t[4]>>
  BY DEF SumsOf
<1>3. ASSUME NEW val, NEW x, NEW y, NEW m
      PROVE  Mean(val, <<"sum", x, y, m>>) = <<"sum", val[x], val[y], val[m]>>
  <2> DEFINE t == <<"sum", x, y, m>>
  <2>1. t[1] = "sum" /\ t[2] = x /\ t[3] = y /\ t[4] = m
    OBVIOUS
  <2> HIDE DEF t
  <2> QED
    BY <2>1 DEF Mean, t
<1> QED
  BY <1>1, <1>2, <1>3

\* An addition is of two.
LEMMA AddKind ==
  ASSUME NEW D
  PROVE  /\ \A x, y \in D : <<"add", x, y>> \in AddsOf(D)
         /\ \A t \in AddsOf(D) : t[2] \in D /\ t[3] \in D /\ t = <<"add", t[2], t[3]>>
         /\ \A val, x, y : Mean(val, <<"add", x, y>>) = <<"add", val[x], val[y]>>
<1>1. ASSUME NEW x \in D, NEW y \in D PROVE <<"add", x, y>> \in AddsOf(D)
  <2> <<x, y>> \in D \X D
    OBVIOUS
  <2> QED
    BY DEF AddsOf
<1>2. ASSUME NEW t \in AddsOf(D)
      PROVE  t[2] \in D /\ t[3] \in D /\ t = <<"add", t[2], t[3]>>
  BY DEF AddsOf
<1>3. ASSUME NEW val, NEW x, NEW y
      PROVE  Mean(val, <<"add", x, y>>) = <<"add", val[x], val[y]>>
  <2> DEFINE t == <<"add", x, y>>
  <2>1. t[1] = "add" /\ t[2] = x /\ t[3] = y
    OBVIOUS
  <2> HIDE DEF t
  <2> QED
    BY <2>1 DEF Mean, t
<1> QED
  BY <1>1, <1>2, <1>3

\* So is an exclusive or.
LEMMA XorKind ==
  ASSUME NEW D
  PROVE  /\ \A x, y \in D : <<"xor", x, y>> \in XorsOf(D)
         /\ \A t \in XorsOf(D) : t[2] \in D /\ t[3] \in D /\ t = <<"xor", t[2], t[3]>>
         /\ \A val, x, y : Mean(val, <<"xor", x, y>>) = <<"xor", val[x], val[y]>>
<1>1. ASSUME NEW x \in D, NEW y \in D PROVE <<"xor", x, y>> \in XorsOf(D)
  <2> <<x, y>> \in D \X D
    OBVIOUS
  <2> QED
    BY DEF XorsOf
<1>2. ASSUME NEW t \in XorsOf(D)
      PROVE  t[2] \in D /\ t[3] \in D /\ t = <<"xor", t[2], t[3]>>
  BY DEF XorsOf
<1>3. ASSUME NEW val, NEW x, NEW y
      PROVE  Mean(val, <<"xor", x, y>>) = <<"xor", val[x], val[y]>>
  <2> DEFINE t == <<"xor", x, y>>
  <2>1. t[1] = "xor" /\ t[2] = x /\ t[3] = y
    OBVIOUS
  <2> HIDE DEF t
  <2> QED
    BY <2>1 DEF Mean, t
<1> QED
  BY <1>1, <1>2, <1>3

\* A rotation is of two nodes and by a number.
LEMMA TurnKind ==
  ASSUME NEW D
  PROVE  /\ \A x, y \in D, n \in Int : <<"rotr xor", x, y, n>> \in TurnsOf(D)
         /\ \A t \in TurnsOf(D) : /\ t[2] \in D /\ t[3] \in D /\ t[4] \in Int
                                /\ t = <<"rotr xor", t[2], t[3], t[4]>>
         /\ \A val, x, y, n : Mean(val, <<"rotr xor", x, y, n>>) = <<"rotr xor", val[x], val[y], n>>
<1>1. ASSUME NEW x \in D, NEW y \in D, NEW n \in Int PROVE <<"rotr xor", x, y, n>> \in TurnsOf(D)
  <2> <<x, y, n>> \in D \X D \X Int
    OBVIOUS
  <2> QED
    BY DEF TurnsOf
<1>2. ASSUME NEW t \in TurnsOf(D)
      PROVE  /\ t[2] \in D /\ t[3] \in D /\ t[4] \in Int
             /\ t = <<"rotr xor", t[2], t[3], t[4]>>
  <2>1. PICK p \in D \X D \X Int : t = <<"rotr xor", p[1], p[2], p[3]>>
    BY Zenon DEF TurnsOf
  <2>2. p[1] \in D /\ p[2] \in D /\ p[3] \in Int
    BY Zenon
  <2>3. t[2] = p[1] /\ t[3] = p[2] /\ t[4] = p[3]
    BY <2>1
  <2> QED
    BY <2>1, <2>2, <2>3, Zenon
<1>3. ASSUME NEW val, NEW x, NEW y, NEW n
      PROVE  Mean(val, <<"rotr xor", x, y, n>>) = <<"rotr xor", val[x], val[y], n>>
  <2> DEFINE t == <<"rotr xor", x, y, n>>
  <2>1. t[1] = "rotr xor" /\ t[2] = x /\ t[3] = y /\ t[4] = n
    OBVIOUS
  <2> HIDE DEF t
  <2> QED
    BY <2>1 DEF Mean, t
<1> QED
  BY <1>1, <1>2, <1>3

\* The operation can be read from a term and from what it means.
LEMMA KindOf ==
  ASSUME NEW D, NEW t \in Term(D), NEW val
  PROVE  /\ Mean(val, t)[1] = t[1]
         /\ t[1] \in {"word", "sum", "add", "rotr xor", "xor"}
         /\ t[1] = "word" => t \in Words
         /\ t[1] = "sum" => t \in SumsOf(D)
         /\ t[1] = "add" => t \in AddsOf(D)
         /\ t[1] = "rotr xor" => t \in TurnsOf(D)
         /\ t[1] = "xor" => t \in XorsOf(D)
<1>1. CASE t \in Words
  BY <1>1, WordKind
<1>2. CASE t \in SumsOf(D)
  <2>1. t = <<"sum", t[2], t[3], t[4]>>
    BY <1>2, SumKind
  <2>2. t[1] = "sum"
    BY <2>1
  <2>3. Mean(val, t) = <<"sum", val[t[2]], val[t[3]], val[t[4]]>>
    BY <2>2 DEF Mean
  <2> QED
    BY <1>2, <2>2, <2>3
<1>3. CASE t \in AddsOf(D)
  <2>1. t = <<"add", t[2], t[3]>>
    BY <1>3, AddKind
  <2>2. t[1] = "add"
    BY <2>1
  <2>3. Mean(val, t) = <<"add", val[t[2]], val[t[3]]>>
    BY <2>2 DEF Mean
  <2> QED
    BY <1>3, <2>2, <2>3
<1>4. CASE t \in TurnsOf(D)
  <2>1. PICK p \in D \X D \X Int : t = <<"rotr xor", p[1], p[2], p[3]>>
    BY <1>4, Zenon DEF TurnsOf
  <2>2. t[1] = "rotr xor"
    BY <2>1
  <2>3. Mean(val, t) = <<"rotr xor", val[t[2]], val[t[3]], t[4]>>
    BY <2>2 DEF Mean
  <2>4. PICK x, y, n : x = val[t[2]] /\ y = val[t[3]] /\ n = t[4]
    OBVIOUS
  <2>5. Mean(val, t) = <<"rotr xor", x, y, n>>
    BY <2>3, <2>4, Zenon
  <2>6. <<"rotr xor", x, y, n>>[1] = "rotr xor"
    OBVIOUS
  <2>7. Mean(val, t)[1] = "rotr xor"
    BY <2>5, <2>6, Zenon
  <2> QED
    BY <1>4, <2>2, <2>7, Zenon
<1>5. CASE t \in XorsOf(D)
  <2>1. t = <<"xor", t[2], t[3]>>
    BY <1>5, XorKind
  <2>2. t[1] = "xor"
    BY <2>1
  <2>3. Mean(val, t) = <<"xor", val[t[2]], val[t[3]]>>
    BY <2>2 DEF Mean
  <2> QED
    BY <1>5, <2>2, <2>3
<1> QED
  BY <1>1, <1>2, <1>3, <1>4, <1>5 DEF Term

\* When different nodes mean different computations, so do different terms.
Different(val, D) == \A i, j \in D : val[i] = val[j] => i = j

\* Then terms that mean the same are the same.
LEMMA TermsDiffer ==
  ASSUME NEW D, NEW val, Different(val, D), NEW t \in Term(D), NEW u \in Term(D),
         Mean(val, t) = Mean(val, u)
  PROVE  t = u
<1>1. t[1] = u[1]
  <2>1. ASSUME NEW r \in Term(D) PROVE Mean(val, r)[1] = r[1]
    BY KindOf
  <2>2. Mean(val, t)[1] = t[1]
    BY <2>1
  <2>3. Mean(val, u)[1] = u[1]
    BY <2>1
  <2> QED
    BY <2>2, <2>3
<1>2. CASE t[1] = "word"
  <2>1. t \in Words /\ u \in Words
    BY <1>1, <1>2, KindOf
  <2>2. Mean(val, t) = t /\ Mean(val, u) = u
    BY <2>1, WordKind
  <2> QED
    BY <2>2
<1>3. CASE t[1] = "sum"
  <2>1. t \in SumsOf(D) /\ u \in SumsOf(D)
    BY <1>1, <1>3, KindOf
  <2>2. <<"sum", val[t[2]], val[t[3]], val[t[4]]>> = <<"sum", val[u[2]], val[u[3]], val[u[4]]>>
    BY <1>1, <1>3 DEF Mean
  <2>3. val[t[2]] = val[u[2]] /\ val[t[3]] = val[u[3]] /\ val[t[4]] = val[u[4]]
    BY <2>2
  <2>4. t[2] = u[2] /\ t[3] = u[3] /\ t[4] = u[4]
    BY <2>1, <2>3, SumKind DEF Different
  <2> QED
    BY <2>1, <2>4, SumKind
<1>4. CASE t[1] = "add"
  <2>1. t \in AddsOf(D) /\ u \in AddsOf(D)
    BY <1>1, <1>4, KindOf
  <2>2. <<"add", val[t[2]], val[t[3]]>> = <<"add", val[u[2]], val[u[3]]>>
    BY <1>1, <1>4 DEF Mean
  <2>3. val[t[2]] = val[u[2]] /\ val[t[3]] = val[u[3]]
    BY <2>2
  <2>4. t[2] = u[2] /\ t[3] = u[3]
    BY <2>1, <2>3, AddKind DEF Different
  <2> QED
    BY <2>1, <2>4, AddKind
<1>5. CASE t[1] = "rotr xor"
  <2>1. t \in TurnsOf(D) /\ u \in TurnsOf(D)
    BY <1>1, <1>5, KindOf
  <2>2. <<"rotr xor", val[t[2]], val[t[3]], t[4]>> = <<"rotr xor", val[u[2]], val[u[3]], u[4]>>
    BY <1>1, <1>5 DEF Mean
  <2>3. val[t[2]] = val[u[2]] /\ val[t[3]] = val[u[3]] /\ t[4] = u[4]
    BY <2>2
  <2>4. t[2] = u[2] /\ t[3] = u[3]
    BY <2>1, <2>3, TurnKind DEF Different
  <2>5. t = <<"rotr xor", t[2], t[3], t[4]>> /\ u = <<"rotr xor", u[2], u[3], u[4]>>
    BY <2>1, TurnKind, Zenon
  <2> QED
    BY <2>3, <2>4, <2>5, Zenon
<1>6. CASE t[1] = "xor"
  <2>1. t \in XorsOf(D) /\ u \in XorsOf(D)
    BY <1>1, <1>6, KindOf
  <2>2. <<"xor", val[t[2]], val[t[3]]>> = <<"xor", val[u[2]], val[u[3]]>>
    BY <1>1, <1>6 DEF Mean
  <2>3. val[t[2]] = val[u[2]] /\ val[t[3]] = val[u[3]]
    BY <2>2
  <2>4. t[2] = u[2] /\ t[3] = u[3]
    BY <2>1, <2>3, XorKind DEF Different
  <2> QED
    BY <2>1, <2>4, XorKind
<1> QED
  BY <1>1, <1>2, <1>3, <1>4, <1>5, <1>6, KindOf

-----------------------------------------------------------------------------
(* Graphs that grow.                                                       *)

\* val says what the nodes of a graph mean, and no two mean the same.
Means(gr, val) ==
  /\ gr \in Seq(Term(Nat))
  /\ \A i \in 1..Len(gr) : gr[i] \in Term(1..Len(gr)) /\ val[i] = Mean(val, gr[i])
  /\ Different(val, 1..Len(gr))

\* A later graph, in which the nodes there were are as they were.
Grows(gr, val, gr2, val2) ==
  /\ Means(gr2, val2) /\ Len(gr) <= Len(gr2)
  /\ \A i \in 1..Len(gr) : gr2[i] = gr[i] /\ val2[i] = val[i]

\* A term has its node in a graph, which means x.
Stands(gr, val, t, x) ==
  /\ Node(gr, t) \in 1..Len(gr) /\ gr[Node(gr, t)] = t
  /\ val[Node(gr, t)] = x

\* A graph with one more term.
Put(gr, t) == IF \E i \in DOMAIN gr : gr[i] = t THEN gr ELSE Append(gr, t)

\* Two meanings of the same nodes.
Agree(v, w, D) == \A i \in D : v[i] = w[i]

\* A term means what the nodes it names mean.
LEMMA SameMean ==
  ASSUME NEW D, NEW E, D \subseteq E, NEW t \in Term(D), NEW v, NEW w,
         Agree(v, w, D)
  PROVE  t \in Term(E) /\ Mean(v, t) = Mean(w, t)
<1> USE DEF Agree
<1>1. CASE t \in Words
  <2> Mean(v, t) = t /\ Mean(w, t) = t
    BY <1>1, WordKind
  <2> QED
    BY <1>1 DEF Term
<1>2. CASE t \in SumsOf(D)
  <2>1. /\ t[2] \in D /\ t[3] \in D /\ t[4] \in D /\ t = <<"sum", t[2], t[3], t[4]>>
    BY <1>2, SumKind
  <2>2. t[2] \in E /\ t[3] \in E /\ t[4] \in E
    BY <2>1
  <2>3. t \in SumsOf(E)
    <3> <<"sum", t[2], t[3], t[4]>> \in SumsOf(E)
      BY <2>2, SumKind
    <3> QED
      BY <2>1, Zenon
  <2>4. t[1] = "sum"
    BY <2>1
  <2>5. /\ Mean(v, t) = <<"sum", v[t[2]], v[t[3]], v[t[4]]>>
        /\ Mean(w, t) = <<"sum", w[t[2]], w[t[3]], w[t[4]]>>
    BY <2>4 DEF Mean
  <2>6. v[t[2]] = w[t[2]] /\ v[t[3]] = w[t[3]] /\ v[t[4]] = w[t[4]]
    BY <2>1
  <2> QED
    BY <2>3, <2>5, <2>6, Zenon DEF Term
<1>3. CASE t \in AddsOf(D)
  <2>1. /\ t[2] \in D /\ t[3] \in D /\ t = <<"add", t[2], t[3]>>
    BY <1>3, AddKind
  <2>2. t[2] \in E /\ t[3] \in E
    BY <2>1
  <2>3. t \in AddsOf(E)
    <3> <<"add", t[2], t[3]>> \in AddsOf(E)
      BY <2>2, AddKind
    <3> QED
      BY <2>1, Zenon
  <2>4. t[1] = "add"
    BY <2>1
  <2>5. Mean(v, t) = <<"add", v[t[2]], v[t[3]]>> /\ Mean(w, t) = <<"add", w[t[2]], w[t[3]]>>
    BY <2>4 DEF Mean
  <2>6. v[t[2]] = w[t[2]] /\ v[t[3]] = w[t[3]]
    BY <2>1
  <2> QED
    BY <2>3, <2>5, <2>6, Zenon DEF Term
<1>4. CASE t \in TurnsOf(D)
  <2>1. /\ t[2] \in D /\ t[3] \in D /\ t[4] \in Int /\ t = <<"rotr xor", t[2], t[3], t[4]>>
    BY <1>4, TurnKind, Zenon
  <2>2. t[2] \in E /\ t[3] \in E
    BY <2>1, Zenon
  <2>3. t \in TurnsOf(E)
    BY <2>1, <2>2, TurnKind, Zenon
  <2>4. t[1] = "rotr xor"
    <3>1. t \in Term(D)
      OBVIOUS
    <3>2. t[1] = "rotr xor" \/ t \notin TurnsOf(D)
      <4>1. PICK x, y, n : x = t[2] /\ y = t[3] /\ n = t[4]
        OBVIOUS
      <4>2. t = <<"rotr xor", x, y, n>>
        BY <2>1, <4>1, Zenon
      <4>3. <<"rotr xor", x, y, n>>[1] = "rotr xor"
        OBVIOUS
      <4> QED
        BY <4>2, <4>3, Zenon
    <3> QED
      BY <1>4, <3>2
  <2>5. /\ Mean(v, t) = <<"rotr xor", v[t[2]], v[t[3]], t[4]>>
        /\ Mean(w, t) = <<"rotr xor", w[t[2]], w[t[3]], t[4]>>
    BY <2>4 DEF Mean
  <2>6. v[t[2]] = w[t[2]] /\ v[t[3]] = w[t[3]]
    BY <2>1, Zenon
  <2> QED
    BY <2>3, <2>5, <2>6, Zenon DEF Term
<1>5. CASE t \in XorsOf(D)
  <2>1. /\ t[2] \in D /\ t[3] \in D /\ t = <<"xor", t[2], t[3]>>
    BY <1>5, XorKind
  <2>2. t[2] \in E /\ t[3] \in E
    BY <2>1
  <2>3. t \in XorsOf(E)
    <3> <<"xor", t[2], t[3]>> \in XorsOf(E)
      BY <2>2, XorKind
    <3> QED
      BY <2>1, Zenon
  <2>4. t[1] = "xor"
    BY <2>1
  <2>5. Mean(v, t) = <<"xor", v[t[2]], v[t[3]]>> /\ Mean(w, t) = <<"xor", w[t[2]], w[t[3]]>>
    BY <2>4 DEF Mean
  <2>6. v[t[2]] = w[t[2]] /\ v[t[3]] = w[t[3]]
    BY <2>1
  <2> QED
    BY <2>3, <2>5, <2>6, Zenon DEF Term
<1> QED
  BY <1>1, <1>2, <1>3, <1>4, <1>5 DEF Term

\* Growing further, and not growing.
LEMMA GrowsOn ==
  ASSUME NEW gr, NEW val, NEW gr1, NEW val1, NEW gr2, NEW val2, gr \in Seq(Term(Nat)),
         Grows(gr, val, gr1, val1), Grows(gr1, val1, gr2, val2)
  PROVE  Grows(gr, val, gr2, val2)
<1>1. /\ Len(gr) <= Len(gr1) /\ Len(gr1) <= Len(gr2) /\ Means(gr2, val2)
      /\ Len(gr) \in Nat /\ Len(gr1) \in Nat /\ Len(gr2) \in Nat
  BY DEF Grows, Means
<1>2. \A i \in 1..Len(gr) : i \in 1..Len(gr1)
  BY <1>1
<1>3. \A i \in 1..Len(gr) : gr2[i] = gr[i] /\ val2[i] = val[i]
  BY <1>2, Zenon DEF Grows
<1> QED
  BY <1>1, <1>3 DEF Grows

\* A graph that stays as it is has grown by nothing.
LEMMA GrowsNot == ASSUME NEW gr, NEW val, Means(gr, val) PROVE Grows(gr, val, gr, val)
<1> Len(gr) \in Nat
  BY DEF Means
<1> QED
  BY DEF Grows

\* The node of a term is the one there is.
LEMMA NodeIs ==
  ASSUME NEW gr, NEW val, Means(gr, val), NEW i \in 1..Len(gr), NEW t, gr[i] = t
  PROVE  Stands(gr, val, t, val[i]) /\ Node(gr, t) = i
<1>1. DOMAIN gr = 1..Len(gr)
  BY DEF Means
<1>2. Node(gr, t) \in 1..Len(gr) /\ gr[Node(gr, t)] = t
  BY <1>1, Zenon DEF Node
<1>3. val[Node(gr, t)] = Mean(val, t) /\ val[i] = Mean(val, t)
  BY <1>2 DEF Means
<1>4. Node(gr, t) = i
  BY <1>2, <1>3 DEF Means, Different
<1> QED
  BY <1>2, <1>4 DEF Stands

\* A term that stands goes on to do so.
LEMMA StandsOn ==
  ASSUME NEW gr, NEW val, NEW gr2, NEW val2, Means(gr, val), Grows(gr, val, gr2, val2),
         NEW t, NEW x, Stands(gr, val, t, x)
  PROVE  Stands(gr2, val2, t, x)
<1> DEFINE i == Node(gr, t)
<1>1. i \in 1..Len(gr) /\ gr[i] = t /\ val[i] = x
  BY DEF Stands
<1> HIDE DEF i
<1>2. Len(gr) \in Nat /\ Len(gr2) \in Nat /\ Len(gr) <= Len(gr2)
  BY DEF Grows, Means
<1>3. i \in 1..Len(gr2) /\ gr2[i] = t /\ val2[i] = x
  BY <1>1, <1>2 DEF Grows
<1> QED
  BY <1>3, NodeIs DEF Grows

\* One more term, unless there is a node for it.
LEMMA PutGrows ==
  ASSUME NEW gr, NEW val, Means(gr, val), NEW t \in Term(1..Len(gr))
  PROVE  \E val2 : Grows(gr, val, Put(gr, t), val2) /\ Stands(Put(gr, t), val2, t, Mean(val, t))
<1>1. /\ gr \in Seq(Term(Nat)) /\ Len(gr) \in Nat /\ DOMAIN gr = 1..Len(gr)
      /\ \A i \in 1..Len(gr) : gr[i] \in Term(1..Len(gr)) /\ val[i] = Mean(val, gr[i])
      /\ Different(val, 1..Len(gr))
  BY DEF Means
<1>2. CASE \E i \in DOMAIN gr : gr[i] = t
  <2>1. PICK i \in 1..Len(gr) : gr[i] = t
    BY <1>1, <1>2
  <2>2. Put(gr, t) = gr
    BY <1>2 DEF Put
  <2>3. Stands(gr, val, t, Mean(val, t))
    BY <1>1, <2>1, NodeIs
  <2> QED
    BY <2>2, <2>3, GrowsNot
<1>3. CASE ~ \E i \in DOMAIN gr : gr[i] = t
  <2> DEFINE n == Len(gr)
             gr2 == Append(gr, t)
             val2 == [i \in 1..n + 1 |-> IF i <= n THEN val[i] ELSE Mean(val, t)]
  <2>1. Put(gr, t) = gr2
    BY <1>3 DEF Put
  <2>2. 1..n \subseteq Nat /\ 1..n \subseteq 1..n + 1
    BY <1>1
  <2>3. t \in Term(Nat)
    BY <2>2, SameMean DEF Agree
  <2>4. /\ gr2 \in Seq(Term(Nat)) /\ Len(gr2) = n + 1
        /\ gr2[n + 1] = t /\ \A i \in 1..n : gr2[i] = gr[i]
    BY <1>1, <2>3
  <2>5. val2[n + 1] = Mean(val, t) /\ \A i \in 1..n : val2[i] = val[i]
    BY <1>1
  <2> HIDE DEF gr2, val2
  <2>6. ASSUME NEW r \in Term(1..n) PROVE r \in Term(1..n + 1) /\ Mean(val, r) = Mean(val2, r)
    <3>1. \A i \in 1..n : val[i] = val2[i]
      BY <2>5
    <3> PICK D, E : D = 1..n /\ E = 1..n + 1
      OBVIOUS
    <3>2. D \subseteq E /\ r \in Term(D) /\ Agree(val, val2, D)
      BY <2>2, <3>1 DEF Agree
    <3>3. r \in Term(E) /\ Mean(val, r) = Mean(val2, r)
      BY <3>2, SameMean
    <3> QED
      BY <3>3
  <2>7. ASSUME NEW i \in 1..n + 1
        PROVE  gr2[i] \in Term(1..n + 1) /\ val2[i] = Mean(val2, gr2[i])
    <3>1. CASE i \in 1..n
      <4>1. gr2[i] = gr[i] /\ val2[i] = val[i] /\ gr[i] \in Term(1..n) /\ val[i] = Mean(val, gr[i])
        BY <1>1, <2>4, <2>5, <3>1
      <4> QED
        BY <2>6, <4>1
    <3>2. CASE i = n + 1
      BY <2>4, <2>5, <2>6, <3>2
    <3> QED
      BY <1>1, <3>1, <3>2
  <2>8. ASSUME NEW i \in 1..n PROVE val[i] # Mean(val, t)
    <3>1. gr[i] \in Term(1..n) /\ val[i] = Mean(val, gr[i]) /\ gr[i] # t
      BY <1>1, <1>3
    <3> QED
      BY <1>1, <3>1, TermsDiffer
  <2>9. Different(val2, 1..n + 1)
    <3> SUFFICES ASSUME NEW i \in 1..n + 1, NEW j \in 1..n + 1, val2[i] = val2[j]
                 PROVE  i = j
      BY DEF Different
    <3>1. (i \in 1..n \/ i = n + 1) /\ (j \in 1..n \/ j = n + 1)
      BY <1>1
    <3> QED
      BY <1>1, <2>5, <2>8, <3>1 DEF Different
  <2>10. Means(gr2, val2)
    BY <2>4, <2>7, <2>9 DEF Means
  <2>11. Grows(gr, val, gr2, val2)
    BY <1>1, <2>4, <2>5, <2>10 DEF Grows
  <2>12. Stands(gr2, val2, t, Mean(val, t))
    <3> n + 1 \in 1..Len(gr2)
      BY <1>1, <2>4
    <3> QED
      BY <2>4, <2>5, <2>10, NodeIs
  <2> QED
    BY <2>1, <2>11, <2>12
<1> QED
  BY <1>2, <1>3

\* So does what a term means.
LEMMA TermGrows ==
  ASSUME NEW gr, NEW val, NEW gr2, NEW val2, Means(gr, val), Grows(gr, val, gr2, val2),
         NEW t \in Term(1..Len(gr))
  PROVE  t \in Term(1..Len(gr2)) /\ Mean(val2, t) = Mean(val, t)
<1>1. Len(gr) <= Len(gr2) /\ Len(gr) \in Nat /\ Len(gr2) \in Nat
  BY DEF Grows, Means
<1>2. PICK D, E : D = 1..Len(gr) /\ E = 1..Len(gr2)
  OBVIOUS
<1>3. D \subseteq E /\ t \in Term(D) /\ Agree(val2, val, D)
  BY <1>1, <1>2 DEF Grows, Agree
<1>4. t \in Term(E) /\ Mean(val2, t) = Mean(val, t)
  BY <1>3, SameMean
<1> QED
  BY <1>2, <1>4

-----------------------------------------------------------------------------
(* Registers, and the four steps of a mix.                                 *)

\* Sixteen registers and the graph their nodes are in.
Registers == 0..15
State == [graph : Seq(Term(Nat)), v : [1..16 -> Nat]]

\* The registers mean p.
Shows(s, val, p) ==
  /\ s \in State /\ Means(s.graph, val)
  /\ \A i \in 1..16 : s.v[i] \in 1..Len(s.graph) /\ val[s.v[i]] = p[i]

\* From a state to one whose registers mean p.
Leads(s, val, s2, p) ==
  \E val2 : Grows(s.graph, val, s2.graph, val2) /\ Shows(s2, val2, p)

\* A register that takes a value.
Set(p, x, u) == [i \in 1..16 |-> IF i = x + 1 THEN u ELSE p[i]]

\* Assign puts the term into the graph and its node into one register.
LEMMA AssignIs ==
  ASSUME NEW s \in State, NEW x \in Registers, NEW t \in Term(Nat)
  PROVE  /\ Assign(s, x, t) \in State
         /\ Assign(s, x, t).graph = Put(s.graph, t)
         /\ Assign(s, x, t).v[x + 1] = Node(Put(s.graph, t), t)
         /\ \A i \in 1..16 : i # x + 1 => Assign(s, x, t).v[i] = s.v[i]
<1>1. /\ s.graph \in Seq(Term(Nat)) /\ s.v \in [1..16 -> Nat] /\ Len(s.graph) \in Nat
      /\ DOMAIN s.graph = 1..Len(s.graph) /\ x + 1 \in 1..16
  BY DEF State, Registers
<1>2. CASE \E i \in DOMAIN s.graph : s.graph[i] = t
  <2>1. Assign(s, x, t) = [s EXCEPT !.v[x + 1] = Node(s.graph, t)] /\ Put(s.graph, t) = s.graph
    BY <1>2 DEF Assign, Put
  <2>2. Node(s.graph, t) \in DOMAIN s.graph
    BY <1>2, Zenon DEF Node
  <2>3. Node(s.graph, t) \in Nat
    BY <1>1, <2>2
  <2> PICK i : i = Node(s.graph, t)
    OBVIOUS
  <2> DEFINE w == [s.v EXCEPT ![x + 1] = i]
  <2>4. Assign(s, x, t) = [graph |-> s.graph, v |-> w] /\ i \in Nat
    BY <2>1, <2>3 DEF State
  <2>5. w \in [1..16 -> Nat] /\ w[x + 1] = i /\ \A k \in 1..16 : k # x + 1 => w[k] = s.v[k]
    BY <1>1, <2>4
  <2> HIDE DEF w
  <2> QED
    <3>1. [graph |-> s.graph, v |-> w] \in State
      BY <1>1, <2>5 DEF State
    <3>2. Assign(s, x, t).graph = s.graph /\ Assign(s, x, t).v = w
      BY <2>4
    <3> QED
      BY <2>1, <2>4, <2>5, <3>1, <3>2
<1>3. CASE ~ \E i \in DOMAIN s.graph : s.graph[i] = t
  <2> DEFINE n == Len(s.graph) + 1
             gr == Append(s.graph, t)
             w == [s.v EXCEPT ![x + 1] = n]
  <2>1. /\ Assign(s, x, t) = [graph |-> gr, v |-> w]
        /\ Put(s.graph, t) = gr
    BY <1>3 DEF Assign, Put, State
  <2>2. /\ gr \in Seq(Term(Nat)) /\ Len(gr) = n /\ gr[n] = t /\ n \in Nat
        /\ \A i \in 1..Len(s.graph) : gr[i] = s.graph[i]
    <3> PICK S, h : S = Term(Nat) /\ h = s.graph
      OBVIOUS
    <3> h \in Seq(S) /\ t \in S
      BY <1>1
    <3> QED
      OBVIOUS
  <2>4. w \in [1..16 -> Nat] /\ w[x + 1] = n /\ \A k \in 1..16 : k # x + 1 => w[k] = s.v[k]
    <3> n \in Nat
      BY <1>1
    <3> HIDE DEF n
    <3> QED
      BY <1>1
  <2>3. Node(gr, t) = n
    <3>1. DOMAIN gr = 1..n
      BY <2>2
    <3> HIDE DEF gr, n
    <3>2. n \in DOMAIN gr
      BY <1>1, <3>1 DEF n
    <3>3. Node(gr, t) \in DOMAIN gr /\ gr[Node(gr, t)] = t
      BY <2>2, <3>2, Zenon DEF Node
    <3>4. Node(gr, t) \notin DOMAIN s.graph
      BY <1>1, <1>3, <2>2, <3>3
    <3> QED
      BY <1>1, <3>1, <3>3, <3>4 DEF n
  <2> HIDE DEF gr, n, w
  <2> QED
    BY <1>1, <2>1, <2>2, <2>3, <2>4 DEF State
<1> QED
  BY <1>2, <1>3

\* After Assign that register means what the term means.
LEMMA AssignShows ==
  ASSUME NEW s, NEW val, NEW p, Shows(s, val, p), NEW x \in Registers,
         NEW t \in Term(1..Len(s.graph)), NEW u, u = Mean(val, t)
  PROVE  Leads(s, val, Assign(s, x, t), Set(p, x, u))
<1>1. s \in State /\ Means(s.graph, val)
  BY DEF Shows
<1>2. t \in Term(Nat)
  <2>1. 1..Len(s.graph) \subseteq Nat
    OBVIOUS
  <2> QED
    BY <2>1, SameMean DEF Agree
<1> DEFINE r == Assign(s, x, t)
<1>3. /\ r \in State /\ r.graph = Put(s.graph, t) /\ r.v[x + 1] = Node(r.graph, t)
      /\ \A i \in 1..16 : i # x + 1 => r.v[i] = s.v[i]
  BY <1>1, <1>2, AssignIs
<1> HIDE DEF r
<1>4. PICK val2 : Grows(s.graph, val, r.graph, val2) /\ Stands(r.graph, val2, t, u)
  BY <1>1, <1>3, PutGrows
<1>5. ASSUME NEW i \in 1..16
      PROVE  r.v[i] \in 1..Len(r.graph) /\ val2[r.v[i]] = Set(p, x, u)[i]
  <2>1. CASE i = x + 1
    <3> Set(p, x, u)[i] = u
      BY <2>1 DEF Set
    <3> QED
      BY <1>3, <1>4, <2>1 DEF Stands
  <2>2. CASE i # x + 1
    <3>1. Set(p, x, u)[i] = p[i] /\ r.v[i] = s.v[i]
      BY <1>3, <2>2 DEF Set
    <3>2. s.v[i] \in 1..Len(s.graph) /\ val[s.v[i]] = p[i]
      BY DEF Shows
    <3>3. val2[s.v[i]] = val[s.v[i]] /\ Len(s.graph) <= Len(r.graph)
      BY <1>4, <3>2 DEF Grows
    <3>4. Len(s.graph) \in Nat /\ Len(r.graph) \in Nat
      <4> s.graph \in Seq(Term(Nat)) /\ r.graph \in Seq(Term(Nat))
        BY <1>1, <1>3 DEF State
      <4> QED
        OBVIOUS
    <3> QED
      BY <3>1, <3>2, <3>3, <3>4
  <2> QED
    BY <2>1, <2>2
<1>6. Shows(r, val2, Set(p, x, u))
  BY <1>3, <1>4, <1>5 DEF Shows, Grows
<1> QED
  BY <1>4, <1>6 DEF Leads, r

\* Register x is entry x + 1.
LEMMA Places == ASSUME NEW x \in Registers PROVE x + 1 \in 1..16
  BY DEF Registers

\* The four steps of a mix.
LEMMA SumShows ==
  ASSUME NEW s, NEW val, NEW p, Shows(s, val, p), NEW a \in Registers, NEW b \in Registers,
         NEW m \in 1..Len(s.graph)
  PROVE  Leads(s, val, Sum(s, a, b, m), Set(p, a, <<"sum", p[a + 1], p[b + 1], val[m]>>))
<1>1. /\ At(s, a) \in 1..Len(s.graph) /\ val[At(s, a)] = p[a + 1]
      /\ At(s, b) \in 1..Len(s.graph) /\ val[At(s, b)] = p[b + 1]
  <2> a + 1 \in 1..16 /\ b + 1 \in 1..16
    BY Places, Zenon
  <2> QED
    BY DEF Shows, At
<1> DEFINE t == <<"sum", At(s, a), At(s, b), m>>
<1>2. t \in Term(1..Len(s.graph))
  BY <1>1, SumKind, Zenon DEF Term
<1>3. Mean(val, t) = <<"sum", p[a + 1], p[b + 1], val[m]>>
  BY <1>1, SumKind
<1>4. Sum(s, a, b, m) = Assign(s, a, t)
  BY DEF Sum
<1> HIDE DEF t
<1> QED
  BY <1>2, <1>3, <1>4, AssignShows

\* c + d.
LEMMA AddShows ==
  ASSUME NEW s, NEW val, NEW p, Shows(s, val, p), NEW a \in Registers, NEW b \in Registers
  PROVE  Leads(s, val, Add(s, a, b), Set(p, a, <<"add", p[a + 1], p[b + 1]>>))
<1>1. /\ At(s, a) \in 1..Len(s.graph) /\ val[At(s, a)] = p[a + 1]
      /\ At(s, b) \in 1..Len(s.graph) /\ val[At(s, b)] = p[b + 1]
  <2> a + 1 \in 1..16 /\ b + 1 \in 1..16
    BY Places, Zenon
  <2> QED
    BY DEF Shows, At
<1> DEFINE t == <<"add", At(s, a), At(s, b)>>
<1>2. t \in Term(1..Len(s.graph))
  BY <1>1, AddKind, Zenon DEF Term
<1>3. Mean(val, t) = <<"add", p[a + 1], p[b + 1]>>
  BY <1>1, AddKind
<1>4. Add(s, a, b) = Assign(s, a, t)
  BY DEF Add
<1> HIDE DEF t
<1> QED
  BY <1>2, <1>3, <1>4, AssignShows

\* A rotation of an exclusive or.
LEMMA TurnShows ==
  ASSUME NEW s, NEW val, NEW p, Shows(s, val, p), NEW a \in Registers, NEW b \in Registers,
         NEW n \in Int, NEW u, u = <<"rotr xor", p[a + 1], p[b + 1], n>>
  PROVE  Leads(s, val, Turn(s, a, b, n), Set(p, a, u))
<1>1. /\ At(s, a) \in 1..Len(s.graph) /\ val[At(s, a)] = p[a + 1]
      /\ At(s, b) \in 1..Len(s.graph) /\ val[At(s, b)] = p[b + 1]
  <2> a + 1 \in 1..16 /\ b + 1 \in 1..16
    BY Places, Zenon
  <2> QED
    BY DEF Shows, At
<1> DEFINE t == <<"rotr xor", At(s, a), At(s, b), n>>
<1>2. t \in Term(1..Len(s.graph))
  BY <1>1, TurnKind, Zenon DEF Term
<1>3. Mean(val, t) = u
  <2>1. t[1] = "rotr xor" /\ t[2] = At(s, a) /\ t[3] = At(s, b) /\ t[4] = n
    OBVIOUS
  <2> HIDE DEF t
  <2> QED
    BY <1>1, <2>1 DEF Mean
<1>4. Turn(s, a, b, n) = Assign(s, a, t)
  BY DEF Turn
<1> HIDE DEF t
<1> QED
  BY <1>2, <1>3, <1>4, AssignShows

\* What a mix makes of four registers and two message words.
Mixed(wa, wb, wc, wd, x, y) ==
  LET a1 == <<"sum", wa, wb, x>>
      d1 == <<"rotr xor", wd, a1, 16>>
      c1 == <<"add", wc, d1>>
      b1 == <<"rotr xor", wb, c1, 12>>
      a2 == <<"sum", a1, b1, y>>
      d2 == <<"rotr xor", d1, a2, 8>>
      c2 == <<"add", c1, d2>>
  IN <<a2, <<"rotr xor", b1, c2, 7>>, c2, d2>>

\* Four different registers.
Apart4(a, b, c, d) ==
  /\ a \in Registers /\ b \in Registers /\ c \in Registers /\ d \in Registers
  /\ a # b /\ a # c /\ a # d /\ b # c /\ b # d /\ c # d

\* q is p but for four registers.
But4(q, p, a, b, c, d, wa, wb, wc, wd) ==
  /\ q[a + 1] = wa /\ q[b + 1] = wb /\ q[c + 1] = wc /\ q[d + 1] = wd
  /\ \A i \in 1..16 : i # a + 1 /\ i # b + 1 /\ i # c + 1 /\ i # d + 1 => q[i] = p[i]

\* Setting one of the four keeps the others.
LEMMA SetFour ==
  ASSUME NEW a, NEW b, NEW c, NEW d, Apart4(a, b, c, d), NEW p, NEW q, NEW u,
         NEW wa, NEW wb, NEW wc, NEW wd, But4(q, p, a, b, c, d, wa, wb, wc, wd)
  PROVE  /\ But4(Set(q, a, u), p, a, b, c, d, u, wb, wc, wd)
         /\ But4(Set(q, b, u), p, a, b, c, d, wa, u, wc, wd)
         /\ But4(Set(q, c, u), p, a, b, c, d, wa, wb, u, wd)
         /\ But4(Set(q, d, u), p, a, b, c, d, wa, wb, wc, u)
<1>1. /\ a + 1 \in 1..16 /\ b + 1 \in 1..16 /\ c + 1 \in 1..16 /\ d + 1 \in 1..16
      /\ a + 1 # b + 1 /\ a + 1 # c + 1 /\ a + 1 # d + 1
      /\ b + 1 # c + 1 /\ b + 1 # d + 1 /\ c + 1 # d + 1
  BY DEF Apart4, Registers
<1>2. ASSUME NEW x
      PROVE  \A i \in 1..16 : Set(q, x, u)[i] = IF i = x + 1 THEN u ELSE q[i]
  BY DEF Set
<1>3. But4(Set(q, a, u), p, a, b, c, d, u, wb, wc, wd)
  BY <1>1, <1>2 DEF But4
<1>4. But4(Set(q, b, u), p, a, b, c, d, wa, u, wc, wd)
  BY <1>1, <1>2 DEF But4
<1>5. But4(Set(q, c, u), p, a, b, c, d, wa, wb, u, wd)
  BY <1>1, <1>2 DEF But4
<1>6. But4(Set(q, d, u), p, a, b, c, d, wa, wb, wc, u)
  BY <1>1, <1>2 DEF But4
<1> QED
  BY <1>3, <1>4, <1>5, <1>6

\* A mix of sixteen values.
PMix(p, a, b, c, d, x, y) ==
  LET w == Mixed(p[a + 1], p[b + 1], p[c + 1], p[d + 1], x, y)
  IN [i \in 1..16 |-> IF i = a + 1 THEN w[1] ELSE IF i = b + 1 THEN w[2]
                      ELSE IF i = c + 1 THEN w[3] ELSE IF i = d + 1 THEN w[4] ELSE p[i]]

\* alpha_g does it.
LEMMA MixShows ==
  ASSUME NEW s, NEW val, NEW p, Shows(s, val, p),
         NEW a, NEW b, NEW c, NEW d, Apart4(a, b, c, d),
         NEW mx \in 1..Len(s.graph), NEW my \in 1..Len(s.graph), NEW x, NEW y,
         val[mx] = x, val[my] = y
  PROVE  Leads(s, val, alpha_g(s, a, b, c, d, mx, my), PMix(p, a, b, c, d, x, y))
<1> DEFINE s1 == Sum(s, a, b, mx)
           s2 == Turn(s1, d, a, 16)
           s3 == Add(s2, c, d)
           s4 == Turn(s3, b, c, 12)
           s5 == Sum(s4, a, b, my)
           s6 == Turn(s5, d, a, 8)
           s7 == Add(s6, c, d)
           s8 == Turn(s7, b, c, 7)
           wa == p[a + 1]
           wb == p[b + 1]
           wc == p[c + 1]
           wd == p[d + 1]
           a1 == <<"sum", wa, wb, x>>
           d1 == <<"rotr xor", wd, a1, 16>>
           c1 == <<"add", wc, d1>>
           b1 == <<"rotr xor", wb, c1, 12>>
           a2 == <<"sum", a1, b1, y>>
           d2 == <<"rotr xor", d1, a2, 8>>
           c2 == <<"add", c1, d2>>
           b2 == <<"rotr xor", b1, c2, 7>>
           Now(r, v, ua, ub, uc, ud) ==
             \E q : Shows(r, v, q) /\ But4(q, p, a, b, c, d, ua, ub, uc, ud)
           From(r, v) == Grows(s.graph, val, r.graph, v)
<1>1. alpha_g(s, a, b, c, d, mx, my) = s8
  BY DEF alpha_g
<1>2. a \in Registers /\ b \in Registers /\ c \in Registers /\ d \in Registers
  BY DEF Apart4
<1>3. s.graph \in Seq(Term(Nat)) /\ Means(s.graph, val)
  BY DEF Shows, State
<1>4. From(s, val) /\ Now(s, val, wa, wb, wc, wd)
  BY <1>3, GrowsNot DEF But4
<1> HIDE DEF s1, s2, s3, s4, s5, s6, s7, s8, wa, wb, wc, wd, a1, b1, c1, d1, a2, b2, c2, d2
<1>5. ASSUME NEW r, NEW v, NEW r2, NEW q2, From(r, v), Leads(r, v, r2, q2)
      PROVE  \E v2 : From(r2, v2) /\ Shows(r2, v2, q2)
  BY <1>3, <1>5, GrowsOn DEF Leads
<1> HIDE DEF From
<1>10. PICK v1 : From(s1, v1) /\ Now(s1, v1, a1, wb, wc, wd)
  <2>1. PICK q : Shows(s, val, q) /\ But4(q, p, a, b, c, d, wa, wb, wc, wd)
    BY <1>4
  <2>2. q[a + 1] = wa /\ q[b + 1] = wb
    BY <2>1 DEF But4
  <2>3. Leads(s, val, s1, Set(q, a, a1))
    BY <1>2, <2>1, <2>2, SumShows DEF s1, a1
  <2>4. But4(Set(q, a, a1), p, a, b, c, d, a1, wb, wc, wd)
    BY <2>1, SetFour
  <2> QED
    BY <1>4, <1>5, <2>3, <2>4
<1>11. PICK v2 : From(s2, v2) /\ Now(s2, v2, a1, wb, wc, d1)
  <2>1. PICK q : Shows(s1, v1, q) /\ But4(q, p, a, b, c, d, a1, wb, wc, wd)
    BY <1>10
  <2>2. q[d + 1] = wd /\ q[a + 1] = a1
    BY <2>1 DEF But4
  <2>3. Leads(s1, v1, s2, Set(q, d, d1))
    <3>1. d1 = <<"rotr xor", q[d + 1], q[a + 1], 16>>
      BY <2>2 DEF d1
    <3>2. s2 = Turn(s1, d, a, 16)
      BY DEF s2
    <3>3. PICK n \in Int : n = 16
      OBVIOUS
    <3> QED
      BY <1>2, <2>1, <3>1, <3>2, <3>3, TurnShows
  <2>4. But4(Set(q, d, d1), p, a, b, c, d, a1, wb, wc, d1)
    BY <2>1, SetFour
  <2> QED
    BY <1>10, <1>5, <2>3, <2>4
<1>12. PICK v3 : From(s3, v3) /\ Now(s3, v3, a1, wb, c1, d1)
  <2>1. PICK q : Shows(s2, v2, q) /\ But4(q, p, a, b, c, d, a1, wb, wc, d1)
    BY <1>11
  <2>2. q[c + 1] = wc /\ q[d + 1] = d1
    BY <2>1 DEF But4
  <2>3. Leads(s2, v2, s3, Set(q, c, c1))
    BY <1>2, <2>1, <2>2, AddShows DEF s3, c1
  <2>4. But4(Set(q, c, c1), p, a, b, c, d, a1, wb, c1, d1)
    BY <2>1, SetFour
  <2> QED
    BY <1>11, <1>5, <2>3, <2>4
<1>13. PICK v4 : From(s4, v4) /\ Now(s4, v4, a1, b1, c1, d1)
  <2>1. PICK q : Shows(s3, v3, q) /\ But4(q, p, a, b, c, d, a1, wb, c1, d1)
    BY <1>12
  <2>2. q[b + 1] = wb /\ q[c + 1] = c1
    BY <2>1 DEF But4
  <2>3. Leads(s3, v3, s4, Set(q, b, b1))
    <3>1. b1 = <<"rotr xor", q[b + 1], q[c + 1], 12>>
      BY <2>2 DEF b1
    <3>2. s4 = Turn(s3, b, c, 12)
      BY DEF s4
    <3>3. PICK n \in Int : n = 12
      OBVIOUS
    <3> QED
      BY <1>2, <2>1, <3>1, <3>2, <3>3, TurnShows
  <2>4. But4(Set(q, b, b1), p, a, b, c, d, a1, b1, c1, d1)
    BY <2>1, SetFour
  <2> QED
    BY <1>12, <1>5, <2>3, <2>4
<1>14. PICK v5 : From(s5, v5) /\ Now(s5, v5, a2, b1, c1, d1)
  <2>1. PICK q : Shows(s4, v4, q) /\ But4(q, p, a, b, c, d, a1, b1, c1, d1)
    BY <1>13
  <2>2. q[a + 1] = a1 /\ q[b + 1] = b1
    BY <2>1 DEF But4
  <2>3. my \in 1..Len(s4.graph) /\ v4[my] = y
    <3>1. Len(s.graph) <= Len(s4.graph) /\ v4[my] = val[my]
      BY <1>13 DEF From, Grows
    <3>2. s4.graph \in Seq(Term(Nat))
      BY <2>1 DEF Shows, State
    <3>3. Len(s.graph) \in Nat /\ Len(s4.graph) \in Nat
      BY <1>3, <3>2
    <3> QED
      BY <3>1, <3>3
  <2>4. Leads(s4, v4, s5, Set(q, a, a2))
    BY <1>2, <2>1, <2>2, <2>3, SumShows DEF s5, a2
  <2>5. But4(Set(q, a, a2), p, a, b, c, d, a2, b1, c1, d1)
    BY <2>1, SetFour
  <2> QED
    BY <1>13, <1>5, <2>4, <2>5
<1>15. PICK v6 : From(s6, v6) /\ Now(s6, v6, a2, b1, c1, d2)
  <2>1. PICK q : Shows(s5, v5, q) /\ But4(q, p, a, b, c, d, a2, b1, c1, d1)
    BY <1>14
  <2>2. q[d + 1] = d1 /\ q[a + 1] = a2
    BY <2>1 DEF But4
  <2>3. Leads(s5, v5, s6, Set(q, d, d2))
    <3>1. d2 = <<"rotr xor", q[d + 1], q[a + 1], 8>>
      BY <2>2 DEF d2
    <3>2. s6 = Turn(s5, d, a, 8)
      BY DEF s6
    <3>3. PICK n \in Int : n = 8
      OBVIOUS
    <3> QED
      BY <1>2, <2>1, <3>1, <3>2, <3>3, TurnShows
  <2>4. But4(Set(q, d, d2), p, a, b, c, d, a2, b1, c1, d2)
    BY <2>1, SetFour
  <2> QED
    BY <1>14, <1>5, <2>3, <2>4
<1>16. PICK v7 : From(s7, v7) /\ Now(s7, v7, a2, b1, c2, d2)
  <2>1. PICK q : Shows(s6, v6, q) /\ But4(q, p, a, b, c, d, a2, b1, c1, d2)
    BY <1>15
  <2>2. q[c + 1] = c1 /\ q[d + 1] = d2
    BY <2>1 DEF But4
  <2>3. Leads(s6, v6, s7, Set(q, c, c2))
    BY <1>2, <2>1, <2>2, AddShows DEF s7, c2
  <2>4. But4(Set(q, c, c2), p, a, b, c, d, a2, b1, c2, d2)
    BY <2>1, SetFour
  <2> QED
    BY <1>15, <1>5, <2>3, <2>4
<1>17. PICK v8 : From(s8, v8) /\ Now(s8, v8, a2, b2, c2, d2)
  <2>1. PICK q : Shows(s7, v7, q) /\ But4(q, p, a, b, c, d, a2, b1, c2, d2)
    BY <1>16
  <2>2. q[b + 1] = b1 /\ q[c + 1] = c2
    BY <2>1 DEF But4
  <2>3. Leads(s7, v7, s8, Set(q, b, b2))
    <3>1. b2 = <<"rotr xor", q[b + 1], q[c + 1], 7>>
      BY <2>2 DEF b2
    <3>2. s8 = Turn(s7, b, c, 7)
      BY DEF s8
    <3>3. PICK n \in Int : n = 7
      OBVIOUS
    <3> QED
      BY <1>2, <2>1, <3>1, <3>2, <3>3, TurnShows
  <2>4. But4(Set(q, b, b2), p, a, b, c, d, a2, b2, c2, d2)
    BY <2>1, SetFour
  <2> QED
    BY <1>16, <1>5, <2>3, <2>4
<1>18. PICK q : Shows(s8, v8, q) /\ But4(q, p, a, b, c, d, a2, b2, c2, d2)
  BY <1>17
<1>19. Mixed(wa, wb, wc, wd, x, y) = <<a2, b2, c2, d2>>
  BY DEF Mixed, a1, b1, c1, d1, a2, b2, c2, d2
<1> DEFINE w == Mixed(wa, wb, wc, wd, x, y)
<1>20. w[1] = a2 /\ w[2] = b2 /\ w[3] = c2 /\ w[4] = d2
  BY <1>19
<1>21. PMix(p, a, b, c, d, x, y)
         = [i \in 1..16 |-> IF i = a + 1 THEN w[1] ELSE IF i = b + 1 THEN w[2]
                      ELSE IF i = c + 1 THEN w[3] ELSE IF i = d + 1 THEN w[4] ELSE p[i]]
  BY DEF PMix, wa, wb, wc, wd
<1> HIDE DEF w
<1>22. \A i \in 1..16 : q[i] = PMix(p, a, b, c, d, x, y)[i]
  BY <1>18, <1>20, <1>21 DEF But4
<1>23. Shows(s8, v8, PMix(p, a, b, c, d, x, y))
  BY <1>18, <1>22 DEF Shows
<1> QED
  BY <1>1, <1>17, <1>23 DEF Leads, From

\* Mixes of different registers do not mind their order.
LEMMA MixesCommute ==
  ASSUME NEW a, NEW b, NEW c, NEW d, NEW a1, NEW b1, NEW c1, NEW d1,
         Apart4(a, b, c, d), Apart4(a1, b1, c1, d1), {a, b, c, d} \cap {a1, b1, c1, d1} = {},
         NEW p, NEW x, NEW y, NEW x1, NEW y1
  PROVE  PMix(PMix(p, a, b, c, d, x, y), a1, b1, c1, d1, x1, y1)
           = PMix(PMix(p, a1, b1, c1, d1, x1, y1), a, b, c, d, x, y)
<1> DEFINE q == PMix(p, a, b, c, d, x, y)
           r == PMix(p, a1, b1, c1, d1, x1, y1)
           w == Mixed(p[a + 1], p[b + 1], p[c + 1], p[d + 1], x, y)
           z == Mixed(p[a1 + 1], p[b1 + 1], p[c1 + 1], p[d1 + 1], x1, y1)
<1>1. /\ a + 1 \in 1..16 /\ b + 1 \in 1..16 /\ c + 1 \in 1..16 /\ d + 1 \in 1..16
      /\ a1 + 1 \in 1..16 /\ b1 + 1 \in 1..16 /\ c1 + 1 \in 1..16 /\ d1 + 1 \in 1..16
  BY DEF Apart4, Registers
<1>2. /\ a + 1 \notin {a1 + 1, b1 + 1, c1 + 1, d1 + 1} /\ b + 1 \notin {a1 + 1, b1 + 1, c1 + 1, d1 + 1}
      /\ c + 1 \notin {a1 + 1, b1 + 1, c1 + 1, d1 + 1} /\ d + 1 \notin {a1 + 1, b1 + 1, c1 + 1, d1 + 1}
  <2>1. a \in Int /\ b \in Int /\ c \in Int /\ d \in Int /\ a1 \in Int /\ b1 \in Int /\ c1 \in Int /\ d1 \in Int
    BY DEF Apart4, Registers
  <2>2. /\ a \notin {a1, b1, c1, d1} /\ b \notin {a1, b1, c1, d1}
        /\ c \notin {a1, b1, c1, d1} /\ d \notin {a1, b1, c1, d1}
    OBVIOUS
  <2> QED
    BY <2>1, <2>2
<1>3. q = [i \in 1..16 |-> IF i = a + 1 THEN w[1] ELSE IF i = b + 1 THEN w[2]
                      ELSE IF i = c + 1 THEN w[3] ELSE IF i = d + 1 THEN w[4] ELSE p[i]]
  BY DEF PMix
<1>4. r = [i \in 1..16 |-> IF i = a1 + 1 THEN z[1] ELSE IF i = b1 + 1 THEN z[2]
                      ELSE IF i = c1 + 1 THEN z[3] ELSE IF i = d1 + 1 THEN z[4] ELSE p[i]]
  BY DEF PMix
<1> HIDE DEF q, r
<1>5. z = Mixed(q[a1 + 1], q[b1 + 1], q[c1 + 1], q[d1 + 1], x1, y1)
  <2> q[a1 + 1] = p[a1 + 1] /\ q[b1 + 1] = p[b1 + 1] /\ q[c1 + 1] = p[c1 + 1] /\ q[d1 + 1] = p[d1 + 1]
    BY <1>1, <1>2, <1>3
  <2> QED
    OBVIOUS
<1>6. w = Mixed(r[a + 1], r[b + 1], r[c + 1], r[d + 1], x, y)
  <2> r[a + 1] = p[a + 1] /\ r[b + 1] = p[b + 1] /\ r[c + 1] = p[c + 1] /\ r[d + 1] = p[d + 1]
    BY <1>1, <1>2, <1>4
  <2> QED
    OBVIOUS
<1> HIDE DEF w, z
<1>7. PMix(q, a1, b1, c1, d1, x1, y1)
        = [i \in 1..16 |-> IF i = a1 + 1 THEN z[1] ELSE IF i = b1 + 1 THEN z[2]
                      ELSE IF i = c1 + 1 THEN z[3] ELSE IF i = d1 + 1 THEN z[4] ELSE q[i]]
  BY <1>5 DEF PMix
<1>8. PMix(r, a, b, c, d, x, y)
        = [i \in 1..16 |-> IF i = a + 1 THEN w[1] ELSE IF i = b + 1 THEN w[2]
                      ELSE IF i = c + 1 THEN w[3] ELSE IF i = d + 1 THEN w[4] ELSE r[i]]
  BY <1>6 DEF PMix
<1>9. \A i \in 1..16 :
        (IF i = a1 + 1 THEN z[1] ELSE IF i = b1 + 1 THEN z[2]
           ELSE IF i = c1 + 1 THEN z[3] ELSE IF i = d1 + 1 THEN z[4] ELSE q[i])
        = (IF i = a + 1 THEN w[1] ELSE IF i = b + 1 THEN w[2]
             ELSE IF i = c + 1 THEN w[3] ELSE IF i = d + 1 THEN w[4] ELSE r[i])
  BY <1>1, <1>2, <1>3, <1>4
<1>10. PMix(q, a1, b1, c1, d1, x1, y1) = PMix(r, a, b, c, d, x, y)
  BY <1>7, <1>8, <1>9
<1> QED
  BY <1>10 DEF q, r

-----------------------------------------------------------------------------
(* Mixes one after another.                                                *)

\* One mix of a round.
OneMix(s, m, order, k) ==
  alpha_g(s, Mixes[k][1], Mixes[k][2], Mixes[k][3], Mixes[k][4],
          m[order[2 * k - 1] + 1], m[order[2 * k] + 1])
KMix(p, w, order, k) ==
  PMix(p, Mixes[k][1], Mixes[k][2], Mixes[k][3], Mixes[k][4],
       w[order[2 * k - 1] + 1], w[order[2 * k] + 1])

Orders == [1..16 -> Registers]

\* Each of the eight mixes is of four different registers.
LEMMA MixRegisters ==
  ASSUME NEW k \in 1..8
  PROVE  /\ Apart4(Mixes[k][1], Mixes[k][2], Mixes[k][3], Mixes[k][4])
         /\ 2 * k - 1 \in 1..16 /\ 2 * k \in 1..16
<1>1. k = 1 \/ k = 2 \/ k = 3 \/ k = 4 \/ k = 5 \/ k = 6 \/ k = 7 \/ k = 8
  OBVIOUS
<1>2. Mixes[k] = <<0, 4, 8, 12>> \/ Mixes[k] = <<1, 5, 9, 13>> \/ Mixes[k] = <<2, 6, 10, 14>>
        \/ Mixes[k] = <<3, 7, 11, 15>> \/ Mixes[k] = <<0, 5, 10, 15>> \/ Mixes[k] = <<1, 6, 11, 12>>
        \/ Mixes[k] = <<2, 7, 8, 13>> \/ Mixes[k] = <<3, 4, 9, 14>>
  BY <1>1 DEF Mixes
<1>3. Apart4(Mixes[k][1], Mixes[k][2], Mixes[k][3], Mixes[k][4])
  BY <1>2 DEF Apart4, Registers
<1> QED
  BY <1>3

\* A mix stays among the states.
LEMMA MixState ==
  ASSUME NEW s \in State, NEW m \in [1..16 -> Nat], NEW order \in Orders, NEW k \in 1..8
  PROVE  OneMix(s, m, order, k) \in State
<1>1. ASSUME NEW r \in State, NEW a \in Registers, NEW b \in Registers, NEW x \in Nat, NEW n \in Int
      PROVE  Sum(r, a, b, x) \in State /\ Add(r, a, b) \in State /\ Turn(r, a, b, n) \in State
  <2>1. At(r, a) \in Nat /\ At(r, b) \in Nat
    <3> a + 1 \in 1..16 /\ b + 1 \in 1..16
      BY Places, Zenon
    <3> QED
      BY DEF At, State
  <2>2. <<"sum", At(r, a), At(r, b), x>> \in Term(Nat)
    BY <2>1, SumKind, Zenon DEF Term
  <2>3. <<"add", At(r, a), At(r, b)>> \in Term(Nat)
    BY <2>1, AddKind, Zenon DEF Term
  <2>4. <<"rotr xor", At(r, a), At(r, b), n>> \in Term(Nat)
    BY <2>1, TurnKind, Zenon DEF Term
  <2>5. Sum(r, a, b, x) \in State
    BY <2>2, AssignIs, Zenon DEF Sum
  <2>6. Add(r, a, b) \in State
    BY <2>3, AssignIs, Zenon DEF Add
  <2>7. Turn(r, a, b, n) \in State
    BY <2>4, AssignIs, Zenon DEF Turn
  <2> QED
    BY <2>5, <2>6, <2>7
<1>2. ASSUME NEW a \in Registers, NEW b \in Registers, NEW c \in Registers, NEW d \in Registers,
             NEW x \in Nat, NEW y \in Nat
      PROVE  alpha_g(s, a, b, c, d, x, y) \in State
  <2> DEFINE s1 == Sum(s, a, b, x)
             s2 == Turn(s1, d, a, 16)
             s3 == Add(s2, c, d)
             s4 == Turn(s3, b, c, 12)
             s5 == Sum(s4, a, b, y)
             s6 == Turn(s5, d, a, 8)
             s7 == Add(s6, c, d)
             s8 == Turn(s7, b, c, 7)
  <2>1. alpha_g(s, a, b, c, d, x, y) = s8
    BY DEF alpha_g
  <2>2. 16 \in Int /\ 12 \in Int /\ 8 \in Int /\ 7 \in Int
    OBVIOUS
  <2>3. s1 \in State
    BY <1>1, <2>2, Zenon
  <2> HIDE DEF s1
  <2>4. s2 \in State
    BY <1>1, <2>2, <2>3, Zenon
  <2> HIDE DEF s2
  <2>5. s3 \in State
    BY <1>1, <2>2, <2>4, Zenon
  <2> HIDE DEF s3
  <2>6. s4 \in State
    BY <1>1, <2>2, <2>5, Zenon
  <2> HIDE DEF s4
  <2>7. s5 \in State
    BY <1>1, <2>2, <2>6, Zenon
  <2> HIDE DEF s5
  <2>8. s6 \in State
    BY <1>1, <2>2, <2>7, Zenon
  <2> HIDE DEF s6
  <2>9. s7 \in State
    BY <1>1, <2>2, <2>8, Zenon
  <2> HIDE DEF s7
  <2>10. s8 \in State
    BY <1>1, <2>2, <2>9, Zenon
  <2> QED
    BY <2>1, <2>10
<1>3. /\ Mixes[k][1] \in Registers /\ Mixes[k][2] \in Registers
      /\ Mixes[k][3] \in Registers /\ Mixes[k][4] \in Registers
      /\ 2 * k - 1 \in 1..16 /\ 2 * k \in 1..16
  BY MixRegisters DEF Apart4
<1>4. order[2 * k - 1] \in Registers /\ order[2 * k] \in Registers
  BY <1>3 DEF Orders
<1>5. order[2 * k - 1] + 1 \in 1..16 /\ order[2 * k] + 1 \in 1..16
  BY <1>4, Places
<1>6. m[order[2 * k - 1] + 1] \in Nat /\ m[order[2 * k] + 1] \in Nat
  BY <1>5
<1> QED
  BY <1>2, <1>3, <1>6 DEF OneMix

\* f goes through the states between the mixes.
Mixing(f, s, m, order, which, n) ==
  f[0] = s /\ \A i \in 0..n - 1 : f[i + 1] = OneMix(f[i], m, order, which[i + 1])

\* MixesOfRound does one mix after the other.
LEMMA MixesAre ==
  ASSUME NEW s \in State, NEW m \in [1..16 -> Nat], NEW order \in Orders,
         NEW n \in Nat, NEW which \in [1..n -> 1..8]
  PROVE  \E f \in [0..n -> State] :
           Mixing(f, s, m, order, which, n) /\ MixesOfRound(s, m, order, which) = f[n]
<1> DEFINE k == [p \in (1..n) \X State |-> OneMix(p[2], m, order, which[p[1]])]
<1>1. \A i \in 1..n : \A v \in State :
        k[<<i, v>>] = OneMix(v, m, order, which[i]) /\ OneMix(v, m, order, which[i]) \in State
  <2> SUFFICES ASSUME NEW i \in 1..n, NEW v \in State
               PROVE  k[<<i, v>>] = OneMix(v, m, order, which[i]) /\ OneMix(v, m, order, which[i]) \in State
    OBVIOUS
  <2>1. <<i, v>> \in (1..n) \X State /\ <<i, v>>[1] = i /\ <<i, v>>[2] = v
    OBVIOUS
  <2>2. k[<<i, v>>] = OneMix(v, m, order, which[i])
    BY <2>1, Zenon
  <2> QED
    BY <2>2, MixState
<1> HIDE DEF k
<1>2. Closed(k, 1..n, State)
  BY <1>1 DEF Closed
<1>3. PICK acc \in [SUBSET (1..n) -> State], f \in [0..n -> State] : FoldsInOrder(acc, f, s, k, n)
  BY <1>2, FoldInOrder
<1>4. DOMAIN which = 1..n
  OBVIOUS
<1> DEFINE Is(x) == x = [r \in SUBSET (DOMAIN which) |->
                           IF r = {} THEN s ELSE OneMix(x[r \ {Max(r)}], m, order, which[Max(r)])]
<1>5. ASSUME NEW r \in SUBSET (1..n), r # {}
      PROVE  k[<<Max(r), acc[r \ {Max(r)}]>>] = OneMix(acc[r \ {Max(r)}], m, order, which[Max(r)])
  <2>1. Max(r) \in r /\ r \ {Max(r)} \in SUBSET (1..n)
    BY <1>5, MaxOf
  <2>2. Max(r) \in 1..n /\ acc[r \ {Max(r)}] \in State
    BY <2>1
  <2> QED
    BY <1>1, <2>2
<1>6. Is(acc)
  <2>1. acc = [r \in SUBSET (1..n) |-> IF r = {} THEN s ELSE k[<<Max(r), acc[r \ {Max(r)}]>>]]
    BY <1>3 DEF FoldsInOrder
  <2>2. ASSUME NEW r \in SUBSET (1..n)
        PROVE  acc[r] = IF r = {} THEN s ELSE OneMix(acc[r \ {Max(r)}], m, order, which[Max(r)])
    BY <1>5, <2>1
  <2>3. acc = [r \in SUBSET (1..n) |->
               IF r = {} THEN s ELSE OneMix(acc[r \ {Max(r)}], m, order, which[Max(r)])]
    BY <2>2
  <2> QED
    BY <1>4, <2>3
<1> DEFINE x == CHOOSE x : Is(x)
<1>7. Is(x)
  <2> HIDE DEF Is
  <2> QED
    BY <1>6, Zenon
<1>8. MixesOfRound(s, m, order, which) = x[DOMAIN which]
  BY Zenon DEF MixesOfRound, FoldLeft, MapThenFoldSet, OneMix
<1> HIDE DEF x
<1>9. x[1..n] = acc[1..n]
  <2>1. x[{}] = acc[{}]
    BY <1>4, <1>6, <1>7
  <2>2. \A r \in SUBSET (1..n) :
          r # {} => (x[r \ {Max(r)}] = acc[r \ {Max(r)}] => x[r] = acc[r])
    BY <1>4, <1>6, <1>7
  <2> QED
    BY <2>1, <2>2, FoldIsOne
<1>10. /\ f[0] = s /\ \A i \in 0..n - 1 : f[i + 1] = k[<<i + 1, f[i]>>]
       /\ acc[1..n] = f[n]
  BY <1>3 DEF FoldsInOrder
<1>11. \A i \in 0..n - 1 : f[i + 1] = OneMix(f[i], m, order, which[i + 1])
  <2> SUFFICES ASSUME NEW i \in 0..n - 1 PROVE f[i + 1] = OneMix(f[i], m, order, which[i + 1])
    OBVIOUS
  <2>1. i + 1 \in 1..n /\ i \in 0..n
    OBVIOUS
  <2>2. f[i] \in State
    BY <2>1
  <2> QED
    BY <1>1, <1>10, <2>1, <2>2
<1>12. Mixing(f, s, m, order, which, n)
  BY <1>10, <1>11 DEF Mixing
<1> QED
  BY <1>4, <1>8, <1>9, <1>10, <1>12

\* q goes through what the registers mean.
PMixing(q, p, w, order, which, n) ==
  q[0] = p /\ \A i \in 0..n - 1 : q[i + 1] = KMix(q[i], w, order, which[i + 1])

\* n nodes that mean w.
Reads(gr, val, m, n, w) ==
  m \in [1..n -> Nat] /\ \A i \in 1..n : m[i] \in 1..Len(gr) /\ val[m[i]] = w[i]

\* Nodes go on to mean what they meant.
LEMMA ReadsOn ==
  ASSUME NEW gr, NEW val, NEW gr2, NEW val2, Means(gr, val), Grows(gr, val, gr2, val2),
         NEW m, NEW n, NEW w, Reads(gr, val, m, n, w)
  PROVE  Reads(gr2, val2, m, n, w)
<1>1. Len(gr) \in Nat /\ Len(gr2) \in Nat /\ Len(gr) <= Len(gr2)
  BY DEF Grows, Means
<1>2. ASSUME NEW i \in 1..n PROVE m[i] \in 1..Len(gr2) /\ val2[m[i]] = w[i]
  <2>1. m[i] \in 1..Len(gr) /\ val[m[i]] = w[i]
    BY DEF Reads
  <2>2. val2[m[i]] = val[m[i]]
    BY <2>1 DEF Grows
  <2> QED
    BY <1>1, <2>1, <2>2
<1> QED
  BY <1>2 DEF Reads

\* So the registers go through what the mixes make of their values.
LEMMA MixesShow ==
  ASSUME NEW s, NEW val, NEW p, Shows(s, val, p), NEW m, NEW w, Reads(s.graph, val, m, 16, w),
         NEW order \in Orders, NEW n \in Nat, NEW which \in [1..n -> 1..8],
         NEW q, PMixing(q, p, w, order, which, n)
  PROVE  Leads(s, val, MixesOfRound(s, m, order, which), q[n])
<1>1. s \in State /\ m \in [1..16 -> Nat] /\ s.graph \in Seq(Term(Nat)) /\ Means(s.graph, val)
  BY DEF Shows, Reads, State
<1>2. PICK f \in [0..n -> State] :
        Mixing(f, s, m, order, which, n) /\ MixesOfRound(s, m, order, which) = f[n]
  BY <1>1, MixesAre
<1> DEFINE T == {i \in Nat : i <= n => Leads(s, val, f[i], q[i])}
<1>3. 0 \in T
  <2>1. f[0] = s /\ q[0] = p
    BY <1>2 DEF Mixing, PMixing
  <2>2. Leads(s, val, f[0], q[0])
    BY <1>1, <2>1, GrowsNot DEF Leads
  <2> QED
    BY <2>2
<1>4. \A i \in Nat : i \in T => i + 1 \in T
  <2> SUFFICES ASSUME NEW i \in Nat, i + 1 <= n, Leads(s, val, f[i], q[i])
               PROVE  Leads(s, val, f[i + 1], q[i + 1])
    OBVIOUS
  <2>1. i \in 0..n - 1 /\ i + 1 \in 1..n
    OBVIOUS
  <2>2. PICK k \in 1..8 : k = which[i + 1]
    BY <2>1
  <2>3. f[i + 1] = OneMix(f[i], m, order, k) /\ q[i + 1] = KMix(q[i], w, order, k)
    BY <1>2, <2>1, <2>2 DEF Mixing, PMixing
  <2>4. PICK v : Grows(s.graph, val, f[i].graph, v) /\ Shows(f[i], v, q[i])
    BY DEF Leads
  <2>5. Reads(f[i].graph, v, m, 16, w)
    BY <1>1, <2>4, ReadsOn
  <2>6. PICK x \in 1..16, y \in 1..16 : x = order[2 * k - 1] + 1 /\ y = order[2 * k] + 1
    <3>1. 2 * k - 1 \in 1..16 /\ 2 * k \in 1..16
      BY MixRegisters
    <3>2. order[2 * k - 1] \in Registers /\ order[2 * k] \in Registers
      BY <3>1 DEF Orders
    <3> QED
      BY <3>2, Places
  <2>7. m[x] \in 1..Len(f[i].graph) /\ m[y] \in 1..Len(f[i].graph) /\ v[m[x]] = w[x] /\ v[m[y]] = w[y]
    BY <2>5 DEF Reads
  <2>8. Apart4(Mixes[k][1], Mixes[k][2], Mixes[k][3], Mixes[k][4])
    BY MixRegisters
  <2>9. Leads(f[i], v, f[i + 1], q[i + 1])
    <3>1. Leads(f[i], v, alpha_g(f[i], Mixes[k][1], Mixes[k][2], Mixes[k][3], Mixes[k][4], m[x], m[y]),
                PMix(q[i], Mixes[k][1], Mixes[k][2], Mixes[k][3], Mixes[k][4], w[x], w[y]))
      BY <2>4, <2>7, <2>8, MixShows
    <3> QED
      BY <2>3, <2>6, <3>1 DEF OneMix, KMix
  <2>10. PICK v2 : Grows(f[i].graph, v, f[i + 1].graph, v2) /\ Shows(f[i + 1], v2, q[i + 1])
    BY <2>9 DEF Leads
  <2>11. Grows(s.graph, val, f[i + 1].graph, v2)
    <3> PICK h, h2 : h = f[i].graph /\ h2 = f[i + 1].graph
      OBVIOUS
    <3>1. Grows(s.graph, val, h, v) /\ Grows(h, v, h2, v2)
      BY <2>4, <2>10
    <3>2. s.graph \in Seq(Term(Nat))
      BY <1>1
    <3>3. Grows(s.graph, val, h2, v2)
      BY <3>1, <3>2, GrowsOn
    <3> QED
      BY <3>3
  <2> QED
    BY <2>10, <2>11 DEF Leads
<1> HIDE DEF T
<1>5. \A i \in Nat : i \in T
  BY <1>3, <1>4, SetInduction, Zenon
<1>6. Leads(s, val, f[n], q[n])
  BY <1>5 DEF T
<1> QED
  BY <1>2, <1>6

\* The mixes of a round, of values.
Five(p, w, o)   == KMix(KMix(KMix(KMix(KMix(p, w, o, 1), w, o, 2), w, o, 3), w, o, 4), w, o, 5)
PRound(p, w, o) == KMix(KMix(KMix(Five(p, w, o), w, o, 6), w, o, 7), w, o, 8)

\* A whole round.
LEMMA RoundShows ==
  ASSUME NEW s, NEW val, NEW p, Shows(s, val, p), NEW m, NEW w, Reads(s.graph, val, m, 16, w),
         NEW o \in Orders
  PROVE  Leads(s, val, MixesOfRound(s, m, o, EightMixes), PRound(p, w, o))
<1> DEFINE p1 == KMix(p, w, o, 1)
           p2 == KMix(p1, w, o, 2)
           p3 == KMix(p2, w, o, 3)
           p4 == KMix(p3, w, o, 4)
           p5 == KMix(p4, w, o, 5)
           p6 == KMix(p5, w, o, 6)
           p7 == KMix(p6, w, o, 7)
           p8 == KMix(p7, w, o, 8)
           q == [i \in 0..8 |-> IF i = 0 THEN p ELSE IF i = 1 THEN p1 ELSE IF i = 2 THEN p2 ELSE IF i = 3 THEN p3
                             ELSE IF i = 4 THEN p4
                             ELSE IF i = 5 THEN p5 ELSE IF i = 6 THEN p6 ELSE IF i = 7 THEN p7 ELSE p8]
           k == <<1, 2, 3, 4, 5, 6, 7, 8>>
<1>0. k = EightMixes
  BY DEF EightMixes
<1>1. k \in [1..8 -> 1..8] /\ k[1] = 1 /\ k[2] = 2 /\ k[3] = 3 /\ k[4] = 4 /\ k[5] = 5 /\ k[6] = 6 /\ k[7] = 7 /\ k[8] = 8
  OBVIOUS
<1>2. 8 \in Nat
  OBVIOUS
<1>3. PRound(p, w, o) = p8
  BY DEF Five, PRound
<1> HIDE DEF p1, p2, p3, p4, p5, p6, p7, p8, k
<1>4. q[0] = p /\ q[1] = p1 /\ q[2] = p2 /\ q[3] = p3 /\ q[4] = p4 /\ q[5] = p5 /\ q[6] = p6 /\ q[7] = p7 /\ q[8] = p8
  OBVIOUS
<1> HIDE DEF q
<1>5. \A i \in 0..8 - 1 : q[i + 1] = KMix(q[i], w, o, k[i + 1])
  <2> SUFFICES ASSUME NEW i \in 0..8 - 1 PROVE q[i + 1] = KMix(q[i], w, o, k[i + 1])
    OBVIOUS
  <2>1. p1 = KMix(p, w, o, 1)
    BY DEF p1
  <2>2. p2 = KMix(p1, w, o, 2)
    BY DEF p2
  <2>3. p3 = KMix(p2, w, o, 3)
    BY DEF p3
  <2>4. p4 = KMix(p3, w, o, 4)
    BY DEF p4
  <2>5. p5 = KMix(p4, w, o, 5)
    BY DEF p5
  <2>6. p6 = KMix(p5, w, o, 6)
    BY DEF p6
  <2>7. p7 = KMix(p6, w, o, 7)
    BY DEF p7
  <2>8. p8 = KMix(p7, w, o, 8)
    BY DEF p8
  <2>10. i = 0 \/ i = 1 \/ i = 2 \/ i = 3 \/ i = 4 \/ i = 5 \/ i = 6 \/ i = 7
    OBVIOUS
  <2> QED
    BY <1>1, <1>4, <2>10, <2>1, <2>2, <2>3, <2>4, <2>5, <2>6, <2>7, <2>8
<1>6. PMixing(q, p, w, o, k, 8)
  BY <1>4, <1>5 DEF PMixing
<1>7. Leads(s, val, MixesOfRound(s, m, o, k), q[8])
  BY <1>1, <1>2, <1>6, MixesShow
<1> QED
  BY <1>3, <1>4, <1>7, <1>0

\* alpha_build_job_pre.
LEMMA BuiltShows ==
  ASSUME NEW s, NEW val, NEW p, Shows(s, val, p), NEW m, NEW w, Reads(s.graph, val, m, 16, w),
         NEW o \in Orders
  PROVE  Leads(s, val, MixesOfRound(s, m, o, <<1, 2, 3, 4, 5, 8>>), KMix(Five(p, w, o), w, o, 8))
<1> DEFINE p1 == KMix(p, w, o, 1)
           p2 == KMix(p1, w, o, 2)
           p3 == KMix(p2, w, o, 3)
           p4 == KMix(p3, w, o, 4)
           p5 == KMix(p4, w, o, 5)
           p6 == KMix(p5, w, o, 8)
           q == [i \in 0..6 |-> IF i = 0 THEN p ELSE IF i = 1 THEN p1 ELSE IF i = 2 THEN p2 ELSE IF i = 3 THEN p3
                             ELSE IF i = 4 THEN p4
                             ELSE IF i = 5 THEN p5 ELSE p6]
           k == <<1, 2, 3, 4, 5, 8>>
<1>1. k \in [1..6 -> 1..8] /\ k[1] = 1 /\ k[2] = 2 /\ k[3] = 3 /\ k[4] = 4 /\ k[5] = 5 /\ k[6] = 8
  OBVIOUS
<1>2. 6 \in Nat
  OBVIOUS
<1>3. KMix(Five(p, w, o), w, o, 8) = p6
  BY DEF Five, PRound
<1> HIDE DEF p1, p2, p3, p4, p5, p6, k
<1>4. q[0] = p /\ q[1] = p1 /\ q[2] = p2 /\ q[3] = p3 /\ q[4] = p4 /\ q[5] = p5 /\ q[6] = p6
  OBVIOUS
<1> HIDE DEF q
<1>5. \A i \in 0..6 - 1 : q[i + 1] = KMix(q[i], w, o, k[i + 1])
  <2> SUFFICES ASSUME NEW i \in 0..6 - 1 PROVE q[i + 1] = KMix(q[i], w, o, k[i + 1])
    OBVIOUS
  <2>1. p1 = KMix(p, w, o, 1)
    BY DEF p1
  <2>2. p2 = KMix(p1, w, o, 2)
    BY DEF p2
  <2>3. p3 = KMix(p2, w, o, 3)
    BY DEF p3
  <2>4. p4 = KMix(p3, w, o, 4)
    BY DEF p4
  <2>5. p5 = KMix(p4, w, o, 5)
    BY DEF p5
  <2>6. p6 = KMix(p5, w, o, 8)
    BY DEF p6
  <2>10. i = 0 \/ i = 1 \/ i = 2 \/ i = 3 \/ i = 4 \/ i = 5
    OBVIOUS
  <2> QED
    BY <1>1, <1>4, <2>10, <2>1, <2>2, <2>3, <2>4, <2>5, <2>6
<1>6. PMixing(q, p, w, o, k, 6)
  BY <1>4, <1>5 DEF PMixing
<1>7. Leads(s, val, MixesOfRound(s, m, o, k), q[6])
  BY <1>1, <1>2, <1>6, MixesShow
<1> QED
  BY <1>3, <1>4, <1>7 DEF k

\* The rest of that round.
LEMMA RestShows ==
  ASSUME NEW s, NEW val, NEW p, Shows(s, val, p), NEW m, NEW w, Reads(s.graph, val, m, 16, w),
         NEW o \in Orders
  PROVE  Leads(s, val, MixesOfRound(s, m, o, <<6, 7>>), KMix(KMix(p, w, o, 6), w, o, 7))
<1> DEFINE p1 == KMix(p, w, o, 6)
           p2 == KMix(p1, w, o, 7)
           q == [i \in 0..2 |-> IF i = 0 THEN p ELSE IF i = 1 THEN p1 ELSE p2]
           k == <<6, 7>>
<1>1. k \in [1..2 -> 1..8] /\ k[1] = 6 /\ k[2] = 7
  OBVIOUS
<1>2. 2 \in Nat
  OBVIOUS
<1>3. KMix(KMix(p, w, o, 6), w, o, 7) = p2
  BY DEF Five, PRound
<1> HIDE DEF p1, p2, k
<1>4. q[0] = p /\ q[1] = p1 /\ q[2] = p2
  OBVIOUS
<1> HIDE DEF q
<1>5. \A i \in 0..2 - 1 : q[i + 1] = KMix(q[i], w, o, k[i + 1])
  <2> SUFFICES ASSUME NEW i \in 0..2 - 1 PROVE q[i + 1] = KMix(q[i], w, o, k[i + 1])
    OBVIOUS
  <2>1. p1 = KMix(p, w, o, 6)
    BY DEF p1
  <2>2. p2 = KMix(p1, w, o, 7)
    BY DEF p2
  <2>10. i = 0 \/ i = 1
    OBVIOUS
  <2> QED
    BY <1>1, <1>4, <2>10, <2>1, <2>2
<1>6. PMixing(q, p, w, o, k, 2)
  BY <1>4, <1>5 DEF PMixing
<1>7. Leads(s, val, MixesOfRound(s, m, o, k), q[2])
  BY <1>1, <1>2, <1>6, MixesShow
<1> QED
  BY <1>3, <1>4, <1>7 DEF k

\* What alpha_hash92_head does of the last round.
LEMMA HeadShows ==
  ASSUME NEW s, NEW val, NEW p, Shows(s, val, p), NEW m, NEW w, Reads(s.graph, val, m, 16, w),
         NEW o \in Orders
  PROVE  Leads(s, val, MixesOfRound(s, m, o, <<1, 2, 3, 4, 5, 7>>), KMix(Five(p, w, o), w, o, 7))
<1> DEFINE p1 == KMix(p, w, o, 1)
           p2 == KMix(p1, w, o, 2)
           p3 == KMix(p2, w, o, 3)
           p4 == KMix(p3, w, o, 4)
           p5 == KMix(p4, w, o, 5)
           p6 == KMix(p5, w, o, 7)
           q == [i \in 0..6 |-> IF i = 0 THEN p ELSE IF i = 1 THEN p1 ELSE IF i = 2 THEN p2 ELSE IF i = 3 THEN p3
                             ELSE IF i = 4 THEN p4
                             ELSE IF i = 5 THEN p5 ELSE p6]
           k == <<1, 2, 3, 4, 5, 7>>
<1>1. k \in [1..6 -> 1..8] /\ k[1] = 1 /\ k[2] = 2 /\ k[3] = 3 /\ k[4] = 4 /\ k[5] = 5 /\ k[6] = 7
  OBVIOUS
<1>2. 6 \in Nat
  OBVIOUS
<1>3. KMix(Five(p, w, o), w, o, 7) = p6
  BY DEF Five, PRound
<1> HIDE DEF p1, p2, p3, p4, p5, p6, k
<1>4. q[0] = p /\ q[1] = p1 /\ q[2] = p2 /\ q[3] = p3 /\ q[4] = p4 /\ q[5] = p5 /\ q[6] = p6
  OBVIOUS
<1> HIDE DEF q
<1>5. \A i \in 0..6 - 1 : q[i + 1] = KMix(q[i], w, o, k[i + 1])
  <2> SUFFICES ASSUME NEW i \in 0..6 - 1 PROVE q[i + 1] = KMix(q[i], w, o, k[i + 1])
    OBVIOUS
  <2>1. p1 = KMix(p, w, o, 1)
    BY DEF p1
  <2>2. p2 = KMix(p1, w, o, 2)
    BY DEF p2
  <2>3. p3 = KMix(p2, w, o, 3)
    BY DEF p3
  <2>4. p4 = KMix(p3, w, o, 4)
    BY DEF p4
  <2>5. p5 = KMix(p4, w, o, 5)
    BY DEF p5
  <2>6. p6 = KMix(p5, w, o, 7)
    BY DEF p6
  <2>10. i = 0 \/ i = 1 \/ i = 2 \/ i = 3 \/ i = 4 \/ i = 5
    OBVIOUS
  <2> QED
    BY <1>1, <1>4, <2>10, <2>1, <2>2, <2>3, <2>4, <2>5, <2>6
<1>6. PMixing(q, p, w, o, k, 6)
  BY <1>4, <1>5 DEF PMixing
<1>7. Leads(s, val, MixesOfRound(s, m, o, k), q[6])
  BY <1>1, <1>2, <1>6, MixesShow
<1> QED
  BY <1>3, <1>4, <1>7 DEF k

\* And alpha_hash92_tail.
LEMMA TailShows ==
  ASSUME NEW s, NEW val, NEW p, Shows(s, val, p), NEW m, NEW w, Reads(s.graph, val, m, 16, w),
         NEW o \in Orders
  PROVE  Leads(s, val, MixesOfRound(s, m, o, <<6, 8>>), KMix(KMix(p, w, o, 6), w, o, 8))
<1> DEFINE p1 == KMix(p, w, o, 6)
           p2 == KMix(p1, w, o, 8)
           q == [i \in 0..2 |-> IF i = 0 THEN p ELSE IF i = 1 THEN p1 ELSE p2]
           k == <<6, 8>>
<1>1. k \in [1..2 -> 1..8] /\ k[1] = 6 /\ k[2] = 8
  OBVIOUS
<1>2. 2 \in Nat
  OBVIOUS
<1>3. KMix(KMix(p, w, o, 6), w, o, 8) = p2
  BY DEF Five, PRound
<1> HIDE DEF p1, p2, k
<1>4. q[0] = p /\ q[1] = p1 /\ q[2] = p2
  OBVIOUS
<1> HIDE DEF q
<1>5. \A i \in 0..2 - 1 : q[i + 1] = KMix(q[i], w, o, k[i + 1])
  <2> SUFFICES ASSUME NEW i \in 0..2 - 1 PROVE q[i + 1] = KMix(q[i], w, o, k[i + 1])
    OBVIOUS
  <2>1. p1 = KMix(p, w, o, 6)
    BY DEF p1
  <2>2. p2 = KMix(p1, w, o, 8)
    BY DEF p2
  <2>10. i = 0 \/ i = 1
    OBVIOUS
  <2> QED
    BY <1>1, <1>4, <2>10, <2>1, <2>2
<1>6. PMixing(q, p, w, o, k, 2)
  BY <1>4, <1>5 DEF PMixing
<1>7. Leads(s, val, MixesOfRound(s, m, o, k), q[2])
  BY <1>1, <1>2, <1>6, MixesShow
<1> QED
  BY <1>3, <1>4, <1>7 DEF k

\* The diagonals of a round work on different registers.
LEMMA DiagonalsCommute ==
  ASSUME NEW p, NEW w, NEW o, NEW i \in 5..8, NEW j \in 5..8, i # j
  PROVE  KMix(KMix(p, w, o, i), w, o, j) = KMix(KMix(p, w, o, j), w, o, i)
<1> DEFINE R(k) == {Mixes[k][1], Mixes[k][2], Mixes[k][3], Mixes[k][4]}
<1>1. R(5) = {0, 5, 10, 15} /\ R(6) = {1, 6, 11, 12} /\ R(7) = {2, 7, 8, 13} /\ R(8) = {3, 4, 9, 14}
  BY DEF Mixes
<1>2. i \in 1..8 /\ j \in 1..8
  OBVIOUS
<1>3. R(i) \cap R(j) = {}
  <2>1. (i = 5 \/ i = 6 \/ i = 7 \/ i = 8) /\ (j = 5 \/ j = 6 \/ j = 7 \/ j = 8)
    OBVIOUS
  <2> HIDE DEF R
  <2> QED
    BY <1>1, <2>1
<1>4. /\ Apart4(Mixes[i][1], Mixes[i][2], Mixes[i][3], Mixes[i][4])
      /\ Apart4(Mixes[j][1], Mixes[j][2], Mixes[j][3], Mixes[j][4])
  BY <1>2, MixRegisters
<1> QED
  BY <1>3, <1>4, MixesCommute DEF KMix

\* The mixes of a job and those of a nonce make the first round, those of the
\* head and those of the tail the last one.
LEMMA RoundInParts ==
  ASSUME NEW p, NEW w, NEW o
  PROVE  /\ PRound(p, w, o) = KMix(KMix(KMix(Five(p, w, o), w, o, 8), w, o, 6), w, o, 7)
         /\ PRound(p, w, o) = KMix(KMix(KMix(Five(p, w, o), w, o, 7), w, o, 6), w, o, 8)
<1> DEFINE f == Five(p, w, o)
           K(q, i) == KMix(q, w, o, i)
<1>1. PRound(p, w, o) = K(K(K(f, 6), 7), 8)
  BY DEF PRound
<1> HIDE DEF f
<1>2. ASSUME NEW q, NEW i \in 5..8, NEW j \in 5..8, i # j PROVE K(K(q, i), j) = K(K(q, j), i)
  BY <1>2, DiagonalsCommute
<1> HIDE DEF K
<1>3. K(K(K(f, 6), 7), 8) = K(K(K(f, 6), 8), 7)
  BY <1>2
<1>4. K(K(f, 6), 8) = K(K(f, 8), 6) /\ K(K(f, 6), 7) = K(K(f, 7), 6)
  BY <1>2
<1> QED
  BY <1>1, <1>3, <1>4 DEF K, f

\* round_fn is a round in the order of the message.
LEMMA RoundFnIs ==
  ASSUME NEW s \in State, NEW m \in [1..16 -> Nat]
  PROVE  round_fn(s, m) = MixesOfRound(s, m, Schedule0[1], EightMixes)
<1> DEFINE o == Schedule0[1]
           k == <<1, 2, 3, 4, 5, 6, 7, 8>>
           g1 == OneMix(s, m, o, 1)
           g2 == OneMix(g1, m, o, 2)
           g3 == OneMix(g2, m, o, 3)
           g4 == OneMix(g3, m, o, 4)
           g5 == OneMix(g4, m, o, 5)
           g6 == OneMix(g5, m, o, 6)
           g7 == OneMix(g6, m, o, 7)
           g8 == OneMix(g7, m, o, 8)
<1>1. o = <<0, 1, 2, 3, 4, 5, 6, 7, 8, 9, 10, 11, 12, 13, 14, 15>>
  BY DEF Schedule0
<1>2. o \in Orders
  BY <1>1 DEF Orders, Registers
<1>3. ASSUME NEW r, NEW a, NEW b, NEW c, NEW d, NEW x, NEW y
      PROVE  g(r, a, b, c, d, x, y) = alpha_g(r, a, b, c, d, x, y)
  BY Zenon DEF g, alpha_g
<1> HIDE DEF o
<1>4. ASSUME NEW r
      PROVE  /\ g(r, 0, 4, 8, 12, m[1], m[2]) = OneMix(r, m, o, 1)
             /\ g(r, 1, 5, 9, 13, m[3], m[4]) = OneMix(r, m, o, 2)
             /\ g(r, 2, 6, 10, 14, m[5], m[6]) = OneMix(r, m, o, 3)
             /\ g(r, 3, 7, 11, 15, m[7], m[8]) = OneMix(r, m, o, 4)
             /\ g(r, 0, 5, 10, 15, m[9], m[10]) = OneMix(r, m, o, 5)
             /\ g(r, 1, 6, 11, 12, m[11], m[12]) = OneMix(r, m, o, 6)
             /\ g(r, 2, 7, 8, 13, m[13], m[14]) = OneMix(r, m, o, 7)
             /\ g(r, 3, 4, 9, 14, m[15], m[16]) = OneMix(r, m, o, 8)
  <2>1. \A i \in 1..16 : o[i] = i - 1
    BY <1>1
  <2>2. ASSUME NEW i \in 1..8
        PROVE  OneMix(r, m, o, i)
                 = g(r, Mixes[i][1], Mixes[i][2], Mixes[i][3], Mixes[i][4], m[2 * i - 1], m[2 * i])
    <3>1. o[2 * i - 1] + 1 = 2 * i - 1 /\ o[2 * i] + 1 = 2 * i
      BY <2>1
    <3> QED
      BY <1>3, <3>1 DEF OneMix
  <2>3. g(r, 0, 4, 8, 12, m[1], m[2]) = OneMix(r, m, o, 1)
    <3>1. /\ Mixes[1][1] = 0 /\ Mixes[1][2] = 4 /\ Mixes[1][3] = 8 /\ Mixes[1][4] = 12
          /\ 2 * 1 - 1 = 1 /\ 2 * 1 = 2 /\ 1 \in 1..8
      BY DEF Mixes
    <3> QED
      BY <2>2, <3>1
  <2>4. g(r, 1, 5, 9, 13, m[3], m[4]) = OneMix(r, m, o, 2)
    <3>1. /\ Mixes[2][1] = 1 /\ Mixes[2][2] = 5 /\ Mixes[2][3] = 9 /\ Mixes[2][4] = 13
          /\ 2 * 2 - 1 = 3 /\ 2 * 2 = 4 /\ 2 \in 1..8
      BY DEF Mixes
    <3> QED
      BY <2>2, <3>1
  <2>5. g(r, 2, 6, 10, 14, m[5], m[6]) = OneMix(r, m, o, 3)
    <3>1. /\ Mixes[3][1] = 2 /\ Mixes[3][2] = 6 /\ Mixes[3][3] = 10 /\ Mixes[3][4] = 14
          /\ 2 * 3 - 1 = 5 /\ 2 * 3 = 6 /\ 3 \in 1..8
      BY DEF Mixes
    <3> QED
      BY <2>2, <3>1
  <2>6. g(r, 3, 7, 11, 15, m[7], m[8]) = OneMix(r, m, o, 4)
    <3>1. /\ Mixes[4][1] = 3 /\ Mixes[4][2] = 7 /\ Mixes[4][3] = 11 /\ Mixes[4][4] = 15
          /\ 2 * 4 - 1 = 7 /\ 2 * 4 = 8 /\ 4 \in 1..8
      BY DEF Mixes
    <3> QED
      BY <2>2, <3>1
  <2>7. g(r, 0, 5, 10, 15, m[9], m[10]) = OneMix(r, m, o, 5)
    <3>1. /\ Mixes[5][1] = 0 /\ Mixes[5][2] = 5 /\ Mixes[5][3] = 10 /\ Mixes[5][4] = 15
          /\ 2 * 5 - 1 = 9 /\ 2 * 5 = 10 /\ 5 \in 1..8
      BY DEF Mixes
    <3> QED
      BY <2>2, <3>1
  <2>8. g(r, 1, 6, 11, 12, m[11], m[12]) = OneMix(r, m, o, 6)
    <3>1. /\ Mixes[6][1] = 1 /\ Mixes[6][2] = 6 /\ Mixes[6][3] = 11 /\ Mixes[6][4] = 12
          /\ 2 * 6 - 1 = 11 /\ 2 * 6 = 12 /\ 6 \in 1..8
      BY DEF Mixes
    <3> QED
      BY <2>2, <3>1
  <2>9. g(r, 2, 7, 8, 13, m[13], m[14]) = OneMix(r, m, o, 7)
    <3>1. /\ Mixes[7][1] = 2 /\ Mixes[7][2] = 7 /\ Mixes[7][3] = 8 /\ Mixes[7][4] = 13
          /\ 2 * 7 - 1 = 13 /\ 2 * 7 = 14 /\ 7 \in 1..8
      BY DEF Mixes
    <3> QED
      BY <2>2, <3>1
  <2>10. g(r, 3, 4, 9, 14, m[15], m[16]) = OneMix(r, m, o, 8)
    <3>1. /\ Mixes[8][1] = 3 /\ Mixes[8][2] = 4 /\ Mixes[8][3] = 9 /\ Mixes[8][4] = 14
          /\ 2 * 8 - 1 = 15 /\ 2 * 8 = 16 /\ 8 \in 1..8
      BY DEF Mixes
    <3> QED
      BY <2>2, <3>1
  <2> QED
    BY <2>3, <2>4, <2>5, <2>6, <2>7, <2>8, <2>9, <2>10
<1>5. round_fn(s, m) = g8
  <2> DEFINE h1 == g(s, 0, 4, 8, 12, m[1], m[2])
             h2 == g(h1, 1, 5, 9, 13, m[3], m[4])
             h3 == g(h2, 2, 6, 10, 14, m[5], m[6])
             h4 == g(h3, 3, 7, 11, 15, m[7], m[8])
             h5 == g(h4, 0, 5, 10, 15, m[9], m[10])
             h6 == g(h5, 1, 6, 11, 12, m[11], m[12])
             h7 == g(h6, 2, 7, 8, 13, m[13], m[14])
             h8 == g(h7, 3, 4, 9, 14, m[15], m[16])
  <2>1. round_fn(s, m) = h8
    BY DEF round_fn
  <2> HIDE DEF h1, h2, h3, h4, h5, h6, h7, h8, g1, g2, g3, g4, g5, g6, g7, g8
  <2>2. h1 = g1
    BY <1>4 DEF h1, g1
  <2>3. h2 = g2
    BY <1>4, <2>2 DEF h2, g2
  <2>4. h3 = g3
    BY <1>4, <2>3 DEF h3, g3
  <2>5. h4 = g4
    BY <1>4, <2>4 DEF h4, g4
  <2>6. h5 = g5
    BY <1>4, <2>5 DEF h5, g5
  <2>7. h6 = g6
    BY <1>4, <2>6 DEF h6, g6
  <2>8. h7 = g7
    BY <1>4, <2>7 DEF h7, g7
  <2>9. h8 = g8
    BY <1>4, <2>8 DEF h8, g8
  <2> QED
    BY <2>1, <2>9
<1>6. k \in [1..8 -> 1..8] /\ k = EightMixes
  BY DEF EightMixes
<1>7. k[1] = 1 /\ k[2] = 2 /\ k[3] = 3 /\ k[4] = 4 /\ k[5] = 5 /\ k[6] = 6 /\ k[7] = 7 /\ k[8] = 8
  OBVIOUS
<1> HIDE DEF k
<1>8. PICK f : Mixing(f, s, m, o, k, 8) /\ MixesOfRound(s, m, o, k) = f[8]
  <2> 8 \in Nat
    OBVIOUS
  <2> QED
    BY <1>2, <1>6, MixesAre
<1> HIDE DEF g1, g2, g3, g4, g5, g6, g7, g8
<1>9. /\ f[0] = s /\ f[1] = OneMix(f[0], m, o, 1) /\ f[2] = OneMix(f[1], m, o, 2)
      /\ f[3] = OneMix(f[2], m, o, 3) /\ f[4] = OneMix(f[3], m, o, 4)
      /\ f[5] = OneMix(f[4], m, o, 5) /\ f[6] = OneMix(f[5], m, o, 6)
      /\ f[7] = OneMix(f[6], m, o, 7) /\ f[8] = OneMix(f[7], m, o, 8)
  <2>1. f[0] = s /\ \A i \in 0..8 - 1 : f[i + 1] = OneMix(f[i], m, o, k[i + 1])
    BY <1>8 DEF Mixing
  <2> QED
    BY <1>7, <2>1
<1>10. f[8] = g8
  BY <1>9 DEF g1, g2, g3, g4, g5, g6, g7, g8
<1> QED
  BY <1>5, <1>6, <1>8, <1>10 DEF o

-----------------------------------------------------------------------------
(* The schedule and permute.                                               *)

\* The words of a message in the order of round r + 1.
Sched(w, r) == [j \in 1..16 |-> w[Schedule0[r + 1][j] + 1]]

\* Both schedules are the same, and the first round takes the words in order.
LEMMA SchedulesAre == /\ \A r \in 1..7 : Schedule0[r] \in Orders /\ Schedule1[r] = Schedule0[r]
                      /\ \A i \in 1..16 : Schedule0[1][i] = i - 1
<1>1. ASSUME NEW r \in 1..7 PROVE Schedule0[r] \in Orders
  <2> r = 1 \/ r = 2 \/ r = 3 \/ r = 4 \/ r = 5 \/ r = 6 \/ r = 7
    OBVIOUS
  <2> QED
    BY DEF Schedule0, Orders, Registers
<1>2. Schedule1 = Schedule0
  BY DEF Schedule0, Schedule1
<1>3. \A i \in 1..16 : Schedule0[1][i] = i - 1
  BY DEF Schedule0
<1> QED
  BY <1>1, <1>2, <1>3

\* Where permute takes its words from.
Source == <<3, 7, 4, 11, 8, 1, 5, 14, 2, 12, 13, 6, 10, 15, 16, 9>>

\* The schedule written out by hand is what permute makes round by round.
LEMMA ScheduleIs ==
  ASSUME NEW r \in 0..5, NEW j \in 1..16
  PROVE  Source[j] \in 1..16 /\ Schedule0[r + 2][j] = Schedule0[r + 1][Source[j]]
<1>1. /\ j = 1 \/ j = 2 \/ j = 3 \/ j = 4 \/ j = 5 \/ j = 6 \/ j = 7 \/ j = 8 \/ j = 9 \/ j = 10
         \/ j = 11 \/ j = 12 \/ j = 13 \/ j = 14 \/ j = 15 \/ j = 16
      /\ r = 0 \/ r = 1 \/ r = 2 \/ r = 3 \/ r = 4 \/ r = 5
  OBVIOUS
<1>2. Source[j] \in 1..16
  BY <1>1 DEF Source
<1>3. CASE r = 0
  BY <1>1, <1>3 DEF Source, Schedule0
<1>4. CASE r = 1
  BY <1>1, <1>4 DEF Source, Schedule0
<1>5. CASE r = 2
  BY <1>1, <1>5 DEF Source, Schedule0
<1>6. CASE r = 3
  BY <1>1, <1>6 DEF Source, Schedule0
<1>7. CASE r = 4
  BY <1>1, <1>7 DEF Source, Schedule0
<1>8. CASE r = 5
  BY <1>1, <1>8 DEF Source, Schedule0
<1> QED
  BY <1>1, <1>2, <1>3, <1>4, <1>5, <1>6, <1>7, <1>8

\* So permute leaves the message in the order of the next round.
LEMMA PermuteReads ==
  ASSUME NEW gr, NEW val, NEW m, NEW w, NEW r \in 0..5, Reads(gr, val, m, 16, Sched(w, r))
  PROVE  Reads(gr, val, permute(m), 16, Sched(w, r + 1))
<1>1. m \in [1..16 -> Nat] /\ \A i \in 1..16 : m[i] \in 1..Len(gr) /\ val[m[i]] = Sched(w, r)[i]
  BY DEF Reads
<1>2. permute(m) = [j \in 1..16 |-> m[Source[j]]]
  <2>1. permute(m) \in [1..16 -> Nat]
    BY <1>1 DEF permute
  <2>2. ASSUME NEW j \in 1..16 PROVE permute(m)[j] = m[Source[j]]
    <3> j = 1 \/ j = 2 \/ j = 3 \/ j = 4 \/ j = 5 \/ j = 6 \/ j = 7 \/ j = 8 \/ j = 9 \/ j = 10
         \/ j = 11 \/ j = 12 \/ j = 13 \/ j = 14 \/ j = 15 \/ j = 16
      OBVIOUS
    <3> QED
      BY DEF permute, Source
  <2> QED
    BY <2>1, <2>2
<1>3. ASSUME NEW j \in 1..16
      PROVE  permute(m)[j] \in Nat /\ permute(m)[j] \in 1..Len(gr) /\ val[permute(m)[j]] = Sched(w, r + 1)[j]
  <2>1. Source[j] \in 1..16 /\ Schedule0[r + 2][j] = Schedule0[r + 1][Source[j]]
    BY ScheduleIs
  <2>2. permute(m)[j] = m[Source[j]]
    BY <1>2
  <2>3. Sched(w, r + 1)[j] = w[Schedule0[r + 2][j] + 1]
    <3> (r + 1) + 1 = r + 2
      OBVIOUS
    <3> QED
      BY DEF Sched
  <2>4. Sched(w, r)[Source[j]] = w[Schedule0[r + 1][Source[j]] + 1]
    BY <2>1 DEF Sched
  <2> QED
    BY <1>1, <2>1, <2>2, <2>3, <2>4
<1> QED
  BY <1>2, <1>3 DEF Reads

\* A round of compress is one of alpha_compress0_from_pre.
LEMMA RoundIsRound ==
  ASSUME NEW p, NEW w, NEW r \in 0..6
  PROVE  PRound(p, Sched(w, r), Schedule0[1]) = PRound(p, w, Schedule0[r + 1])
<1>1. ASSUME NEW q, NEW k \in 1..8
      PROVE  KMix(q, Sched(w, r), Schedule0[1], k) = KMix(q, w, Schedule0[r + 1], k)
  <2>1. 2 * k - 1 \in 1..16 /\ 2 * k \in 1..16
    OBVIOUS
  <2>2. ASSUME NEW i \in 1..16 PROVE Sched(w, r)[Schedule0[1][i] + 1] = w[Schedule0[r + 1][i] + 1]
    <3> Schedule0[1][i] + 1 = i
      BY SchedulesAre
    <3> QED
      BY DEF Sched
  <2> QED
    BY <2>1, <2>2 DEF KMix
<1> QED
  BY <1>1 DEF PRound, Five

-----------------------------------------------------------------------------
\* f goes through the graphs that grow by the terms of t.
Putting(f, gr, t, n) == f[0] = gr /\ \A i \in 0..n - 1 : f[i + 1] = Put(f[i], t[i + 1])

\* With puts one term after the other.
LEMMA WithAre ==
  ASSUME NEW gr \in Seq(Term(Nat)), NEW n \in Nat, NEW t \in [1..n -> Term(Nat)]
  PROVE  \E f \in [0..n -> Seq(Term(Nat))] : Putting(f, gr, t, n) /\ With(gr, t) = f[n]
<1> DEFINE G == Seq(Term(Nat))
           k == [p \in (1..n) \X G |-> Put(p[2], t[p[1]])]
<1>1. \A i \in 1..n : \A v \in G : k[<<i, v>>] = Put(v, t[i]) /\ Put(v, t[i]) \in G
  <2> SUFFICES ASSUME NEW i \in 1..n, NEW v \in G
               PROVE  k[<<i, v>>] = Put(v, t[i]) /\ Put(v, t[i]) \in G
    OBVIOUS
  <2>1. <<i, v>> \in (1..n) \X G /\ <<i, v>>[1] = i /\ <<i, v>>[2] = v
    OBVIOUS
  <2>2. k[<<i, v>>] = Put(v, t[i])
    BY <2>1, Zenon
  <2>3. Put(v, t[i]) \in G
    <3> PICK u \in Term(Nat) : u = t[i]
      OBVIOUS
    <3>1. Append(v, u) \in G
      OBVIOUS
    <3> QED
      BY <3>1 DEF Put
  <2> QED
    BY <2>2, <2>3
<1> HIDE DEF k, G
<1>2. Closed(k, 1..n, G)
  BY <1>1 DEF Closed
<1>3. PICK acc \in [SUBSET (1..n) -> G], f \in [0..n -> G] : FoldsInOrder(acc, f, gr, k, n)
  <2> gr \in G
    BY DEF G
  <2> QED
    BY <1>2, FoldInOrder
<1>4. DOMAIN t = 1..n
  OBVIOUS
<1> DEFINE Is(x) == x = [r \in SUBSET (DOMAIN t) |->
                           IF r = {} THEN gr ELSE Put(x[r \ {Max(r)}], t[Max(r)])]
<1>5. ASSUME NEW r \in SUBSET (1..n), r # {}
      PROVE  k[<<Max(r), acc[r \ {Max(r)}]>>] = Put(acc[r \ {Max(r)}], t[Max(r)])
  <2>1. Max(r) \in r /\ r \ {Max(r)} \in SUBSET (1..n)
    BY <1>5, MaxOf
  <2>2. Max(r) \in 1..n /\ acc[r \ {Max(r)}] \in G
    BY <2>1
  <2> QED
    BY <1>1, <2>2
<1>6. Is(acc)
  <2>1. acc = [r \in SUBSET (1..n) |-> IF r = {} THEN gr ELSE k[<<Max(r), acc[r \ {Max(r)}]>>]]
    BY <1>3 DEF FoldsInOrder
  <2>2. ASSUME NEW r \in SUBSET (1..n)
        PROVE  acc[r] = IF r = {} THEN gr ELSE Put(acc[r \ {Max(r)}], t[Max(r)])
    BY <1>5, <2>1
  <2>3. acc = [r \in SUBSET (1..n) |->
               IF r = {} THEN gr ELSE Put(acc[r \ {Max(r)}], t[Max(r)])]
    BY <2>2
  <2> QED
    BY <1>4, <2>3
<1> DEFINE x == CHOOSE x : Is(x)
<1>7. Is(x)
  <2> HIDE DEF Is
  <2> QED
    BY <1>6, Zenon
<1>8. With(gr, t) = x[DOMAIN t]
  BY Zenon DEF With, FoldLeft, MapThenFoldSet, Put
<1> HIDE DEF x
<1>9. x[1..n] = acc[1..n]
  <2>1. x[{}] = acc[{}]
    BY <1>4, <1>6, <1>7
  <2>2. \A r \in SUBSET (1..n) :
          r # {} => (x[r \ {Max(r)}] = acc[r \ {Max(r)}] => x[r] = acc[r])
    BY <1>4, <1>6, <1>7
  <2> QED
    BY <2>1, <2>2, FoldIsOne
<1>10. /\ f[0] = gr /\ \A i \in 0..n - 1 : f[i + 1] = k[<<i + 1, f[i]>>]
       /\ acc[1..n] = f[n]
  BY <1>3 DEF FoldsInOrder
<1>11. \A i \in 0..n - 1 : f[i + 1] = Put(f[i], t[i + 1])
  <2> SUFFICES ASSUME NEW i \in 0..n - 1 PROVE f[i + 1] = Put(f[i], t[i + 1])
    OBVIOUS
  <2>1. i + 1 \in 1..n /\ i \in 0..n
    OBVIOUS
  <2>2. f[i] \in G
    BY <2>1
  <2> QED
    BY <1>1, <1>10, <2>1, <2>2
<1>12. Putting(f, gr, t, n)
  BY <1>10, <1>11 DEF Putting
<1>13. f \in [0..n -> Seq(Term(Nat))] /\ With(gr, t) = f[n]
  BY <1>4, <1>8, <1>9, <1>10 DEF G
<1> QED
  BY <1>12, <1>13

\* Every term of t stands, with the meaning it has.
AllStand(gr, val, val0, t, n) == \A i \in 1..n : Stands(gr, val, t[i], Mean(val0, t[i]))

\* With keeps the nodes there are, and all its terms have theirs.
LEMMA WithGrows ==
  ASSUME NEW gr, NEW val, Means(gr, val), NEW n \in Nat, NEW t \in [1..n -> Term(1..Len(gr))]
  PROVE  \E val2 : Grows(gr, val, With(gr, t), val2) /\ AllStand(With(gr, t), val2, val, t, n)
<1>1. gr \in Seq(Term(Nat)) /\ Len(gr) \in Nat /\ 1..Len(gr) \subseteq Nat
  BY DEF Means
<1>2. t \in [1..n -> Term(Nat)]
  <2> ASSUME NEW i \in 1..n PROVE t[i] \in Term(Nat)
    BY <1>1, SameMean DEF Agree
  <2> QED
    OBVIOUS
<1>3. PICK f \in [0..n -> Seq(Term(Nat))] : Putting(f, gr, t, n) /\ With(gr, t) = f[n]
  BY <1>1, <1>2, WithAre
<1> DEFINE P(i) == \E v : Grows(gr, val, f[i], v) /\ AllStand(f[i], v, val, t, i)
           T == {i \in Nat : i <= n => P(i)}
<1>4. 0 \in T
  <2>1. f[0] = gr
    BY <1>3 DEF Putting
  <2>2. Grows(gr, val, f[0], val) /\ AllStand(f[0], val, val, t, 0)
    BY <2>1, GrowsNot DEF AllStand
  <2> QED
    BY <2>2
<1>5. \A i \in Nat : i \in T => i + 1 \in T
  <2> HIDE DEF P
  <2> SUFFICES ASSUME NEW i \in Nat, i + 1 <= n, P(i) PROVE P(i + 1)
    OBVIOUS
  <2> USE DEF P
  <2>1. i \in 0..n - 1 /\ i + 1 \in 1..n
    OBVIOUS
  <2> PICK h, h2, u : h = f[i] /\ h2 = f[i + 1] /\ u = t[i + 1]
    OBVIOUS
  <2>2. PICK v : Grows(gr, val, h, v) /\ AllStand(h, v, val, t, i)
    OBVIOUS
  <2>3. h2 = Put(h, u) /\ u \in Term(1..Len(gr))
    BY <1>3, <2>1 DEF Putting
  <2>4. u \in Term(1..Len(h)) /\ Mean(v, u) = Mean(val, u)
    BY <2>2, <2>3, TermGrows
  <2>5. PICK v2 : Grows(h, v, h2, v2) /\ Stands(h2, v2, u, Mean(val, u))
    <3>1. Means(h, v)
      BY <2>2 DEF Grows
    <3>2. \E v2 : Grows(h, v, Put(h, u), v2) /\ Stands(Put(h, u), v2, u, Mean(v, u))
      BY <2>4, <3>1, PutGrows
    <3> QED
      BY <2>3, <2>4, <3>2
  <2>6. Grows(gr, val, h2, v2)
    BY <1>1, <2>2, <2>5, GrowsOn
  <2>7. AllStand(h2, v2, val, t, i + 1)
    <3> SUFFICES ASSUME NEW j \in 1..i + 1 PROVE Stands(h2, v2, t[j], Mean(val, t[j]))
      BY DEF AllStand
    <3>1. CASE j = i + 1
      BY <2>5, <3>1
    <3>2. CASE j # i + 1
      <4>1. Stands(h, v, t[j], Mean(val, t[j]))
        BY <2>2, <3>2 DEF AllStand
      <4>2. Means(h, v)
        BY <2>2 DEF Grows
      <4> QED
        BY <2>5, <4>1, <4>2, StandsOn
    <3> QED
      BY <3>1, <3>2
  <2> QED
    BY <2>6, <2>7
<1> HIDE DEF T
<1>6. \A i \in Nat : i \in T
  BY <1>4, <1>5, SetInduction, Zenon
<1>7. P(n)
  BY <1>6 DEF T
<1> QED
  BY <1>3, <1>7

-----------------------------------------------------------------------------
(* The words of the header.                                                *)

\* The words of the two blocks of the header, as the CPU reads them.
Block0(n) == words_from_block(SubSeq(build_header92(n), 1, 64))
Block1(n) == words_from_block(SubSeq(build_header92(n), 65, 92) \o [i \in 1..36 |-> 0])

\* The constants are words.
LEMMA SmallWords == /\ \A x \in Int : Small(x) \in Words
                    /\ Zero \in Words
                    /\ \A i \in 1..8 : IV[i] \in Words
<1>1. ASSUME NEW x \in Int PROVE Small(x) \in Words
  BY WordKind DEF Small
<1>2. ASSUME NEW i \in 1..8 PROVE IV[i] \in Words
  <2>1. i = 1 \/ i = 2 \/ i = 3 \/ i = 4 \/ i = 5 \/ i = 6 \/ i = 7 \/ i = 8
    OBVIOUS
  <2>3. IV[1] \in Words
    <3>1. PICK a \in Int, b \in Int, c \in Int, d \in Int : a = 103 /\ b = 230 /\ c = 9 /\ d = 106
      OBVIOUS
    <3>2. IV[1] = Word(a, b, c, d)
      BY <3>1 DEF IV
    <3> QED
      BY <3>2, WordKind
  <2>4. IV[2] \in Words
    <3>1. PICK a \in Int, b \in Int, c \in Int, d \in Int : a = 133 /\ b = 174 /\ c = 103 /\ d = 187
      OBVIOUS
    <3>2. IV[2] = Word(a, b, c, d)
      BY <3>1 DEF IV
    <3> QED
      BY <3>2, WordKind
  <2>5. IV[3] \in Words
    <3>1. PICK a \in Int, b \in Int, c \in Int, d \in Int : a = 114 /\ b = 243 /\ c = 110 /\ d = 60
      OBVIOUS
    <3>2. IV[3] = Word(a, b, c, d)
      BY <3>1 DEF IV
    <3> QED
      BY <3>2, WordKind
  <2>6. IV[4] \in Words
    <3>1. PICK a \in Int, b \in Int, c \in Int, d \in Int : a = 58 /\ b = 245 /\ c = 79 /\ d = 165
      OBVIOUS
    <3>2. IV[4] = Word(a, b, c, d)
      BY <3>1 DEF IV
    <3> QED
      BY <3>2, WordKind
  <2>7. IV[5] \in Words
    <3>1. PICK a \in Int, b \in Int, c \in Int, d \in Int : a = 127 /\ b = 82 /\ c = 14 /\ d = 81
      OBVIOUS
    <3>2. IV[5] = Word(a, b, c, d)
      BY <3>1 DEF IV
    <3> QED
      BY <3>2, WordKind
  <2>8. IV[6] \in Words
    <3>1. PICK a \in Int, b \in Int, c \in Int, d \in Int : a = 140 /\ b = 104 /\ c = 5 /\ d = 155
      OBVIOUS
    <3>2. IV[6] = Word(a, b, c, d)
      BY <3>1 DEF IV
    <3> QED
      BY <3>2, WordKind
  <2>9. IV[7] \in Words
    <3>1. PICK a \in Int, b \in Int, c \in Int, d \in Int : a = 171 /\ b = 217 /\ c = 131 /\ d = 31
      OBVIOUS
    <3>2. IV[7] = Word(a, b, c, d)
      BY <3>1 DEF IV
    <3> QED
      BY <3>2, WordKind
  <2>10. IV[8] \in Words
    <3>1. PICK a \in Int, b \in Int, c \in Int, d \in Int : a = 25 /\ b = 205 /\ c = 224 /\ d = 91
      OBVIOUS
    <3>2. IV[8] = Word(a, b, c, d)
      BY <3>1 DEF IV
    <3> QED
      BY <3>2, WordKind
  <2> QED
    BY <2>1, <2>3, <2>4, <2>5, <2>6, <2>7, <2>8, <2>9, <2>10
<1> QED
  BY <1>1, <1>2 DEF Zero

\* The bytes of the header, field by field.
LEMMA HeaderIs ==
  ASSUME NEW n \in Nat
  PROVE  /\ build_header92(n) \in [1..92 -> Int]
         /\ \A i \in 1..92 :
              /\ i <= 4 => build_header92(n)[i] = block_number(i - 1)
              /\ i \in 5..36 => build_header92(n)[i] = previous_hash(i - 5)
              /\ i \in 37..44 => build_header92(n)[i] = timestamp(i - 37)
              /\ i \in 45..52 => build_header92(n)[i] = NonceByte(n, i - 45)
              /\ i \in 53..60 => build_header92(n)[i] = difficulty(i - 53)
              /\ i \in 61..92 => build_header92(n)[i] = merkle_root(i - 61)
<1>1. ASSUME NEW i \in 1..92
      PROVE  /\ build_header92(n)[i] \in Int
             /\ i <= 4 => build_header92(n)[i] = block_number(i - 1)
             /\ i \in 5..36 => build_header92(n)[i] = previous_hash(i - 5)
             /\ i \in 37..44 => build_header92(n)[i] = timestamp(i - 37)
             /\ i \in 45..52 => build_header92(n)[i] = NonceByte(n, i - 45)
             /\ i \in 53..60 => build_header92(n)[i] = difficulty(i - 53)
             /\ i \in 61..92 => build_header92(n)[i] = merkle_root(i - 61)
  <2> DEFINE h == build_header92(n)[i]
  <2>0. h = CASE i <= 4  -> block_number(i - 1)
              [] i \in 5..36 -> previous_hash(i - 5)
              [] i \in 37..44 -> timestamp(i - 37)
              [] i \in 45..52 -> NonceByte(n, i - 45)
              [] i \in 53..60 -> difficulty(i - 53)
              [] i \in 61..92 -> merkle_root(i - 61)
    BY DEF build_header92
  <2> HIDE DEF h
  <2>1. CASE i <= 4
    BY <2>0, <2>1 DEF block_number, h
  <2>2. CASE i \in 5..36
    BY <2>0, <2>2 DEF previous_hash, h
  <2>3. CASE i \in 37..44
    BY <2>0, <2>3 DEF timestamp, h
  <2>4. CASE i \in 45..52
    BY <2>0, <2>4 DEF NonceByte, h
  <2>5. CASE i \in 53..60
    BY <2>0, <2>5 DEF difficulty, h
  <2>6. CASE i \in 61..92
    BY <2>0, <2>6 DEF merkle_root, h
  <2> QED
    BY <2>1, <2>2, <2>3, <2>4, <2>5, <2>6
<1>2. build_header92(n) = [i \in 1..92 |-> build_header92(n)[i]]
  BY DEF build_header92
<1> QED
  BY <1>1, <1>2

\* A block read as words.
LEMMA WordsAre ==
  ASSUME NEW b \in [1..64 -> Int]
  PROVE  /\ words_from_block(b) \in [1..16 -> Words]
         /\ \A j \in 1..16 :
              words_from_block(b)[j] = Word(b[4 * j - 3], b[4 * j - 2], b[4 * j - 1], b[4 * j])
<1>1. ASSUME NEW j \in 1..16
      PROVE  Word(b[4 * j - 3], b[4 * j - 2], b[4 * j - 1], b[4 * j]) \in Words
  <2> b[4 * j - 3] \in Int /\ b[4 * j - 2] \in Int /\ b[4 * j - 1] \in Int /\ b[4 * j] \in Int
    OBVIOUS
  <2> QED
    BY WordKind
<1> QED
  BY <1>1 DEF words_from_block

\* Both blocks, by the bytes of the header.
LEMMA BlocksOf ==
  ASSUME NEW n \in Nat
  PROVE  /\ Block0(n) \in [1..16 -> Words] /\ Block1(n) \in [1..16 -> Words]
         /\ \A j \in 1..16 : Block0(n)[j] = Word(build_header92(n)[4 * j - 3], build_header92(n)[4 * j - 2],
                                                 build_header92(n)[4 * j - 1], build_header92(n)[4 * j])
         /\ \A j \in 1..7 : Block1(n)[j] = Word(build_header92(n)[64 + 4 * j - 3], build_header92(n)[64 + 4 * j - 2],
                                                build_header92(n)[64 + 4 * j - 1], build_header92(n)[64 + 4 * j])
         /\ \A j \in 8..16 : Block1(n)[j] = Zero
<1> DEFINE h == build_header92(n)
           a == SubSeq(h, 1, 64)
           b == SubSeq(h, 65, 92)
           z == [i \in 1..36 |-> 0]
<1>1. h \in [1..92 -> Int]
  BY HeaderIs
<1> HIDE DEF h
<1>2. h \in Seq(Int) /\ Len(h) = 92
  <2>1. PICK l \in Nat : l = 92
    OBVIOUS
  <2>2. h \in [1..l -> Int]
    BY <1>1, <2>1
  <2>3. h \in Seq(Int) /\ Len(h) = l
    BY <2>2, IsSeq
  <2> QED
    BY <2>1, <2>3
<1>3. a \in [1..64 -> Int] /\ \A i \in 1..64 : a[i] = h[i]
  <2>1. PICK o \in Nat, l \in Nat : o = 0 /\ l = 64
    OBVIOUS
  <2>2. o + l <= Len(h)
    BY <1>2, <2>1
  <2>3. SubSeq(h, o + 1, o + l) \in [1..l -> Int] /\ \A i \in 1..l : SubSeq(h, o + 1, o + l)[i] = h[o + i]
    <3>1. PICK S : S = Int
      OBVIOUS
    <3>2. PICK v \in Seq(S) : v = h
      BY <1>2, <3>1
    <3>3. SubSeq(v, o + 1, o + l) \in [1..l -> S] /\ \A i \in 1..l : SubSeq(v, o + 1, o + l)[i] = v[o + i]
      BY <2>2, <3>2, SubSeqIs
    <3> QED
      BY <3>1, <3>2, <3>3
  <2>4. o + 1 = 1 /\ o + l = 64
    BY <2>1
  <2> QED
    BY <2>1, <2>3, <2>4
<1>4. b \in [1..28 -> Int] /\ \A i \in 1..28 : b[i] = h[64 + i]
  <2>1. PICK o \in Nat, l \in Nat : o = 64 /\ l = 28
    OBVIOUS
  <2>2. o + l <= Len(h)
    BY <1>2, <2>1
  <2>3. SubSeq(h, o + 1, o + l) \in [1..l -> Int] /\ \A i \in 1..l : SubSeq(h, o + 1, o + l)[i] = h[o + i]
    <3>1. PICK S : S = Int
      OBVIOUS
    <3>2. PICK v \in Seq(S) : v = h
      BY <1>2, <3>1
    <3>3. SubSeq(v, o + 1, o + l) \in [1..l -> S] /\ \A i \in 1..l : SubSeq(v, o + 1, o + l)[i] = v[o + i]
      BY <2>2, <3>2, SubSeqIs
    <3> QED
      BY <3>1, <3>2, <3>3
  <2>4. o + 1 = 65 /\ o + l = 92
    BY <2>1
  <2> QED
    BY <2>1, <2>3, <2>4
<1>5. z \in [1..36 -> Int] /\ \A i \in 1..36 : z[i] = 0
  OBVIOUS
<1> HIDE DEF a, b, z
<1> DEFINE c == b \o z
<1>6. c \in [1..64 -> Int] /\ (\A i \in 1..28 : c[i] = b[i]) /\ (\A i \in 1..36 : c[28 + i] = z[i])
  <2>0. PICK k \in Nat, l \in Nat : k = 28 /\ l = 36
    OBVIOUS
  <2>1. b \o z \in [1..k + l -> Int] /\ Holds(b \o z, 0, b, k) /\ Holds(b \o z, k, z, l)
    BY <1>4, <1>5, <2>0, Concat
  <2>2. PICK d : d = b \o z
    OBVIOUS
  <2>3. d \in [1..64 -> Int] /\ (\A i \in 1..28 : d[0 + i] = b[i]) /\ (\A i \in 1..36 : d[28 + i] = z[i])
    <3>1. k + l = 64
      BY <2>0
    <3>2. d \in [1..64 -> Int]
      BY <2>1, <2>2, <3>1
    <3>3. Holds(d, 0, b, 28) /\ Holds(d, 28, z, 36)
      BY <2>0, <2>1, <2>2
    <3> QED
      BY <3>2, <3>3 DEF Holds
  <2>4. \A i \in 1..28 : d[i] = b[i]
    <3> \A i \in 1..28 : 0 + i = i
      OBVIOUS
    <3> QED
      BY <2>3
  <2> QED
    BY <2>2, <2>3, <2>4 DEF c
<1> HIDE DEF c
<1>7. Block0(n) = words_from_block(a) /\ Block1(n) = words_from_block(c)
  BY DEF Block0, Block1, a, b, c, h, z
<1>8. ASSUME NEW j \in 1..16
      PROVE  Block0(n)[j] = Word(h[4 * j - 3], h[4 * j - 2], h[4 * j - 1], h[4 * j])
  <2>1. Block0(n)[j] = Word(a[4 * j - 3], a[4 * j - 2], a[4 * j - 1], a[4 * j])
    BY <1>3, <1>7, WordsAre
  <2>2. a[4 * j - 3] = h[4 * j - 3] /\ a[4 * j - 2] = h[4 * j - 2] /\ a[4 * j - 1] = h[4 * j - 1] /\ a[4 * j] = h[4 * j]
    BY <1>3
  <2> QED
    BY <2>1, <2>2
<1>9. ASSUME NEW j \in 1..7
      PROVE  Block1(n)[j] = Word(h[64 + 4 * j - 3], h[64 + 4 * j - 2], h[64 + 4 * j - 1], h[64 + 4 * j])
  <2>1. Block1(n)[j] = Word(c[4 * j - 3], c[4 * j - 2], c[4 * j - 1], c[4 * j])
    BY <1>6, <1>7, WordsAre
  <2>2. ASSUME NEW i \in 1..28 PROVE c[i] = h[64 + i]
    BY <1>4, <1>6
  <2>3. c[4 * j - 3] = h[64 + (4 * j - 3)] /\ c[4 * j - 2] = h[64 + (4 * j - 2)]
        /\ c[4 * j - 1] = h[64 + (4 * j - 1)] /\ c[4 * j] = h[64 + 4 * j]
    BY <2>2
  <2>4. 64 + (4 * j - 3) = 64 + 4 * j - 3 /\ 64 + (4 * j - 2) = 64 + 4 * j - 2 /\ 64 + (4 * j - 1) = 64 + 4 * j - 1
    OBVIOUS
  <2> QED
    BY <2>1, <2>3, <2>4
<1>10. ASSUME NEW j \in 8..16 PROVE Block1(n)[j] = Zero
  <2>1. Block1(n)[j] = Word(c[4 * j - 3], c[4 * j - 2], c[4 * j - 1], c[4 * j])
    BY <1>6, <1>7, WordsAre
  <2>2. ASSUME NEW i \in 29..64 PROVE c[i] = 0
    <3>1. i - 28 \in 1..36 /\ 28 + (i - 28) = i
      OBVIOUS
    <3> QED
      BY <1>5, <1>6, <3>1
  <2>3. c[4 * j - 3] = 0 /\ c[4 * j - 2] = 0 /\ c[4 * j - 1] = 0 /\ c[4 * j] = 0
    BY <2>2
  <2> QED
    BY <2>1, <2>3 DEF Zero, Small
<1>11. Block0(n) \in [1..16 -> Words] /\ Block1(n) \in [1..16 -> Words]
  BY <1>3, <1>6, <1>7, WordsAre
<1> QED
  BY <1>8, <1>9, <1>10, <1>11 DEF h

JobWords == alpha_header_words_from_fields

\* The words of the job, field by field.
LEMMA JobWordsAre ==
  /\ JobWords \in [1..23 -> Words]
  /\ JobWords[1] = Word(block_number(0), block_number(1), block_number(2), block_number(3))
  /\ \A i \in 1..8 : JobWords[1 + i] = Word(previous_hash(4 * i - 4), previous_hash(4 * i - 4 + 1),
                                            previous_hash(4 * i - 4 + 2), previous_hash(4 * i - 4 + 3))
  /\ JobWords[10] = Word(timestamp(0), timestamp(1), timestamp(2), timestamp(3))
  /\ JobWords[11] = Word(timestamp(4), timestamp(5), timestamp(6), timestamp(7))
  /\ JobWords[12] = Zero /\ JobWords[13] = Zero
  /\ JobWords[14] = Word(difficulty(0), difficulty(1), difficulty(2), difficulty(3))
  /\ JobWords[15] = Word(difficulty(4), difficulty(5), difficulty(6), difficulty(7))
  /\ \A i \in 1..8 : JobWords[15 + i] = Word(merkle_root(4 * i - 4), merkle_root(4 * i - 4 + 1),
                                             merkle_root(4 * i - 4 + 2), merkle_root(4 * i - 4 + 3))
<1> DEFINE u1 == Word(block_number(0), block_number(0 + 1), block_number(0 + 2), block_number(0 + 3))
           u2 == Word(timestamp(0), timestamp(0 + 1), timestamp(0 + 2), timestamp(0 + 3))
           u3 == Word(timestamp(4), timestamp(4 + 1), timestamp(4 + 2), timestamp(4 + 3))
           u4 == Word(difficulty(0), difficulty(0 + 1), difficulty(0 + 2), difficulty(0 + 3))
           u5 == Word(difficulty(4), difficulty(4 + 1), difficulty(4 + 2), difficulty(4 + 3))
           a == <<u1>>
           b == [i \in 1..8 |-> Word(previous_hash(4 * i - 4), previous_hash(4 * i - 4 + 1),
                                     previous_hash(4 * i - 4 + 2), previous_hash(4 * i - 4 + 3))]
           c == <<u2, u3, Zero, Zero, u4, u5>>
           d == [i \in 1..8 |-> Word(merkle_root(4 * i - 4), merkle_root(4 * i - 4 + 1),
                                     merkle_root(4 * i - 4 + 2), merkle_root(4 * i - 4 + 3))]
<1>1. JobWords = ((a \o b) \o c) \o d
  BY DEF JobWords, alpha_header_words_from_fields
<1>2. ASSUME NEW i \in Int
      PROVE  block_number(i) \in Int /\ previous_hash(i) \in Int /\ timestamp(i) \in Int
             /\ difficulty(i) \in Int /\ merkle_root(i) \in Int
  BY DEF block_number, previous_hash, timestamp, difficulty, merkle_root
<1>3. u1 \in Words /\ u2 \in Words /\ u3 \in Words /\ u4 \in Words /\ u5 \in Words
  <2>1. ASSUME NEW i \in Int
        PROVE  /\ Word(block_number(i), block_number(i + 1), block_number(i + 2), block_number(i + 3)) \in Words
               /\ Word(timestamp(i), timestamp(i + 1), timestamp(i + 2), timestamp(i + 3)) \in Words
               /\ Word(difficulty(i), difficulty(i + 1), difficulty(i + 2), difficulty(i + 3)) \in Words
    <3>1. i + 1 \in Int /\ i + 2 \in Int /\ i + 3 \in Int
      OBVIOUS
    <3>2. Word(block_number(i), block_number(i + 1), block_number(i + 2), block_number(i + 3)) \in Words
      BY <1>2, <3>1, WordKind
    <3>3. Word(timestamp(i), timestamp(i + 1), timestamp(i + 2), timestamp(i + 3)) \in Words
      BY <1>2, <3>1, WordKind
    <3>4. Word(difficulty(i), difficulty(i + 1), difficulty(i + 2), difficulty(i + 3)) \in Words
      BY <1>2, <3>1, WordKind
    <3> QED
      BY <3>2, <3>3, <3>4
  <2>2. 0 \in Int /\ 4 \in Int
    OBVIOUS
  <2> QED
    BY <2>1, <2>2
<1>4. b \in [1..8 -> Words] /\ d \in [1..8 -> Words]
  <2> ASSUME NEW i \in 1..8
      PROVE  /\ Word(previous_hash(4 * i - 4), previous_hash(4 * i - 4 + 1),
                     previous_hash(4 * i - 4 + 2), previous_hash(4 * i - 4 + 3)) \in Words
             /\ Word(merkle_root(4 * i - 4), merkle_root(4 * i - 4 + 1),
                     merkle_root(4 * i - 4 + 2), merkle_root(4 * i - 4 + 3)) \in Words
    <3> PICK k \in Int : k = 4 * i - 4
      OBVIOUS
    <3>1. k + 1 \in Int /\ k + 2 \in Int /\ k + 3 \in Int
      OBVIOUS
    <3>2. /\ Word(previous_hash(k), previous_hash(k + 1), previous_hash(k + 2), previous_hash(k + 3)) \in Words
          /\ Word(merkle_root(k), merkle_root(k + 1), merkle_root(k + 2), merkle_root(k + 3)) \in Words
      BY <1>2, <3>1, WordKind
    <3> QED
      BY <3>2
  <2> QED
    OBVIOUS
<1>5. /\ b = [i \in 1..8 |-> b[i]] /\ d = [i \in 1..8 |-> d[i]]
      /\ \A i \in 1..8 : /\ b[i] = Word(previous_hash(4 * i - 4), previous_hash(4 * i - 4 + 1),
                                        previous_hash(4 * i - 4 + 2), previous_hash(4 * i - 4 + 3))
                         /\ d[i] = Word(merkle_root(4 * i - 4), merkle_root(4 * i - 4 + 1),
                                        merkle_root(4 * i - 4 + 2), merkle_root(4 * i - 4 + 3))
  OBVIOUS
<1>6. /\ u1 = Word(block_number(0), block_number(1), block_number(2), block_number(3))
      /\ u2 = Word(timestamp(0), timestamp(1), timestamp(2), timestamp(3))
      /\ u3 = Word(timestamp(4), timestamp(5), timestamp(6), timestamp(7))
      /\ u4 = Word(difficulty(0), difficulty(1), difficulty(2), difficulty(3))
      /\ u5 = Word(difficulty(4), difficulty(5), difficulty(6), difficulty(7))
  BY DEF timestamp, block_number, difficulty
<1> HIDE DEF u1, u2, u3, u4, u5, b, d
<1>7. a \in [1..1 -> Words] /\ a[1] = u1
  BY <1>3
<1>8. /\ c \in [1..6 -> Words] /\ c[1] = u2 /\ c[2] = u3 /\ c[3] = Zero /\ c[4] = Zero
      /\ c[5] = u4 /\ c[6] = u5
  BY <1>3, SmallWords
<1> HIDE DEF a, c
<1>9. PICK n1 \in Nat, n8 \in Nat, n6 \in Nat : n1 = 1 /\ n8 = 8 /\ n6 = 6
  OBVIOUS
<1> DEFINE ab == a \o b
           abc == ab \o c
           w == abc \o d
<1>10. ab \in [1..n1 + n8 -> Words] /\ Holds(ab, 0, a, n1) /\ Holds(ab, n1, b, n8)
  BY <1>4, <1>7, <1>9, Concat
<1> HIDE DEF ab
<1>11. ab \in [1..9 -> Words] /\ Holds(ab, 0, a, 1) /\ Holds(ab, 1, b, 8)
  BY <1>9, <1>10
<1>12. PICK n9 \in Nat, n15 \in Nat : n9 = 9 /\ n15 = 15
  OBVIOUS
<1>13. abc \in [1..n9 + n6 -> Words] /\ Holds(abc, 0, ab, n9) /\ Holds(abc, n9, c, n6)
  BY <1>8, <1>9, <1>11, <1>12, Concat
<1> HIDE DEF abc
<1>14. abc \in [1..15 -> Words] /\ Holds(abc, 0, ab, 9) /\ Holds(abc, 9, c, 6)
  BY <1>9, <1>12, <1>13
<1>15. w \in [1..n15 + n8 -> Words] /\ Holds(w, 0, abc, n15) /\ Holds(w, n15, d, n8)
  BY <1>4, <1>9, <1>12, <1>14, Concat
<1> HIDE DEF w
<1>16. w \in [1..23 -> Words] /\ Holds(w, 0, abc, 15) /\ Holds(w, 15, d, 8)
  BY <1>9, <1>12, <1>15
<1>17. JobWords = w
  BY <1>1 DEF w, abc, ab
<1>18. ASSUME NEW i \in 1..15 PROVE w[i] = abc[i]
  <2> 0 + i = i
    OBVIOUS
  <2> QED
    BY <1>16 DEF Holds
<1>19. ASSUME NEW i \in 1..9 PROVE w[i] = ab[i]
  <2> 0 + i = i /\ i \in 1..15
    OBVIOUS
  <2> QED
    BY <1>14, <1>18 DEF Holds
<1>20. w[1] = u1
  <2> 0 + 1 = 1 /\ 1 \in 1..9 /\ 1 \in 1..1
    OBVIOUS
  <2>1. ab[1] = a[1]
    BY <1>11 DEF Holds
  <2> QED
    BY <1>7, <1>19, <2>1
<1>21. ASSUME NEW i \in 1..8 PROVE w[1 + i] = b[i]
  <2> 1 + i \in 1..9
    OBVIOUS
  <2> QED
    BY <1>11, <1>19 DEF Holds
<1>22. ASSUME NEW i \in 1..6 PROVE w[9 + i] = c[i]
  <2> 9 + i \in 1..15
    OBVIOUS
  <2> QED
    BY <1>14, <1>18 DEF Holds
<1>23. ASSUME NEW i \in 1..8 PROVE w[15 + i] = d[i]
  BY <1>16 DEF Holds
<1>24. w[10] = u2 /\ w[11] = u3 /\ w[12] = Zero /\ w[13] = Zero /\ w[14] = u4 /\ w[15] = u5
  <2>1. w[9 + 1] = c[1] /\ w[9 + 2] = c[2] /\ w[9 + 3] = c[3] /\ w[9 + 4] = c[4] /\ w[9 + 5] = c[5] /\ w[9 + 6] = c[6]
    BY <1>22
  <2>2. 9 + 1 = 10 /\ 9 + 2 = 11 /\ 9 + 3 = 12 /\ 9 + 4 = 13 /\ 9 + 5 = 14 /\ 9 + 6 = 15
    OBVIOUS
  <2> QED
    BY <1>8, <2>1, <2>2
<1> QED
  BY <1>5, <1>6, <1>16, <1>17, <1>20, <1>21, <1>23, <1>24

\* The words of the job are those of both blocks, but for the nonce.
LEMMA SameHeader ==
  ASSUME NEW n \in Nat
  PROVE  /\ \A j \in 1..16 : j # 12 /\ j # 13 => Block0(n)[j] = JobWords[j]
         /\ Block0(n)[12] = NonceLow(n) /\ Block0(n)[13] = NonceHigh(n)
         /\ \A j \in 1..7 : Block1(n)[j] = JobWords[16 + j]
<1> DEFINE h == build_header92(n)
<1>1. \A i \in 1..92 :
              /\ i <= 4 => h[i] = block_number(i - 1)
              /\ i \in 5..36 => h[i] = previous_hash(i - 5)
              /\ i \in 37..44 => h[i] = timestamp(i - 37)
              /\ i \in 45..52 => h[i] = NonceByte(n, i - 45)
              /\ i \in 53..60 => h[i] = difficulty(i - 53)
              /\ i \in 61..92 => h[i] = merkle_root(i - 61)
  BY HeaderIs
<1>2. /\ \A j \in 1..16 : Block0(n)[j] = Word(h[4 * j - 3], h[4 * j - 2], h[4 * j - 1], h[4 * j])
      /\ \A j \in 1..7 : Block1(n)[j] = Word(h[64 + 4 * j - 3], h[64 + 4 * j - 2], h[64 + 4 * j - 1], h[64 + 4 * j])
  BY BlocksOf
<1> HIDE DEF h
<1>3. Block0(n)[1] = JobWords[1]
  <2>1. Block0(n)[1] = Word(h[1], h[2], h[3], h[4])
    BY <1>2
  <2>2. h[1] = block_number(0) /\ h[2] = block_number(1) /\ h[3] = block_number(2) /\ h[4] = block_number(3)
    BY <1>1
  <2> QED
    BY <2>1, <2>2, JobWordsAre
<1>4. ASSUME NEW i \in 1..8 PROVE Block0(n)[1 + i] = JobWords[1 + i]
  <2>1. Block0(n)[1 + i] = Word(h[4 * i + 1], h[4 * i + 2], h[4 * i + 3], h[4 * i + 4])
    <3> /\ 1 + i \in 1..16 /\ 4 * (1 + i) - 3 = 4 * i + 1 /\ 4 * (1 + i) - 2 = 4 * i + 2
        /\ 4 * (1 + i) - 1 = 4 * i + 3 /\ 4 * (1 + i) = 4 * i + 4
      OBVIOUS
    <3> QED
      BY <1>2
  <2>2. /\ h[4 * i + 1] = previous_hash(4 * i - 4) /\ h[4 * i + 2] = previous_hash(4 * i - 4 + 1)
        /\ h[4 * i + 3] = previous_hash(4 * i - 4 + 2) /\ h[4 * i + 4] = previous_hash(4 * i - 4 + 3)
    <3>1. ASSUME NEW k \in 5..36 PROVE h[k] = previous_hash(k - 5)
      BY <1>1
    <3>2. h[4 * i + 1] = previous_hash(4 * i + 1 - 5) /\ h[4 * i + 2] = previous_hash(4 * i + 2 - 5)
        /\ h[4 * i + 3] = previous_hash(4 * i + 3 - 5) /\ h[4 * i + 4] = previous_hash(4 * i + 4 - 5)
      BY <3>1
    <3>3. 4 * i + 1 - 5 = 4 * i - 4 /\ 4 * i + 2 - 5 = 4 * i - 4 + 1 /\ 4 * i + 3 - 5 = 4 * i - 4 + 2
          /\ 4 * i + 4 - 5 = 4 * i - 4 + 3
      OBVIOUS
    <3> QED
      BY <3>2, <3>3
  <2> QED
    BY <2>1, <2>2, JobWordsAre
<1>5. Block0(n)[10] = JobWords[10] /\ Block0(n)[11] = JobWords[11]
  <2>1. Block0(n)[10] = Word(h[37], h[38], h[39], h[40]) /\ Block0(n)[11] = Word(h[41], h[42], h[43], h[44])
    BY <1>2
  <2>2. /\ h[37] = timestamp(0) /\ h[38] = timestamp(1) /\ h[39] = timestamp(2) /\ h[40] = timestamp(3)
        /\ h[41] = timestamp(4) /\ h[42] = timestamp(5) /\ h[43] = timestamp(6) /\ h[44] = timestamp(7)
    BY <1>1
  <2> QED
    BY <2>1, <2>2, JobWordsAre
<1>6. Block0(n)[12] = NonceLow(n) /\ Block0(n)[13] = NonceHigh(n)
  <2>1. Block0(n)[12] = Word(h[45], h[46], h[47], h[48]) /\ Block0(n)[13] = Word(h[49], h[50], h[51], h[52])
    BY <1>2
  <2>2. /\ h[45] = NonceByte(n, 0) /\ h[46] = NonceByte(n, 1) /\ h[47] = NonceByte(n, 2) /\ h[48] = NonceByte(n, 3)
        /\ h[49] = NonceByte(n, 4) /\ h[50] = NonceByte(n, 5) /\ h[51] = NonceByte(n, 6) /\ h[52] = NonceByte(n, 7)
    BY <1>1
  <2> QED
    BY <2>1, <2>2 DEF NonceLow, NonceHigh
<1>7. Block0(n)[14] = JobWords[14] /\ Block0(n)[15] = JobWords[15]
  <2>1. Block0(n)[14] = Word(h[53], h[54], h[55], h[56]) /\ Block0(n)[15] = Word(h[57], h[58], h[59], h[60])
    BY <1>2
  <2>2. /\ h[53] = difficulty(0) /\ h[54] = difficulty(1) /\ h[55] = difficulty(2) /\ h[56] = difficulty(3)
        /\ h[57] = difficulty(4) /\ h[58] = difficulty(5) /\ h[59] = difficulty(6) /\ h[60] = difficulty(7)
    BY <1>1
  <2> QED
    BY <2>1, <2>2, JobWordsAre
<1>8. ASSUME NEW k \in 61..92 PROVE h[k] = merkle_root(k - 61)
  BY <1>1
<1>9. Block0(n)[16] = JobWords[16]
  <2>1. Block0(n)[16] = Word(h[61], h[62], h[63], h[64])
    BY <1>2
  <2>2. h[61] = merkle_root(0) /\ h[62] = merkle_root(1) /\ h[63] = merkle_root(2) /\ h[64] = merkle_root(3)
    BY <1>8
  <2>3. JobWords[15 + 1] = Word(merkle_root(4 * 1 - 4), merkle_root(4 * 1 - 4 + 1),
                                merkle_root(4 * 1 - 4 + 2), merkle_root(4 * 1 - 4 + 3))
    BY JobWordsAre
  <2>4. 15 + 1 = 16 /\ 4 * 1 - 4 = 0 /\ 0 + 1 = 1 /\ 0 + 2 = 2 /\ 0 + 3 = 3
    OBVIOUS
  <2> QED
    BY <2>1, <2>2, <2>3, <2>4
<1>10. ASSUME NEW j \in 1..7 PROVE Block1(n)[j] = JobWords[16 + j]
  <2>1. Block1(n)[j] = Word(h[64 + 4 * j - 3], h[64 + 4 * j - 2], h[64 + 4 * j - 1], h[64 + 4 * j])
    BY <1>2
  <2>2. /\ h[64 + 4 * j - 3] = merkle_root(64 + 4 * j - 3 - 61) /\ h[64 + 4 * j - 2] = merkle_root(64 + 4 * j - 2 - 61)
        /\ h[64 + 4 * j - 1] = merkle_root(64 + 4 * j - 1 - 61) /\ h[64 + 4 * j] = merkle_root(64 + 4 * j - 61)
    BY <1>8
  <2> PICK i \in 1..8 : i = j + 1
    OBVIOUS
  <2>3. /\ 64 + 4 * j - 3 - 61 = 4 * i - 4 /\ 64 + 4 * j - 2 - 61 = 4 * i - 4 + 1
        /\ 64 + 4 * j - 1 - 61 = 4 * i - 4 + 2 /\ 64 + 4 * j - 61 = 4 * i - 4 + 3 /\ 16 + j = 15 + i
    OBVIOUS
  <2>4. JobWords[15 + i] = Word(merkle_root(4 * i - 4), merkle_root(4 * i - 4 + 1),
                                merkle_root(4 * i - 4 + 2), merkle_root(4 * i - 4 + 3))
    BY JobWordsAre
  <2> QED
    BY <2>1, <2>2, <2>3, <2>4
<1>11. ASSUME NEW j \in 1..16, j # 12, j # 13 PROVE Block0(n)[j] = JobWords[j]
  <2>1. j = 1 \/ j \in 2..9 \/ j = 10 \/ j = 11 \/ j = 14 \/ j = 15 \/ j = 16
    BY <1>11
  <2>2. CASE j \in 2..9
    <3> PICK i \in 1..8 : j = 1 + i
      BY <2>2
    <3> QED
      BY <1>4
  <2> QED
    BY <1>3, <1>5, <1>7, <1>9, <2>1, <2>2
<1> QED
  BY <1>6, <1>10, <1>11

-----------------------------------------------------------------------------
(* What a compression starts from.                                         *)

\* Nodes of terms that are in the graph.
LEMMA NodesRead ==
  ASSUME NEW gr, NEW val, NEW n \in Nat, NEW S, NEW t \in [1..n -> S], NEW w,
         \A i \in 1..n : Stands(gr, val, t[i], w[i])
  PROVE  Reads(gr, val, NodesOf(gr, t), n, w)
<1>1. Len(t) = n
  BY IsSeq
<1>2. NodesOf(gr, t) = [i \in 1..n |-> Node(gr, t[i])]
  BY <1>1 DEF NodesOf
<1>3. ASSUME NEW i \in 1..n
      PROVE  Node(gr, t[i]) \in Nat /\ Node(gr, t[i]) \in 1..Len(gr) /\ val[Node(gr, t[i])] = w[i]
  <2> Node(gr, t[i]) \in 1..Len(gr) /\ val[Node(gr, t[i])] = w[i]
    BY DEF Stands
  <2> QED
    OBVIOUS
<1> HIDE DEF NodesOf
<1> QED
  BY <1>2, <1>3 DEF Reads

\* Words, put into a graph.
LEMMA WordsGrow ==
  ASSUME NEW gr, NEW val, Means(gr, val), NEW n \in Nat, NEW t \in [1..n -> Words]
  PROVE  \E val2 : /\ Grows(gr, val, With(gr, t), val2)
                   /\ \A i \in 1..n : Stands(With(gr, t), val2, t[i], t[i])
<1>1. t \in [1..n -> Term(1..Len(gr))]
  BY DEF Term
<1>2. \A i \in 1..n : Mean(val, t[i]) = t[i]
  BY WordKind
<1>3. PICK val2 : Grows(gr, val, With(gr, t), val2) /\ AllStand(With(gr, t), val2, val, t, n)
  BY <1>1, WithGrows
<1>4. \A i \in 1..n : Stands(With(gr, t), val2, t[i], t[i])
  BY <1>2, <1>3 DEF AllStand
<1> QED
  BY <1>3, <1>4

\* The chaining value of sixteen registers.
FoldOf(p) == [i \in 1..8 |-> <<"xor", p[i], p[i + 8]>>]

\* What the registers mean at the start of a compression.
StartOf(c, block_len, flags) ==
  [i \in 1..16 |->
     IF i <= 8 THEN c[i] ELSE IF i <= 12 THEN IV[i - 8]
     ELSE IF i <= 14 THEN Zero ELSE IF i = 15 THEN Small(block_len) ELSE Small(flags)]

Fixed(block_len, flags) == SubSeq(IV, 1, 4) \o <<Zero, Zero, Small(block_len), Small(flags)>>

\* The last eight registers a compression starts from.
LEMMA FixedAre ==
  ASSUME NEW block_len \in Int, NEW flags \in Int, NEW c
  PROVE  /\ Fixed(block_len, flags) \in [1..8 -> Words]
         /\ \A i \in 1..8 : Fixed(block_len, flags)[i] = StartOf(c, block_len, flags)[8 + i]
<1> DEFINE a == SubSeq(IV, 1, 4)
           b == <<Zero, Zero, Small(block_len), Small(flags)>>
           f == a \o b
<1>1. IV \in Seq(Words) /\ Len(IV) = 8
  <2>1. IV \in [1..8 -> Words]
    <3>1. IV = [i \in 1..8 |-> IV[i]]
      BY DEF IV
    <3> QED
      BY <3>1, SmallWords
  <2>2. PICK l \in Nat : l = 8
    OBVIOUS
  <2>5. PICK S, x : S = Words /\ x = IV
    OBVIOUS
  <2>3. x \in [1..l -> S]
    BY <2>1, <2>2, <2>5
  <2>4. x \in Seq(S) /\ Len(x) = l
    BY <2>3, IsSeq
  <2> QED
    BY <2>2, <2>4, <2>5
<1>2. a \in [1..4 -> Words] /\ \A i \in 1..4 : a[i] = IV[i]
  <2>1. PICK o \in Nat, l \in Nat : o = 0 /\ l = 4
    OBVIOUS
  <2>2. o + l <= Len(IV)
    BY <1>1, <2>1
  <2>6. PICK S : S = Words
    OBVIOUS
  <2>3. PICK x \in Seq(S) : x = IV
    BY <1>1, <2>6
  <2>4. SubSeq(x, o + 1, o + l) \in [1..l -> S] /\ \A i \in 1..l : SubSeq(x, o + 1, o + l)[i] = x[o + i]
    BY <2>2, <2>3, SubSeqIs
  <2>5. o + 1 = 1 /\ o + l = 4
    BY <2>1
  <2> QED
    BY <2>1, <2>3, <2>4, <2>5, <2>6
<1>3. /\ b \in [1..4 -> Words] /\ b[1] = Zero /\ b[2] = Zero
      /\ b[3] = Small(block_len) /\ b[4] = Small(flags)
  BY SmallWords
<1> HIDE DEF a, b
<1>4. f \in [1..8 -> Words] /\ Holds(f, 0, a, 4) /\ Holds(f, 4, b, 4)
  <2>1. PICK k \in Nat : k = 4
    OBVIOUS
  <2>2. a \o b \in [1..k + k -> Words] /\ Holds(a \o b, 0, a, k) /\ Holds(a \o b, k, b, k)
    BY <1>2, <1>3, <2>1, Concat
  <2>3. k + k = 8
    BY <2>1
  <2> QED
    BY <2>1, <2>2, <2>3
<1> HIDE DEF f
<1>5. ASSUME NEW i \in 1..8 PROVE f[i] = StartOf(c, block_len, flags)[8 + i]
  <2>1. CASE i \in 1..4
    <3>1. 0 + i = i
      OBVIOUS
    <3>2. f[i] = IV[i]
      BY <1>2, <1>4, <2>1, <3>1 DEF Holds
    <3>3. ~(8 + i <= 8) /\ 8 + i <= 12 /\ 8 + i - 8 = i /\ 8 + i \in 1..16
      BY <2>1
    <3> QED
      BY <3>2, <3>3 DEF StartOf
  <2>2. CASE i \in 5..8
    <3>1. PICK j \in 1..4 : i = 4 + j
      BY <2>2
    <3>2. f[i] = b[j]
      BY <1>4, <3>1 DEF Holds
    <3>3. ~(8 + i <= 8) /\ ~(8 + i <= 12) /\ 8 + i \in 1..16
      BY <2>2
    <3>4. StartOf(c, block_len, flags)[8 + i]
            = IF 8 + i <= 14 THEN Zero ELSE IF 8 + i = 15 THEN Small(block_len) ELSE Small(flags)
      BY <3>3 DEF StartOf
    <3>5. j = 1 \/ j = 2 \/ j = 3 \/ j = 4
      OBVIOUS
    <3>6. CASE j = 1 \/ j = 2
      BY <1>3, <3>1, <3>2, <3>4, <3>6
    <3>7. CASE j = 3
      BY <1>3, <3>1, <3>2, <3>4, <3>7
    <3>8. CASE j = 4
      BY <1>3, <3>1, <3>2, <3>4, <3>8
    <3> QED
      BY <3>5, <3>6, <3>7, <3>8
  <2> QED
    BY <2>1, <2>2
<1>6. Fixed(block_len, flags) = f
  BY DEF Fixed, f, a, b
<1> QED
  BY <1>4, <1>5, <1>6

\* compress, up to its rounds.
LEMMA StartShows ==
  ASSUME NEW gr, NEW val, Means(gr, val), NEW cv, NEW c, Reads(gr, val, cv, 8, c),
         NEW w \in [1..16 -> Words], NEW block_len \in Int, NEW flags \in Int,
         NEW s, s = CompressStart(gr, cv, w, block_len, flags)
  PROVE  \E val2 : /\ Grows(gr, val, s.graph, val2)
                   /\ Shows([graph |-> s.graph, v |-> s.v], val2, StartOf(c, block_len, flags))
                   /\ Reads(s.graph, val2, s.m, 16, w)
<1> DEFINE f == Fixed(block_len, flags)
           fw == f \o w
           all == With(gr, fw)
           v == cv \o NodesOf(all, f)
           p == StartOf(c, block_len, flags)
<1>1. s = [graph |-> all, v |-> v, m |-> NodesOf(all, w)]
  BY DEF CompressStart, Fixed
<1>2. f \in [1..8 -> Words] /\ \A i \in 1..8 : f[i] = p[8 + i]
  BY FixedAre
<1> HIDE DEF f, p
<1>3. PICK n8 \in Nat, n16 \in Nat, n24 \in Nat : n8 = 8 /\ n16 = 16 /\ n24 = 24
  OBVIOUS
<1>4. fw \in [1..24 -> Words] /\ Holds(fw, 0, f, 8) /\ Holds(fw, 8, w, 16)
  <2>1. f \o w \in [1..n8 + n16 -> Words] /\ Holds(f \o w, 0, f, n8) /\ Holds(f \o w, n8, w, n16)
    BY <1>2, <1>3, Concat
  <2>2. n8 + n16 = 24
    BY <1>3
  <2> QED
    BY <1>3, <2>1, <2>2
<1> HIDE DEF fw
<1>5. PICK val2 : /\ Grows(gr, val, all, val2)
                  /\ \A i \in 1..24 : Stands(all, val2, fw[i], fw[i])
  <2>1. fw \in [1..n24 -> Words]
    BY <1>3, <1>4
  <2>2. \E val2 : /\ Grows(gr, val, With(gr, fw), val2)
                  /\ \A i \in 1..n24 : Stands(With(gr, fw), val2, fw[i], fw[i])
    BY <2>1, WordsGrow
  <2> QED
    BY <1>3, <2>2
<1> HIDE DEF all
<1>6. Reads(all, val2, NodesOf(all, f), 8, f)
  <2>1. ASSUME NEW i \in 1..8 PROVE Stands(all, val2, f[i], f[i])
    <3>1. i \in 1..24 /\ 0 + i = i
      OBVIOUS
    <3>2. fw[i] = f[i]
      BY <1>4, <3>1 DEF Holds
    <3> QED
      BY <1>5, <3>1, <3>2
  <2>2. f \in [1..n8 -> Words] /\ \A i \in 1..n8 : Stands(all, val2, f[i], f[i])
    BY <1>2, <1>3, <2>1
  <2>3. Reads(all, val2, NodesOf(all, f), n8, f)
    BY <2>2, NodesRead
  <2> QED
    BY <1>3, <2>3
<1>7. Reads(all, val2, NodesOf(all, w), 16, w)
  <2>1. ASSUME NEW i \in 1..16 PROVE Stands(all, val2, w[i], w[i])
    <3>1. 8 + i \in 1..24
      OBVIOUS
    <3>2. fw[8 + i] = w[i]
      BY <1>4 DEF Holds
    <3> QED
      BY <1>5, <3>1, <3>2
  <2>2. w \in [1..n16 -> Words] /\ \A i \in 1..n16 : Stands(all, val2, w[i], w[i])
    BY <1>3, <2>1
  <2>3. Reads(all, val2, NodesOf(all, w), n16, w)
    BY <2>2, NodesRead
  <2> QED
    BY <1>3, <2>3
<1>8. Reads(all, val2, cv, 8, c)
  BY <1>5, ReadsOn
<1>9. v \in [1..16 -> Nat] /\ Holds(v, 0, cv, 8) /\ Holds(v, 8, NodesOf(all, f), 8)
  <2> DEFINE x == NodesOf(all, f)
  <2>1. cv \in [1..n8 -> Nat] /\ x \in [1..n8 -> Nat]
    BY <1>3, <1>6, <1>8 DEF Reads
  <2> HIDE DEF x
  <2>2. cv \o x \in [1..n8 + n8 -> Nat] /\ Holds(cv \o x, 0, cv, n8) /\ Holds(cv \o x, n8, x, n8)
    BY <2>1, Concat
  <2>3. n8 + n8 = 16
    BY <1>3
  <2> QED
    BY <1>3, <2>2, <2>3 DEF x
<1> HIDE DEF v
<1>10. ASSUME NEW i \in 1..16 PROVE v[i] \in 1..Len(all) /\ val2[v[i]] = p[i]
  <2>1. CASE i \in 1..8
    <3>1. 0 + i = i
      OBVIOUS
    <3>2. v[i] = cv[i]
      BY <1>9, <2>1, <3>1 DEF Holds
    <3>3. p[i] = c[i]
      BY <2>1 DEF p, StartOf
    <3> QED
      BY <1>8, <2>1, <3>2, <3>3 DEF Reads
  <2>2. CASE i \in 9..16
    <3>1. PICK j \in 1..8 : i = 8 + j
      BY <2>2
    <3>2. v[i] = NodesOf(all, f)[j]
      BY <1>9, <3>1 DEF Holds
    <3>3. p[i] = f[j]
      BY <1>2, <3>1
    <3> QED
      BY <1>6, <3>2, <3>3 DEF Reads
  <2> QED
    BY <2>1, <2>2
<1> DEFINE r == [graph |-> all, v |-> v]
<1>11. Shows(r, val2, p)
  <2>1. r.graph = all /\ r.v = v
    OBVIOUS
  <2>2. Means(all, val2)
    BY <1>5 DEF Grows
  <2>3. all \in Seq(Term(Nat))
    BY <2>2 DEF Means
  <2>4. r \in State
    BY <1>9, <2>3 DEF State
  <2> HIDE DEF r
  <2> QED
    BY <1>10, <2>1, <2>2, <2>4 DEF Shows
<1>12. s.graph = all /\ s.v = v /\ s.m = NodesOf(all, w)
  BY <1>1
<1> QED
  BY <1>5, <1>7, <1>11, <1>12 DEF p

\* The registers after r rounds over the words w.
Rounds(p, w, r) ==
  LET a1 == PRound(p, w, Schedule0[1])
      a2 == PRound(a1, w, Schedule0[2])
      a3 == PRound(a2, w, Schedule0[3])
      a4 == PRound(a3, w, Schedule0[4])
      a5 == PRound(a4, w, Schedule0[5])
      a6 == PRound(a5, w, Schedule0[6])
      a7 == PRound(a6, w, Schedule0[7])
  IN <<p, a1, a2, a3, a4, a5, a6, a7>>[r + 1]

\* One more round.
LEMMA RoundsAre ==
  ASSUME NEW p, NEW w
  PROVE  /\ Rounds(p, w, 0) = p
         /\ \A r \in 0..6 : Rounds(p, w, r + 1) = PRound(Rounds(p, w, r), w, Schedule0[r + 1])
<1> DEFINE a1 == PRound(p, w, Schedule0[1])
           a2 == PRound(a1, w, Schedule0[2])
           a3 == PRound(a2, w, Schedule0[3])
           a4 == PRound(a3, w, Schedule0[4])
           a5 == PRound(a4, w, Schedule0[5])
           a6 == PRound(a5, w, Schedule0[6])
           a7 == PRound(a6, w, Schedule0[7])
           a  == <<p, a1, a2, a3, a4, a5, a6, a7>>
<1>1. \A r : Rounds(p, w, r) = a[r + 1]
  BY DEF Rounds
<1>2. /\ a1 = PRound(p, w, Schedule0[1]) /\ a2 = PRound(a1, w, Schedule0[2])
      /\ a3 = PRound(a2, w, Schedule0[3]) /\ a4 = PRound(a3, w, Schedule0[4])
      /\ a5 = PRound(a4, w, Schedule0[5]) /\ a6 = PRound(a5, w, Schedule0[6])
      /\ a7 = PRound(a6, w, Schedule0[7])
  OBVIOUS
<1> HIDE DEF a1, a2, a3, a4, a5, a6, a7
<1>3. /\ a[1] = p /\ a[2] = a1 /\ a[3] = a2 /\ a[4] = a3 /\ a[5] = a4 /\ a[6] = a5
      /\ a[7] = a6 /\ a[8] = a7
  OBVIOUS
<1> HIDE DEF a
<1>4. ASSUME NEW r \in 0..6 PROVE a[r + 2] = PRound(a[r + 1], w, Schedule0[r + 1])
  <2>1. r = 0 \/ r = 1 \/ r = 2 \/ r = 3 \/ r = 4 \/ r = 5 \/ r = 6
    OBVIOUS
  <2> QED
    BY <1>2, <1>3, <2>1
<1>5. Rounds(p, w, 0) = p
  <2>1. Rounds(p, w, 0) = a[0 + 1] /\ 0 + 1 = 1
    BY <1>1
  <2> QED
    BY <1>3, <2>1
<1>6. ASSUME NEW r \in 0..6
      PROVE  Rounds(p, w, r + 1) = PRound(Rounds(p, w, r), w, Schedule0[r + 1])
  <2>1. Rounds(p, w, r + 1) = a[r + 1 + 1] /\ r + 1 + 1 = r + 2 /\ Rounds(p, w, r) = a[r + 1]
    BY <1>1
  <2> QED
    BY <1>4, <2>1
<1> QED
  BY <1>5, <1>6

\* The first eight words of a compression, put into the graph.
LEMMA FoldTerms ==
  ASSUME NEW s, NEW val, NEW p, Shows(s, val, p)
  PROVE  /\ Folded(s) \in [1..8 -> Term(1..Len(s.graph))]
         /\ \A i \in 1..8 : Mean(val, Folded(s)[i]) = FoldOf(p)[i]
<1> SUFFICES ASSUME NEW i \in 1..8
             PROVE  /\ <<"xor", s.v[i], s.v[i + 8]>> \in Term(1..Len(s.graph))
                    /\ Mean(val, <<"xor", s.v[i], s.v[i + 8]>>) = FoldOf(p)[i]
  BY DEF Folded
<1>1. i \in 1..16 /\ i + 8 \in 1..16
  OBVIOUS
<1>2. /\ s.v[i] \in 1..Len(s.graph) /\ s.v[i + 8] \in 1..Len(s.graph)
      /\ val[s.v[i]] = p[i] /\ val[s.v[i + 8]] = p[i + 8]
  BY <1>1 DEF Shows
<1>3. PICK D : D = 1..Len(s.graph)
  OBVIOUS
<1>4. <<"xor", s.v[i], s.v[i + 8]>> \in XorsOf(D)
  BY <1>2, <1>3, XorKind
<1>5. Mean(val, <<"xor", s.v[i], s.v[i + 8]>>) = <<"xor", val[s.v[i]], val[s.v[i + 8]]>>
  BY XorKind
<1>6. FoldOf(p)[i] = <<"xor", p[i], p[i + 8]>>
  BY DEF FoldOf
<1> QED
  BY <1>2, <1>3, <1>4, <1>5, <1>6 DEF Term

\* Their nodes mean what the chaining value is.
LEMMA FoldShows ==
  ASSUME NEW s, NEW val, NEW p, Shows(s, val, p), NEW t, t = Folded(s)
  PROVE  \E val2 : /\ Grows(s.graph, val, With(s.graph, t), val2)
                   /\ Reads(With(s.graph, t), val2, NodesOf(With(s.graph, t), t), 8, FoldOf(p))
<1>1. PICK n \in Nat : n = 8
  OBVIOUS
<1>2. PICK gr : gr = s.graph
  OBVIOUS
<1>3. Means(gr, val)
  BY <1>2 DEF Shows
<1>4. t \in [1..n -> Term(1..Len(gr))] /\ \A i \in 1..n : Mean(val, t[i]) = FoldOf(p)[i]
  BY <1>1, <1>2, FoldTerms
<1>5. PICK val2 : Grows(gr, val, With(gr, t), val2) /\ AllStand(With(gr, t), val2, val, t, n)
  BY <1>3, <1>4, WithGrows
<1>6. \A i \in 1..n : Stands(With(gr, t), val2, t[i], FoldOf(p)[i])
  BY <1>4, <1>5 DEF AllStand
<1>7. Reads(With(gr, t), val2, NodesOf(With(gr, t), t), n, FoldOf(p))
  <2>1. PICK S, g2, f : S = Term(1..Len(gr)) /\ g2 = With(gr, t) /\ f = FoldOf(p)
    OBVIOUS
  <2>2. t \in [1..n -> S] /\ \A i \in 1..n : Stands(g2, val2, t[i], f[i])
    BY <1>4, <1>6, <2>1
  <2>3. Reads(g2, val2, NodesOf(g2, t), n, f)
    BY <2>2, NodesRead
  <2> QED
    BY <2>1, <2>3
<1> QED
  BY <1>1, <1>2, <1>5, <1>7

\* The registers the second compression of the GPU starts from.
LEMMA HeadStarts ==
  ASSUME NEW s, NEW val, NEW p, Shows(s, val, p), NEW t, t = Folded(s) \o Fixed(28, 10)
  PROVE  \E val2 : /\ Grows(s.graph, val, With(s.graph, t), val2)
                   /\ Reads(With(s.graph, t), val2, NodesOf(With(s.graph, t), t), 16,
                            StartOf(FoldOf(p), 28, 10))
<1> DEFINE x == StartOf(FoldOf(p), 28, 10)
<1>1. PICK n \in Nat, k \in Nat : n = 16 /\ k = 8
  OBVIOUS
<1>2. PICK gr : gr = s.graph
  OBVIOUS
<1>3. Means(gr, val)
  BY <1>2 DEF Shows
<1>4. PICK S : S = Term(1..Len(gr))
  OBVIOUS
<1>5. PICK a, b : a = Folded(s) /\ b = Fixed(28, 10)
  OBVIOUS
<1>6. a \in [1..8 -> S] /\ \A i \in 1..8 : Mean(val, a[i]) = FoldOf(p)[i]
  BY <1>2, <1>4, <1>5, FoldTerms
<1>7. b \in [1..8 -> Words] /\ \A i \in 1..8 : b[i] = x[8 + i]
  BY <1>5, FixedAre
<1>8. b \in [1..8 -> S] /\ \A i \in 1..8 : Mean(val, b[i]) = x[8 + i]
  <2>1. \A i \in 1..8 : Mean(val, b[i]) = b[i]
    BY <1>7, WordKind
  <2> QED
    BY <1>4, <1>7, <2>1 DEF Term
<1>9. t \in [1..16 -> S] /\ Holds(t, 0, a, 8) /\ Holds(t, 8, b, 8)
  <2>1. a \o b \in [1..k + k -> S] /\ Holds(a \o b, 0, a, k) /\ Holds(a \o b, k, b, k)
    BY <1>1, <1>6, <1>8, Concat
  <2>2. k + k = 16
    BY <1>1
  <2> QED
    BY <1>1, <1>5, <2>1, <2>2
<1> HIDE DEF x
<1>10. ASSUME NEW i \in 1..16 PROVE Mean(val, t[i]) = x[i]
  <2>1. CASE i \in 1..8
    <3>1. 0 + i = i
      OBVIOUS
    <3>2. t[i] = a[i]
      BY <1>9, <2>1, <3>1 DEF Holds
    <3>3. x[i] = FoldOf(p)[i]
      BY <2>1 DEF StartOf, x
    <3> QED
      BY <1>6, <2>1, <3>2, <3>3
  <2>2. CASE i \in 9..16
    <3>1. PICK j \in 1..8 : i = 8 + j
      BY <2>2
    <3>2. t[i] = b[j]
      BY <1>9, <3>1 DEF Holds
    <3> QED
      BY <1>8, <3>1, <3>2
  <2>3. i \in 1..8 \/ i \in 9..16
    OBVIOUS
  <2> QED
    BY <2>1, <2>2, <2>3, Zenon
<1>11. t \in [1..n -> Term(1..Len(gr))]
  BY <1>1, <1>4, <1>9
<1>12. PICK val2 : Grows(gr, val, With(gr, t), val2) /\ AllStand(With(gr, t), val2, val, t, n)
  BY <1>3, <1>11, WithGrows
<1>13. \A i \in 1..n : Stands(With(gr, t), val2, t[i], x[i])
  BY <1>1, <1>10, <1>12 DEF AllStand
<1>14. Reads(With(gr, t), val2, NodesOf(With(gr, t), t), n, x)
  <2>1. PICK g2 : g2 = With(gr, t)
    OBVIOUS
  <2>2. t \in [1..n -> S] /\ \A i \in 1..n : Stands(g2, val2, t[i], x[i])
    BY <1>4, <1>11, <1>13, <2>1
  <2>3. Reads(g2, val2, NodesOf(g2, t), n, x)
    BY <2>2, NodesRead
  <2> QED
    BY <2>1, <2>3
<1> QED
  BY <1>1, <1>2, <1>12, <1>14 DEF x

\* The words a job needs, all in its graph.
JobFixed == alpha_iv \o SubSeq(alpha_iv, 1, 4) \o <<Zero, Zero, Small(64), Small(1)>>
JobMessage == SubSeq(JobWords, 1, 11) \o <<Zero, Zero>> \o SubSeq(JobWords, 14, 16)
JobSecond  == SubSeq(JobWords, 17, 23)

\* Both sides start from the same eight words.
LEMMA IVIsSeq == IV \in [1..8 -> Words] /\ alpha_iv = IV
<1>1. IV = [i \in 1..8 |-> IV[i]]
  BY DEF IV
<1>2. alpha_iv = IV
  BY DEF alpha_iv, IV
<1> QED
  BY <1>1, <1>2, SmallWords

\* The registers of a job before its mixes.
LEMMA JobFixedIs ==
  /\ JobFixed \in [1..16 -> Words]
  /\ \A i \in 1..16 : JobFixed[i] = StartOf(IV, 64, 1)[i]
<1> DEFINE p == StartOf(IV, 64, 1)
<1>a. PICK S : S = Words
  OBVIOUS
<1>b. PICK k4 \in Nat, k8 \in Nat, k12 \in Nat, o \in Nat :
        k4 = 4 /\ k8 = 8 /\ k12 = 12 /\ o = 0
  OBVIOUS
<1>1. S = Words /\ k4 = 4 /\ k8 = 8 /\ k12 = 12 /\ o = 0
  BY <1>a, <1>b
<1>2. PICK x : x = IV
  OBVIOUS
<1>3. x \in [1..8 -> S]
  BY <1>1, <1>2, IVIsSeq
<1>15. PICK xs \in Seq(S) : xs = x /\ Len(xs) = 8
  <2>1. x \in [1..k8 -> S]
    BY <1>1, <1>3
  <2>2. x \in Seq(S) /\ Len(x) = k8
    BY <2>1, IsSeq
  <2> QED
    BY <1>1, <2>2
<1>4. PICK a : a = SubSeq(xs, 1, 4)
  OBVIOUS
<1>5. a \in [1..4 -> S] /\ \A i \in 1..4 : a[i] = x[i]
  <2>1. o + k4 <= Len(xs)
    BY <1>1, <1>15
  <2>5. 1 = o + 1 /\ 4 = o + k4
    BY <1>1
  <2>2. /\ SubSeq(xs, o + 1, o + k4) \in [1..k4 -> S]
        /\ \A i \in 1..k4 : SubSeq(xs, o + 1, o + k4)[i] = xs[o + i]
    BY <2>1, SubSeqIs
  <2>3. a = SubSeq(xs, o + 1, o + k4)
    BY <1>4, <2>5
  <2>4. a \in [1..k4 -> S] /\ \A i \in 1..k4 : a[i] = xs[o + i]
    BY <2>2, <2>3
  <2> QED
    BY <1>1, <1>15, <2>4
<1>6. PICK b : b = <<Zero, Zero, Small(64), Small(1)>>
  OBVIOUS
<1>7. /\ b \in [1..4 -> S] /\ b[1] = Zero /\ b[2] = Zero
      /\ b[3] = Small(64) /\ b[4] = Small(1)
  BY <1>1, <1>6, SmallWords
<1>8. JobFixed = (x \o a) \o b
  BY <1>2, <1>4, <1>6, <1>15, IVIsSeq DEF JobFixed
<1>9. x \o a \in [1..12 -> S] /\ Holds(x \o a, 0, x, 8) /\ Holds(x \o a, 8, a, 4)
  <2>1. x \o a \in [1..k8 + k4 -> S] /\ Holds(x \o a, 0, x, k8) /\ Holds(x \o a, k8, a, k4)
    BY <1>1, <1>3, <1>5, Concat
  <2>2. k8 + k4 = 12
    BY <1>1
  <2> QED
    BY <1>1, <2>1, <2>2
<1>10. PICK c : c = x \o a
  OBVIOUS
<1>11. c \o b \in [1..16 -> S] /\ Holds(c \o b, 0, c, 12) /\ Holds(c \o b, 12, b, 4)
  <2>1. c \o b \in [1..k12 + k4 -> S] /\ Holds(c \o b, 0, c, k12) /\ Holds(c \o b, k12, b, k4)
    BY <1>1, <1>7, <1>9, <1>10, Concat
  <2>2. k12 + k4 = 16
    BY <1>1
  <2> QED
    BY <1>1, <2>1, <2>2
<1>12. PICK f : f = c \o b
  OBVIOUS
<1>13. ASSUME NEW i \in 1..16 PROVE f[i] = p[i]
  <2>1. CASE i \in 1..8
    <3>1. 0 + i = i /\ i \in 1..12
      BY <2>1
    <3>2. f[i] = c[i]
      BY <1>11, <1>12, <3>1 DEF Holds
    <3>3. c[i] = x[i]
      BY <1>9, <1>10, <2>1, <3>1 DEF Holds
    <3>4. p[i] = IV[i]
      BY <2>1 DEF StartOf
    <3> QED
      BY <1>2, <3>2, <3>3, <3>4
  <2>2. CASE i \in 9..12
    <3>1. PICK j \in 1..4 : i = 8 + j
      BY <2>2
    <3>2. 0 + i = i /\ i \in 1..12
      BY <2>2
    <3>3. f[i] = c[i]
      BY <1>11, <1>12, <3>2 DEF Holds
    <3>4. c[i] = a[j]
      BY <1>9, <1>10, <3>1 DEF Holds
    <3>5. p[i] = IV[i - 8] /\ i - 8 = j
      BY <2>2, <3>1 DEF StartOf
    <3> QED
      BY <1>2, <1>5, <3>3, <3>4, <3>5
  <2>3. CASE i \in 13..16
    <3>1. PICK j \in 1..4 : i = 12 + j
      BY <2>3
    <3>2. f[i] = b[j]
      BY <1>11, <1>12, <3>1 DEF Holds
    <3>3. p[i] = IF i <= 14 THEN Zero ELSE IF i = 15 THEN Small(64) ELSE Small(1)
      BY <2>3 DEF StartOf
    <3>4. j = 1 \/ j = 2 \/ j = 3 \/ j = 4
      OBVIOUS
    <3>5. CASE j = 1 \/ j = 2
      BY <1>7, <3>1, <3>2, <3>3, <3>5
    <3>6. CASE j = 3
      BY <1>7, <3>1, <3>2, <3>3, <3>6
    <3>7. CASE j = 4
      BY <1>7, <3>1, <3>2, <3>3, <3>7
    <3> QED
      BY <3>4, <3>5, <3>6, <3>7
  <2> QED
    BY <2>1, <2>2, <2>3
<1> QED
  BY <1>1, <1>8, <1>10, <1>11, <1>12, <1>13

\* Its message words for both blocks are those of the header.
LEMMA JobPartsAre ==
  /\ JobMessage \in [1..16 -> Words] /\ \A i \in 1..16 : JobMessage[i] = JobWords[i]
  /\ JobSecond \in [1..7 -> Words] /\ \A i \in 1..7 : JobSecond[i] = JobWords[16 + i]
<1>a. PICK S : S = Words
  OBVIOUS
<1>b. PICK k2 \in Nat, k3 \in Nat, k7 \in Nat, k11 \in Nat, k13 \in Nat, k16 \in Nat,
           k23 \in Nat, o \in Nat :
        /\ k2 = 2 /\ k3 = 3 /\ k7 = 7 /\ k11 = 11 /\ k13 = 13 /\ k16 = 16
        /\ k23 = 23 /\ o = 0
  OBVIOUS
<1>1. /\ S = Words /\ k2 = 2 /\ k3 = 3 /\ k7 = 7 /\ k11 = 11 /\ k13 = 13 /\ k16 = 16
      /\ k23 = 23 /\ o = 0
  BY <1>a, <1>b
<1>2. PICK x : x = JobWords
  OBVIOUS
<1>3. x \in [1..k23 -> S] /\ x[12] = Zero /\ x[13] = Zero
  BY <1>1, <1>2, JobWordsAre
<1>16. PICK xs \in Seq(S) : xs = x /\ Len(xs) = k23
  <2>1. x \in Seq(S) /\ Len(x) = k23
    BY <1>3, IsSeq
  <2> QED
    BY <2>1
<1>4. PICK a, b, c, d : a = SubSeq(xs, 1, 11) /\ b = <<Zero, Zero>> /\ c = SubSeq(xs, 14, 16)
                          /\ d = SubSeq(xs, 17, 23)
  OBVIOUS
<1>5. a \in [1..k11 -> S] /\ \A i \in 1..k11 : a[i] = x[o + i]
  <2>1. o + k11 <= Len(xs)
    BY <1>1, <1>16
  <2>4. 1 = o + 1 /\ 11 = o + k11
    BY <1>1
  <2>2. a = SubSeq(xs, o + 1, o + k11)
    BY <1>4, <2>4
  <2>3. /\ SubSeq(xs, o + 1, o + k11) \in [1..k11 -> S]
        /\ \A i \in 1..k11 : SubSeq(xs, o + 1, o + k11)[i] = xs[o + i]
    BY <2>1, SubSeqIs
  <2> QED
    BY <1>16, <2>2, <2>3
<1>6. c \in [1..k3 -> S] /\ \A i \in 1..k3 : c[i] = x[k13 + i]
  <2>1. k13 + k3 <= Len(xs)
    BY <1>1, <1>16
  <2>4. 14 = k13 + 1 /\ 16 = k13 + k3
    BY <1>1
  <2>2. c = SubSeq(xs, k13 + 1, k13 + k3)
    BY <1>4, <2>4
  <2>3. /\ SubSeq(xs, k13 + 1, k13 + k3) \in [1..k3 -> S]
        /\ \A i \in 1..k3 : SubSeq(xs, k13 + 1, k13 + k3)[i] = xs[k13 + i]
    BY <2>1, SubSeqIs
  <2> QED
    BY <1>16, <2>2, <2>3
<1>7. d \in [1..k7 -> S] /\ \A i \in 1..k7 : d[i] = x[k16 + i]
  <2>1. k16 + k7 <= Len(xs)
    BY <1>1, <1>16
  <2>4. 17 = k16 + 1 /\ 23 = k16 + k7
    BY <1>1
  <2>2. d = SubSeq(xs, k16 + 1, k16 + k7)
    BY <1>4, <2>4
  <2>3. /\ SubSeq(xs, k16 + 1, k16 + k7) \in [1..k7 -> S]
        /\ \A i \in 1..k7 : SubSeq(xs, k16 + 1, k16 + k7)[i] = xs[k16 + i]
    BY <2>1, SubSeqIs
  <2> QED
    BY <1>16, <2>2, <2>3
<1>8. b \in [1..k2 -> S] /\ b[1] = Zero /\ b[2] = Zero
  BY <1>1, <1>4, SmallWords
<1>9. PICK ab : ab = a \o b
  OBVIOUS
<1>10. ab \in [1..k13 -> S] /\ Holds(ab, 0, a, k11) /\ Holds(ab, k11, b, k2)
  <2>1. a \o b \in [1..k11 + k2 -> S] /\ Holds(a \o b, 0, a, k11) /\ Holds(a \o b, k11, b, k2)
    BY <1>5, <1>8, Concat
  <2>2. k11 + k2 = k13
    BY <1>1
  <2> QED
    BY <1>9, <2>1, <2>2
<1>11. PICK f : f = ab \o c
  OBVIOUS
<1>12. f \in [1..k16 -> S] /\ Holds(f, 0, ab, k13) /\ Holds(f, k13, c, k3)
  <2>1. ab \o c \in [1..k13 + k3 -> S] /\ Holds(ab \o c, 0, ab, k13) /\ Holds(ab \o c, k13, c, k3)
    BY <1>6, <1>10, Concat
  <2>2. k13 + k3 = k16
    BY <1>1
  <2> QED
    BY <1>11, <2>1, <2>2
<1>13. ASSUME NEW i \in 1..16 PROVE f[i] = x[i]
  <2>1. CASE i \in 1..11
    <3>1. 0 + i = i /\ o + i = i /\ i \in 1..k11 /\ i \in 1..k13
      BY <1>1, <2>1
    <3>2. f[i] = ab[i] /\ ab[i] = a[i]
      BY <1>10, <1>12, <3>1 DEF Holds
    <3> QED
      BY <1>5, <3>1, <3>2
  <2>2. CASE i \in 12..13
    <3>1. PICK j \in 1..2 : i = 11 + j
      BY <2>2
    <3>2. 0 + i = i /\ i \in 1..k13 /\ j \in 1..k2 /\ i = k11 + j
      BY <1>1, <2>2, <3>1
    <3>3. f[i] = ab[i] /\ ab[i] = b[j]
      BY <1>10, <1>12, <3>2 DEF Holds
    <3>4. j = 1 \/ j = 2
      OBVIOUS
    <3> QED
      BY <1>3, <1>8, <3>1, <3>3, <3>4
  <2>3. CASE i \in 14..16
    <3>1. PICK j \in 1..3 : i = 13 + j
      BY <2>3
    <3>2. j \in 1..k3 /\ i = k13 + j
      BY <1>1, <3>1
    <3>3. f[i] = c[j]
      BY <1>12, <3>2 DEF Holds
    <3> QED
      BY <1>6, <3>2, <3>3
  <2> QED
    BY <2>1, <2>2, <2>3
<1>14. JobMessage = f /\ JobSecond = d
  BY <1>2, <1>4, <1>9, <1>11, <1>16 DEF JobMessage, JobSecond
<1>15. \A i \in 1..7 : d[i] = x[16 + i]
  BY <1>1, <1>7
<1> QED
  BY <1>1, <1>2, <1>7, <1>12, <1>13, <1>14, <1>15

-----------------------------------------------------------------------------
(* The invariant.                                                          *)

\* The registers at the start of both compressions, and the hash they lead to.
First       == StartOf(IV, 64, 1)
Second(n)   == StartOf(FoldOf(Rounds(First, Block0(n), 7)), 28, 10)
HashOf(n)   == FoldOf(Rounds(Second(n), Block1(n), 7))

\* A job's registers, and those after alpha_hash92_head.
Built       == KMix(Five(First, JobWords, Schedule0[1]), JobWords, Schedule0[1], 8)
HeadOf(p, w) == KMix(Five(p, w, Schedule0[7]), w, Schedule0[7], 7)

\* One of the two compressions is a record of this shape.
Lane(x) == x = [at |-> x.at, round |-> x.round, v |-> x.v, m |-> x.m]

\* What is known of the parts, when the nodes of gr mean what val says.
JobPart(gr, val, j) ==
  \/ j = NoJobPre
  \/ /\ j = [m0 |-> j.m0, m1 |-> j.m1, v0 |-> j.v0]
     /\ Reads(gr, val, j.m0, 16, JobWords)
     /\ Reads(gr, val, j.m1, 7, JobSecond)
     /\ Reads(gr, val, j.v0, 16, Built)
     /\ Stands(gr, val, Zero, Zero)

RefPart(gr, val, x, n) ==
  \/ x = Idle
  \/ /\ Lane(x) /\ x.at = "block 0" /\ x.round \in 0..7
     /\ Reads(gr, val, x.v, 16, Rounds(First, Block0(n), x.round))
     /\ Reads(gr, val, x.m, 16, Sched(Block0(n), IF x.round = 7 THEN 6 ELSE x.round))
  \/ /\ Lane(x) /\ x.at = "block 1" /\ x.round \in 0..7
     /\ Reads(gr, val, x.v, 16, Rounds(Second(n), Block1(n), x.round))
     /\ Reads(gr, val, x.m, 16, Sched(Block1(n), IF x.round = 7 THEN 6 ELSE x.round))

HashPart(gr, val, h, n) == h = <<>> \/ Reads(gr, val, h, 8, HashOf(n))

DevPart(gr, val, x, n) ==
  \/ x = Idle
  \/ /\ Lane(x) /\ x.at = "block 0" /\ x.round \in 1..7
     /\ Reads(gr, val, x.v, 16, Rounds(First, Block0(n), x.round))
     /\ Reads(gr, val, x.m, 16, Block0(n))
  \/ /\ Lane(x) /\ x.at = "block 1" /\ x.round \in 0..6
     /\ Reads(gr, val, x.v, 16, Rounds(Second(n), Block1(n), x.round))
     /\ Reads(gr, val, x.m, 16, Block1(n))
  \/ /\ Lane(x) /\ x.at = "block 1" /\ x.round = 7
     /\ Reads(gr, val, x.v, 16, HeadOf(Rounds(Second(n), Block1(n), 6), Block1(n)))
     /\ Reads(gr, val, x.m, 16, Block1(n))
  \/ /\ Lane(x) /\ x.at = "done" /\ x.round = 7
     /\ Reads(gr, val, x.v, 16, Rounds(Second(n), Block1(n), 7))

Parts(val) ==
  /\ Means(nodes, val)
  /\ JobPart(nodes, val, jw)
  /\ RefPart(nodes, val, ref, nonce)
  /\ HashPart(nodes, val, hashes, nonce)
  /\ DevPart(nodes, val, dev, nonce)

\* Nobody computes without a job, and the GPU only what the CPU has.
Order ==
  /\ nonce \in Nat
  /\ ref # Idle \/ hashes # <<>> => job_built
  /\ dev # Idle => hashes # <<>>

BlakeInv == Order /\ \E val : Parts(val)

\* The parts stay what they are while the graph grows.
LEMMA PartsOn ==
  ASSUME NEW gr, NEW val, Means(gr, val), NEW gr2, NEW val2, Grows(gr, val, gr2, val2), NEW n
  PROVE  /\ \A j : JobPart(gr, val, j) => JobPart(gr2, val2, j)
         /\ \A x : RefPart(gr, val, x, n) => RefPart(gr2, val2, x, n)
         /\ \A h : HashPart(gr, val, h, n) => HashPart(gr2, val2, h, n)
         /\ \A x : DevPart(gr, val, x, n) => DevPart(gr2, val2, x, n)
<1>1. \A m, k, w : Reads(gr, val, m, k, w) => Reads(gr2, val2, m, k, w)
  BY ReadsOn
<1>2. \A t, x : Stands(gr, val, t, x) => Stands(gr2, val2, t, x)
  BY StandsOn
<1>3. ASSUME NEW j, JobPart(gr, val, j) PROVE JobPart(gr2, val2, j)
  BY <1>1, <1>2, <1>3, Zenon DEF JobPart
<1>4. ASSUME NEW x, RefPart(gr, val, x, n) PROVE RefPart(gr2, val2, x, n)
  BY <1>1, <1>4 DEF RefPart
<1>5. ASSUME NEW h, HashPart(gr, val, h, n) PROVE HashPart(gr2, val2, h, n)
  BY <1>1, <1>5 DEF HashPart
<1>6. ASSUME NEW x, DevPart(gr, val, x, n) PROVE DevPart(gr2, val2, x, n)
  BY <1>1, <1>6 DEF DevPart
<1> QED
  BY <1>3, <1>4, <1>5, <1>6

\* Nodes that mean sixteen values are the registers of a state.
LEMMA ReadsShows ==
  ASSUME NEW gr, NEW val, Means(gr, val), NEW v, NEW p, Reads(gr, val, v, 16, p),
         NEW s, s = [graph |-> gr, v |-> v]
  PROVE  Shows(s, val, p) /\ s.graph = gr /\ s.v = v
<1>1. s.graph = gr /\ s.v = v
  OBVIOUS
<1>2. gr \in Seq(Term(Nat))
  BY DEF Means
<1>3. s \in State
  BY <1>2 DEF State, Reads
<1> QED
  BY <1>1, <1>3 DEF Shows, Reads

\* And the other way round.
LEMMA ShowsReads ==
  ASSUME NEW s, NEW val, NEW p, Shows(s, val, p)
  PROVE  Reads(s.graph, val, s.v, 16, p) /\ Means(s.graph, val)
<1>1. s.v \in [1..16 -> Nat]
  BY DEF Shows, State
<1> QED
  BY <1>1 DEF Shows, Reads

\* The mixes that the nonce does not reach, whatever it is.
LEMMA NonceFree ==
  ASSUME NEW n \in Nat
  PROVE  Built = KMix(Five(First, Block0(n), Schedule0[1]), Block0(n), Schedule0[1], 8)
<1> DEFINE o == Schedule0[1]
<1>1. ASSUME NEW p, NEW k \in {1, 2, 3, 4, 5, 8}
      PROVE  KMix(p, JobWords, o, k) = KMix(p, Block0(n), o, k)
  <2>1. 2 * k - 1 \in 1..16 /\ 2 * k \in 1..16
    BY MixRegisters
  <2>2. o[2 * k - 1] + 1 = 2 * k - 1 /\ o[2 * k] + 1 = 2 * k
    <3>1. o[2 * k - 1] = 2 * k - 1 - 1 /\ o[2 * k] = 2 * k - 1
      BY <2>1, SchedulesAre
    <3> QED
      BY <3>1
  <2>3. 2 * k - 1 # 12 /\ 2 * k - 1 # 13 /\ 2 * k # 12 /\ 2 * k # 13
    OBVIOUS
  <2>4. Block0(n)[2 * k - 1] = JobWords[2 * k - 1] /\ Block0(n)[2 * k] = JobWords[2 * k]
    BY <2>1, <2>3, SameHeader
  <2> HIDE DEF o
  <2> QED
    BY <2>2, <2>4 DEF KMix
<1> HIDE DEF o
<1>2. Five(First, JobWords, o) = Five(First, Block0(n), o)
  BY <1>1 DEF Five
<1>3. KMix(Five(First, JobWords, o), JobWords, o, 8) = KMix(Five(First, Block0(n), o), Block0(n), o, 8)
  BY <1>1, <1>2
<1> QED
  BY <1>3 DEF Built, o

\* The message the lane puts together for its nonce.
LEMMA NonceWords == ASSUME NEW n \in Nat PROVE NonceLow(n) \in Words /\ NonceHigh(n) \in Words
<1>1. \A i \in 0..7 : NonceByte(n, i) \in Int
  BY DEF NonceByte
<1>2. \A a, b, c, d \in Int : Word(a, b, c, d) \in Words
  BY WordKind
<1> QED
  BY <1>1, <1>2 DEF NonceLow, NonceHigh

\* With its nonce in it, the message of the first block is the one the CPU reads.
LEMMA M0Reads ==
  ASSUME NEW gr, NEW val, NEW n \in Nat, Reads(gr, val, jw.m0, 16, JobWords),
         Stands(gr, val, NonceLow(n), NonceLow(n)), Stands(gr, val, NonceHigh(n), NonceHigh(n))
  PROVE  Reads(gr, val, M0(gr, n), 16, Block0(n))
<1> DEFINE m == M0(gr, n)
           x == Node(gr, NonceLow(n))
           y == Node(gr, NonceHigh(n))
<1>1. jw.m0 \in [1..16 -> Nat]
  BY DEF Reads
<1>2. x \in 1..Len(gr) /\ y \in 1..Len(gr) /\ val[x] = NonceLow(n) /\ val[y] = NonceHigh(n)
  BY DEF Stands
<1> HIDE DEF x, y
<1>3. m = [jw.m0 EXCEPT ![12] = x, ![13] = y]
  BY DEF M0, x, y
<1> HIDE DEF m
<1>4. x \in Nat /\ y \in Nat
  BY <1>2
<1>5. /\ m \in [1..16 -> Nat] /\ m[12] = x /\ m[13] = y
      /\ \A i \in 1..16 : i # 12 /\ i # 13 => m[i] = jw.m0[i]
  BY <1>1, <1>3, <1>4
<1>6. ASSUME NEW i \in 1..16 PROVE m[i] \in 1..Len(gr) /\ val[m[i]] = Block0(n)[i]
  <2>1. CASE i = 12
    BY <1>2, <1>5, <2>1, SameHeader
  <2>2. CASE i = 13
    BY <1>2, <1>5, <2>2, SameHeader
  <2>3. CASE i # 12 /\ i # 13
    <3>1. Block0(n)[i] = JobWords[i]
      BY <2>3, SameHeader
    <3>2. m[i] = jw.m0[i]
      BY <1>5, <2>3
    <3> QED
      BY <3>1, <3>2 DEF Reads
  <2> QED
    BY <2>1, <2>2, <2>3
<1>7. Reads(gr, val, m, 16, Block0(n))
  BY <1>5, <1>6 DEF Reads
<1> QED
  BY <1>7 DEF m

\* The seven words of the job and zeros are the second block the CPU reads.
LEMMA M1Reads ==
  ASSUME NEW val, NEW n \in Nat, Reads(nodes, val, jw.m1, 7, JobSecond),
         Stands(nodes, val, Zero, Zero)
  PROVE  Reads(nodes, val, M1, 16, Block1(n))
<1>1. PICK z \in 1..Len(nodes) : z = Node(nodes, Zero) /\ val[z] = Zero
  BY DEF Stands
<1>2. PICK k7 \in Nat, k9 \in Nat : k7 = 7 /\ k9 = 9
  OBVIOUS
<1>3. PICK a, b : a = jw.m1 /\ b = [i \in 1..9 |-> z]
  OBVIOUS
<1>4. a \in [1..k7 -> Nat] /\ b \in [1..k9 -> Nat] /\ \A i \in 1..9 : b[i] = z
  <2>1. z \in Nat
    OBVIOUS
  <2> QED
    BY <1>2, <1>3, <2>1 DEF Reads
<1>5. PICK m : m = a \o b
  OBVIOUS
<1>6. m \in [1..16 -> Nat] /\ Holds(m, 0, a, 7) /\ Holds(m, 7, b, 9)
  <2>1. a \o b \in [1..k7 + k9 -> Nat] /\ Holds(a \o b, 0, a, k7) /\ Holds(a \o b, k7, b, k9)
    BY <1>4, Concat
  <2>2. k7 + k9 = 16
    BY <1>2
  <2> QED
    BY <1>2, <1>5, <2>1, <2>2
<1>7. ASSUME NEW i \in 1..16 PROVE m[i] \in 1..Len(nodes) /\ val[m[i]] = Block1(n)[i]
  <2>1. CASE i \in 1..7
    <3>1. 0 + i = i
      OBVIOUS
    <3>2. m[i] = a[i]
      BY <1>6, <2>1, <3>1 DEF Holds
    <3>3. Block1(n)[i] = JobWords[16 + i]
      BY <2>1, SameHeader
    <3>4. JobSecond[i] = JobWords[16 + i]
      BY <2>1, JobPartsAre
    <3> QED
      BY <1>3, <2>1, <3>2, <3>3, <3>4 DEF Reads
  <2>2. CASE i \in 8..16
    <3>1. PICK j \in 1..9 : i = 7 + j
      BY <2>2
    <3>2. m[i] = b[j]
      BY <1>6, <3>1 DEF Holds
    <3>3. Block1(n)[i] = Zero
      BY <2>2, BlocksOf
    <3> QED
      BY <1>1, <1>4, <3>2, <3>3
  <2> QED
    BY <2>1, <2>2
<1>8. M1 = m
  BY <1>1, <1>3, <1>5 DEF M1
<1> QED
  BY <1>6, <1>7, <1>8 DEF Reads

\* One turn of the loop of compress.
LEMMA RefRoundShows ==
  ASSUME NEW gr, NEW val, Means(gr, val), NEW p, NEW w, NEW r \in 0..6,
         NEW v, Reads(gr, val, v, 16, Rounds(p, w, r)),
         NEW m, Reads(gr, val, m, 16, Sched(w, r)),
         NEW s, s = round_fn([graph |-> gr, v |-> v], m)
  PROVE  \E val2 : /\ Grows(gr, val, s.graph, val2)
                   /\ Reads(s.graph, val2, s.v, 16, Rounds(p, w, r + 1))
                   /\ Reads(s.graph, val2, IF r # 6 THEN permute(m) ELSE m, 16,
                            Sched(w, IF r + 1 = 7 THEN 6 ELSE r + 1))
<1> DEFINE s0 == [graph |-> gr, v |-> v]
           q  == PRound(Rounds(p, w, r), Sched(w, r), Schedule0[1])
<1>1. Shows(s0, val, Rounds(p, w, r)) /\ s0.graph = gr
  BY ReadsShows
<1>2. s = MixesOfRound(s0, m, Schedule0[1], EightMixes)
  <2>1. s0 \in State
    BY <1>1 DEF Shows
  <2>2. m \in [1..16 -> Nat]
    BY DEF Reads
  <2> HIDE DEF s0
  <2>3. s = round_fn(s0, m)
    BY DEF s0
  <2> QED
    BY <2>1, <2>2, <2>3, RoundFnIs
<1> HIDE DEF s0
<1>3. Leads(s0, val, s, q)
  <2>1. Schedule0[1] \in Orders
    BY SchedulesAre
  <2>2. Reads(s0.graph, val, m, 16, Sched(w, r))
    BY <1>1
  <2>3. PICK o, p0, w0 : o = Schedule0[1] /\ p0 = Rounds(p, w, r) /\ w0 = Sched(w, r)
    OBVIOUS
  <2>4. Leads(s0, val, MixesOfRound(s0, m, o, EightMixes), PRound(p0, w0, o))
    BY <1>1, <2>1, <2>2, <2>3, RoundShows
  <2> QED
    BY <1>2, <2>3, <2>4
<1>4. q = Rounds(p, w, r + 1)
  <2>1. PICK p0 : p0 = Rounds(p, w, r)
    OBVIOUS
  <2>2. PRound(p0, Sched(w, r), Schedule0[1]) = PRound(p0, w, Schedule0[r + 1])
    BY RoundIsRound
  <2>3. Rounds(p, w, r + 1) = PRound(Rounds(p, w, r), w, Schedule0[r + 1])
    BY RoundsAre
  <2> QED
    BY <2>1, <2>2, <2>3, Zenon
<1> HIDE DEF q
<1>5. PICK val2 : Grows(gr, val, s.graph, val2) /\ Shows(s, val2, q)
  BY <1>1, <1>3 DEF Leads
<1>6. Reads(s.graph, val2, s.v, 16, Rounds(p, w, r + 1))
  BY <1>4, <1>5, ShowsReads
<1>7. Reads(s.graph, val2, m, 16, Sched(w, r))
  BY <1>5, ReadsOn
<1>8. CASE r = 6
  <2>1. r + 1 = 7 /\ (IF r + 1 = 7 THEN 6 ELSE r + 1) = r /\ (IF r # 6 THEN permute(m) ELSE m) = m
    BY <1>8
  <2> QED
    BY <1>5, <1>6, <1>7, <2>1
<1>9. CASE r # 6
  <2>1. r \in 0..5 /\ (IF r + 1 = 7 THEN 6 ELSE r + 1) = r + 1
        /\ (IF r # 6 THEN permute(m) ELSE m) = permute(m)
    BY <1>9
  <2>2. Reads(s.graph, val2, permute(m), 16, Sched(w, r + 1))
    BY <1>7, <2>1, PermuteReads
  <2> QED
    BY <1>5, <1>6, <2>1, <2>2
<1> QED
  BY <1>8, <1>9

\* Before the first round the message is in its own order.
LEMMA StartInOrder ==
  ASSUME NEW gr, NEW val, NEW m, NEW w, Reads(gr, val, m, 16, w)
  PROVE  Reads(gr, val, m, 16, Sched(w, 0))
<1>1. ASSUME NEW i \in 1..16 PROVE Sched(w, 0)[i] = w[i]
  <2>1. Sched(w, 0)[i] = w[Schedule0[0 + 1][i] + 1] /\ 0 + 1 = 1
    BY DEF Sched
  <2>2. Schedule0[1][i] = i - 1 /\ i - 1 + 1 = i
    BY SchedulesAre
  <2> QED
    BY <2>1, <2>2
<1> QED
  BY <1>1 DEF Reads

\* Eight mixes of the GPU.
LEMMA DevRoundShows ==
  ASSUME NEW gr, NEW val, Means(gr, val), NEW p, NEW w, NEW r \in 0..6,
         NEW v, Reads(gr, val, v, 16, Rounds(p, w, r)), NEW m, Reads(gr, val, m, 16, w),
         NEW s, s = MixesOfRound([graph |-> gr, v |-> v], m, Schedule0[r + 1], EightMixes)
  PROVE  \E val2 : /\ Grows(gr, val, s.graph, val2)
                   /\ Reads(s.graph, val2, s.v, 16, Rounds(p, w, r + 1))
                   /\ Reads(s.graph, val2, m, 16, w)
<1> DEFINE s0 == [graph |-> gr, v |-> v]
<1>1. Shows(s0, val, Rounds(p, w, r)) /\ s0.graph = gr
  BY ReadsShows
<1>2. PICK o, p0 : o = Schedule0[r + 1] /\ p0 = Rounds(p, w, r)
  OBVIOUS
<1>3. o \in Orders
  <2>1. r + 1 \in 1..7
    OBVIOUS
  <2> QED
    BY <1>2, <2>1, SchedulesAre
<1>4. s = MixesOfRound(s0, m, o, EightMixes)
  BY <1>2
<1> HIDE DEF s0
<1>5. Leads(s0, val, MixesOfRound(s0, m, o, EightMixes), PRound(p0, w, o))
  BY <1>1, <1>2, <1>3, RoundShows
<1>6. PRound(p0, w, o) = Rounds(p, w, r + 1)
  BY <1>2, RoundsAre
<1>7. PICK val2 : Grows(gr, val, s.graph, val2) /\ Shows(s, val2, Rounds(p, w, r + 1))
  BY <1>1, <1>4, <1>5, <1>6 DEF Leads
<1> QED
  BY <1>7, ShowsReads, ReadsOn

\* The last round of the GPU, without the mixes the first word can do without ...
LEMMA DevHeadShows ==
  ASSUME NEW gr, NEW val, Means(gr, val), NEW p, NEW w,
         NEW v, Reads(gr, val, v, 16, p), NEW m, Reads(gr, val, m, 16, w),
         NEW s, s = MixesOfRound([graph |-> gr, v |-> v], m, Schedule0[7], <<1, 2, 3, 4, 5, 7>>)
  PROVE  \E val2 : /\ Grows(gr, val, s.graph, val2)
                   /\ Reads(s.graph, val2, s.v, 16, HeadOf(p, w))
                   /\ Reads(s.graph, val2, m, 16, w)
<1> DEFINE s0 == [graph |-> gr, v |-> v]
<1>1. Shows(s0, val, p) /\ s0.graph = gr
  BY ReadsShows
<1>2. PICK o : o = Schedule0[7]
  OBVIOUS
<1>3. o \in Orders
  BY <1>2, SchedulesAre
<1>4. s = MixesOfRound(s0, m, o, <<1, 2, 3, 4, 5, 7>>)
  BY <1>2
<1> HIDE DEF s0
<1>5. Leads(s0, val, MixesOfRound(s0, m, o, <<1, 2, 3, 4, 5, 7>>), KMix(Five(p, w, o), w, o, 7))
  BY <1>1, <1>3, HeadShows
<1>6. KMix(Five(p, w, o), w, o, 7) = HeadOf(p, w)
  BY <1>2 DEF HeadOf
<1>7. PICK val2 : Grows(gr, val, s.graph, val2) /\ Shows(s, val2, HeadOf(p, w))
  BY <1>1, <1>4, <1>5, <1>6 DEF Leads
<1> QED
  BY <1>7, ShowsReads, ReadsOn

\* ... and these.
LEMMA DevTailShows ==
  ASSUME NEW gr, NEW val, Means(gr, val), NEW p, NEW w,
         NEW v, Reads(gr, val, v, 16, HeadOf(Rounds(p, w, 6), w)), NEW m, Reads(gr, val, m, 16, w),
         NEW s, s = MixesOfRound([graph |-> gr, v |-> v], m, Schedule0[7], <<6, 8>>)
  PROVE  \E val2 : /\ Grows(gr, val, s.graph, val2)
                   /\ Reads(s.graph, val2, s.v, 16, Rounds(p, w, 7))
<1> DEFINE s0 == [graph |-> gr, v |-> v]
<1>1. Shows(s0, val, HeadOf(Rounds(p, w, 6), w)) /\ s0.graph = gr
  BY ReadsShows
<1>2. PICK o, p0, h : o = Schedule0[7] /\ p0 = Rounds(p, w, 6) /\ h = HeadOf(Rounds(p, w, 6), w)
  OBVIOUS
<1>3. o \in Orders
  BY <1>2, SchedulesAre
<1>4. s = MixesOfRound(s0, m, o, <<6, 8>>)
  BY <1>2
<1> HIDE DEF s0
<1>5. Leads(s0, val, MixesOfRound(s0, m, o, <<6, 8>>), KMix(KMix(h, w, o, 6), w, o, 8))
  BY <1>1, <1>2, <1>3, TailShows
<1>6. KMix(KMix(h, w, o, 6), w, o, 8) = Rounds(p, w, 7)
  <2>1. PRound(p0, w, o) = KMix(KMix(KMix(Five(p0, w, o), w, o, 7), w, o, 6), w, o, 8)
    BY RoundInParts
  <2>2. h = KMix(Five(p0, w, o), w, o, 7)
    BY <1>2 DEF HeadOf
  <2>3. Rounds(p, w, 6 + 1) = PRound(p0, w, Schedule0[6 + 1])
    BY <1>2, RoundsAre
  <2>4. 6 + 1 = 7
    OBVIOUS
  <2> QED
    BY <1>2, <2>1, <2>2, <2>3, <2>4
<1>7. PICK val2 : Grows(gr, val, s.graph, val2) /\ Shows(s, val2, Rounds(p, w, 7))
  BY <1>1, <1>4, <1>5, <1>6 DEF Leads
<1> QED
  BY <1>7, ShowsReads

\* The first round of the GPU, from the registers of the job.
LEMMA DevStartShows ==
  ASSUME NEW gr, NEW val, Means(gr, val), NEW n \in Nat,
         NEW v, Reads(gr, val, v, 16, Built), NEW m, Reads(gr, val, m, 16, Block0(n)),
         NEW s, s = MixesOfRound([graph |-> gr, v |-> v], m, Schedule0[1], <<6, 7>>)
  PROVE  \E val2 : /\ Grows(gr, val, s.graph, val2)
                   /\ Reads(s.graph, val2, s.v, 16, Rounds(First, Block0(n), 1))
                   /\ Reads(s.graph, val2, m, 16, Block0(n))
<1> DEFINE s0 == [graph |-> gr, v |-> v]
<1>1. Shows(s0, val, Built) /\ s0.graph = gr
  BY ReadsShows
<1>2. PICK o, p0, w : o = Schedule0[1] /\ p0 = First /\ w = Block0(n)
  OBVIOUS
<1>3. o \in Orders
  BY <1>2, SchedulesAre
<1>4. s = MixesOfRound(s0, m, o, <<6, 7>>) /\ Reads(s0.graph, val, m, 16, w)
  BY <1>1, <1>2
<1> HIDE DEF s0
<1>5. Leads(s0, val, MixesOfRound(s0, m, o, <<6, 7>>), KMix(KMix(Built, w, o, 6), w, o, 7))
  BY <1>1, <1>3, <1>4, RestShows
<1>6. KMix(KMix(Built, w, o, 6), w, o, 7) = Rounds(First, Block0(n), 1)
  <2>1. PRound(p0, w, o) = KMix(KMix(KMix(Five(p0, w, o), w, o, 8), w, o, 6), w, o, 7)
    BY RoundInParts
  <2>2. Built = KMix(Five(p0, w, o), w, o, 8)
    BY <1>2, NonceFree
  <2>3. Rounds(p0, w, 0 + 1) = PRound(Rounds(p0, w, 0), w, Schedule0[0 + 1]) /\ Rounds(p0, w, 0) = p0
    BY RoundsAre
  <2>4. 0 + 1 = 1
    OBVIOUS
  <2> QED
    BY <1>2, <2>1, <2>2, <2>3, <2>4
<1>7. PICK val2 : Grows(gr, val, s.graph, val2) /\ Shows(s, val2, Rounds(First, Block0(n), 1))
  BY <1>1, <1>4, <1>5, <1>6 DEF Leads
<1> QED
  BY <1>7, ShowsReads, ReadsOn

\* A compression of the CPU starts.
LEMMA FirstStarts ==
  ASSUME NEW gr, NEW val, Means(gr, val), NEW n \in Nat,
         NEW s, s = CompressStart(With(gr, IV), NodesOf(With(gr, IV), IV), Block0(n), 64, 1)
  PROVE  \E val2 : /\ Grows(gr, val, s.graph, val2)
                   /\ Reads(s.graph, val2, s.v, 16, First)
                   /\ Reads(s.graph, val2, s.m, 16, Block0(n))
<1>1. PICK k \in Nat, b \in Int, f \in Int : k = 8 /\ b = 64 /\ f = 1
  OBVIOUS
<1>2. PICK t \in [1..k -> Words] : t = IV
  BY <1>1, IVIsSeq
<1>a. PICK w \in [1..16 -> Words] : w = Block0(n)
  BY BlocksOf
<1>3. PICK g2, cv : g2 = With(gr, t) /\ cv = NodesOf(With(gr, t), t)
  OBVIOUS
<1>4. PICK val1 : Grows(gr, val, g2, val1) /\ \A i \in 1..k : Stands(g2, val1, t[i], t[i])
  BY <1>3, WordsGrow
<1>5. Reads(g2, val1, cv, 8, t)
  <2>1. Reads(g2, val1, NodesOf(g2, t), k, t)
    BY <1>4, NodesRead
  <2> QED
    BY <1>1, <1>3, <2>1
<1>6. Means(g2, val1)
  BY <1>4 DEF Grows
<1>7. s = CompressStart(g2, cv, w, b, f)
  BY <1>1, <1>2, <1>a, <1>3
<1>8. PICK val2 : /\ Grows(g2, val1, s.graph, val2)
                  /\ Shows([graph |-> s.graph, v |-> s.v], val2, StartOf(t, b, f))
                  /\ Reads(s.graph, val2, s.m, 16, w)
  BY <1>5, <1>6, <1>7, StartShows
<1>9. Grows(gr, val, s.graph, val2)
  <2>1. gr \in Seq(Term(Nat))
    BY DEF Means
  <2> QED
    BY <1>4, <1>8, <2>1, GrowsOn
<1>10. Reads(s.graph, val2, s.v, 16, StartOf(t, b, f))
  BY <1>8, ShowsReads
<1> QED
  BY <1>1, <1>2, <1>a, <1>3, <1>8, <1>9, <1>10 DEF First

\* And the next one, from what the first one leaves.
LEMMA SecondStarts ==
  ASSUME NEW gr, NEW val, Means(gr, val), NEW n \in Nat, NEW v,
         Reads(gr, val, v, 16, Rounds(First, Block0(n), 7)),
         NEW t, t = Folded([graph |-> gr, v |-> v]),
         NEW s, s = CompressStart(With(gr, t), NodesOf(With(gr, t), t), Block1(n), 28, 10)
  PROVE  \E val2 : /\ Grows(gr, val, s.graph, val2)
                   /\ Reads(s.graph, val2, s.v, 16, Second(n))
                   /\ Reads(s.graph, val2, s.m, 16, Block1(n))
<1>1. PICK b \in Int, f \in Int : b = 28 /\ f = 10
  OBVIOUS
<1>2. PICK s0 : s0 = [graph |-> gr, v |-> v]
  OBVIOUS
<1>a. PICK w \in [1..16 -> Words] : w = Block1(n)
  BY BlocksOf
<1>3. PICK g2, cv, c : /\ g2 = With(gr, t) /\ cv = NodesOf(With(gr, t), t)
                       /\ c = FoldOf(Rounds(First, Block0(n), 7))
  OBVIOUS
<1>b. Shows(s0, val, Rounds(First, Block0(n), 7)) /\ s0.graph = gr
  BY <1>2, ReadsShows
<1>4. PICK val1 : Grows(gr, val, g2, val1) /\ Reads(g2, val1, cv, 8, c)
  <2>1. t = Folded(s0)
    BY <1>2
  <2>2. PICK p : p = Rounds(First, Block0(n), 7)
    OBVIOUS
  <2>3. \E val1 : /\ Grows(s0.graph, val, With(s0.graph, t), val1)
                  /\ Reads(With(s0.graph, t), val1, NodesOf(With(s0.graph, t), t), 8, FoldOf(p))
    BY <1>b, <2>1, <2>2, FoldShows
  <2> QED
    BY <1>3, <1>b, <2>2, <2>3
<1>6. Means(g2, val1)
  BY <1>4 DEF Grows
<1>7. s = CompressStart(g2, cv, w, b, f)
  BY <1>1, <1>a, <1>3
<1>8. PICK val2 : /\ Grows(g2, val1, s.graph, val2)
                  /\ Shows([graph |-> s.graph, v |-> s.v], val2, StartOf(c, b, f))
                  /\ Reads(s.graph, val2, s.m, 16, w)
  BY <1>4, <1>6, <1>7, StartShows
<1>9. Grows(gr, val, s.graph, val2)
  <2>1. gr \in Seq(Term(Nat))
    BY DEF Means
  <2> QED
    BY <1>4, <1>8, <2>1, GrowsOn
<1>10. Reads(s.graph, val2, s.v, 16, StartOf(c, b, f))
  BY <1>8, ShowsReads
<1> QED
  BY <1>1, <1>a, <1>3, <1>8, <1>9, <1>10 DEF Second

\* The job: its words, and six mixes.
LEMMA JobShows ==
  ASSUME NEW gr, NEW val, Means(gr, val), NEW g2, g2 = With(gr, JobWords \o JobFixed),
         NEW m, m = NodesOf(g2, JobMessage), NEW m1, m1 = NodesOf(g2, JobSecond),
         NEW s, s = MixesOfRound([graph |-> g2, v |-> NodesOf(g2, JobFixed)], m,
                                 Schedule0[1], <<1, 2, 3, 4, 5, 8>>)
  PROVE  \E val2 : /\ Grows(gr, val, s.graph, val2)
                   /\ Reads(s.graph, val2, m, 16, JobWords)
                   /\ Reads(s.graph, val2, m1, 7, JobSecond)
                   /\ Reads(s.graph, val2, s.v, 16, Built)
                   /\ Stands(s.graph, val2, Zero, Zero)
<1>1. PICK k7 \in Nat, k16 \in Nat, k23 \in Nat, k39 \in Nat :
        k7 = 7 /\ k16 = 16 /\ k23 = 23 /\ k39 = 39
  OBVIOUS
<1>2. PICK a \in [1..k23 -> Words] : a = JobWords
  BY <1>1, JobWordsAre
<1>3. PICK b \in [1..k16 -> Words] : b = JobFixed
  BY <1>1, JobFixedIs
<1>4. PICK c \in [1..k16 -> Words] : c = JobMessage
  BY <1>1, JobPartsAre
<1>5. PICK d \in [1..k7 -> Words] : d = JobSecond
  BY <1>1, JobPartsAre
<1>6. PICK t : t = a \o b
  OBVIOUS
<1>7. t \in [1..k39 -> Words] /\ Holds(t, 0, a, k23) /\ Holds(t, k23, b, k16)
  <2>1. a \o b \in [1..k23 + k16 -> Words] /\ Holds(a \o b, 0, a, k23) /\ Holds(a \o b, k23, b, k16)
    BY Concat
  <2>2. k23 + k16 = k39
    BY <1>1
  <2> QED
    BY <1>6, <2>1, <2>2
<1>8. PICK val1 : Grows(gr, val, g2, val1) /\ \A i \in 1..k39 : Stands(g2, val1, t[i], t[i])
  <2>1. PICK val1 : Grows(gr, val, With(gr, t), val1) /\ \A i \in 1..k39 : Stands(With(gr, t), val1, t[i], t[i])
    BY <1>7, WordsGrow
  <2>2. g2 = With(gr, t)
    BY <1>2, <1>3, <1>6
  <2> QED
    BY <2>1, <2>2
<1>9. ASSUME NEW i \in 1..k23 PROVE Stands(g2, val1, a[i], a[i])
  <2>1. 0 + i = i /\ i \in 1..k39
    BY <1>1
  <2>2. t[i] = a[i]
    BY <1>7, <2>1 DEF Holds
  <2> QED
    BY <1>8, <2>1, <2>2
<1>10. ASSUME NEW i \in 1..k16 PROVE Stands(g2, val1, b[i], b[i])
  <2>1. k23 + i \in 1..k39
    BY <1>1
  <2>2. t[k23 + i] = b[i]
    BY <1>7 DEF Holds
  <2> QED
    BY <1>8, <2>1, <2>2
<1>11. ASSUME NEW i \in 1..k16 PROVE Stands(g2, val1, c[i], c[i]) /\ c[i] = a[i]
  <2>1. i \in 1..16 /\ i \in 1..k23
    BY <1>1
  <2>2. c[i] = a[i]
    BY <1>2, <1>4, <2>1, JobPartsAre
  <2> QED
    BY <1>9, <2>1, <2>2
<1>12. ASSUME NEW i \in 1..k7 PROVE Stands(g2, val1, d[i], d[i])
  <2>1. i \in 1..7 /\ 16 + i \in 1..k23
    BY <1>1
  <2>2. d[i] = a[16 + i]
    BY <1>2, <1>5, <2>1, JobPartsAre
  <2> QED
    BY <1>9, <2>1, <2>2
<1>13. Reads(g2, val1, m, 16, JobWords)
  <2>1. Reads(g2, val1, NodesOf(g2, c), k16, c)
    BY <1>11, NodesRead
  <2>2. Reads(g2, val1, m, k16, c)
    BY <1>4, <2>1
  <2>3. \A i \in 1..k16 : c[i] = JobWords[i]
    BY <1>2, <1>11
  <2> QED
    BY <1>1, <2>2, <2>3 DEF Reads
<1>14. Reads(g2, val1, m1, 7, JobSecond)
  <2>1. Reads(g2, val1, NodesOf(g2, d), k7, d)
    BY <1>12, NodesRead
  <2> QED
    BY <1>1, <1>5, <2>1
<1>15. Reads(g2, val1, NodesOf(g2, b), 16, First)
  <2>1. Reads(g2, val1, NodesOf(g2, b), k16, b)
    BY <1>10, NodesRead
  <2>2. \A i \in 1..16 : b[i] = First[i]
    BY <1>3, JobFixedIs DEF First
  <2> QED
    BY <1>1, <2>1, <2>2 DEF Reads
<1>16. Stands(g2, val1, Zero, Zero)
  <2>1. 12 \in 1..k23 /\ a[12] = Zero
    BY <1>1, <1>2, JobWordsAre
  <2> QED
    BY <1>9, <2>1
<1>17. Means(g2, val1)
  BY <1>8 DEF Grows
<1>18. PICK v, s0 : v = NodesOf(g2, b) /\ s0 = [graph |-> g2, v |-> v]
  OBVIOUS
<1>19. Shows(s0, val1, First) /\ s0.graph = g2
  BY <1>15, <1>17, <1>18, ReadsShows
<1>20. PICK o \in Orders : o = Schedule0[1]
  BY SchedulesAre
<1>21. s = MixesOfRound(s0, m, o, <<1, 2, 3, 4, 5, 8>>)
  BY <1>3, <1>18, <1>20
<1>22. Leads(s0, val1, MixesOfRound(s0, m, o, <<1, 2, 3, 4, 5, 8>>),
             KMix(Five(First, JobWords, o), JobWords, o, 8))
  <2>1. Reads(s0.graph, val1, m, 16, JobWords)
    BY <1>13, <1>19
  <2> QED
    BY <1>19, <2>1, BuiltShows
<1>23. KMix(Five(First, JobWords, o), JobWords, o, 8) = Built
  BY <1>20 DEF Built
<1>24. PICK val2 : Grows(g2, val1, s.graph, val2) /\ Shows(s, val2, Built)
  BY <1>19, <1>21, <1>22, <1>23 DEF Leads
<1>25. Grows(gr, val, s.graph, val2)
  <2>1. gr \in Seq(Term(Nat))
    BY DEF Means
  <2> QED
    BY <1>8, <1>24, <2>1, GrowsOn
<1>26. Reads(s.graph, val2, s.v, 16, Built)
  BY <1>24, ShowsReads
<1>27. Reads(s.graph, val2, m, 16, JobWords) /\ Reads(s.graph, val2, m1, 7, JobSecond)
  BY <1>13, <1>14, <1>17, <1>24, ReadsOn
<1>28. Stands(s.graph, val2, Zero, Zero)
  BY <1>16, <1>17, <1>24, StandsOn
<1> QED
  BY <1>25, <1>26, <1>27, <1>28

\* What a step leaves alone is as it was, in the graph it leads to.
LEMMA PartsStay ==
  ASSUME NEW val, Parts(val), NEW gr, NEW val2, Grows(nodes, val, gr, val2)
  PROVE  /\ Means(gr, val2) /\ JobPart(gr, val2, jw) /\ RefPart(gr, val2, ref, nonce)
         /\ HashPart(gr, val2, hashes, nonce) /\ DevPart(gr, val2, dev, nonce)
<1>1. Means(gr, val2)
  BY DEF Grows
<1> QED
  BY <1>1, PartsOn DEF Parts

\* alpha_build_job_pre.
LEMMA BuildJobKeeps == BlakeInv /\ BuildJob => BlakeInv'
<1> SUFFICES ASSUME BlakeInv, BuildJob
             PROVE  BlakeInv'
  OBVIOUS
<1>1. PICK val : Parts(val)
  BY DEF BlakeInv
<1> DEFINE g2 == With(nodes, JobWords \o JobFixed)
           m  == NodesOf(g2, JobMessage)
           m1 == NodesOf(g2, JobSecond)
           s  == MixesOfRound([graph |-> g2, v |-> NodesOf(g2, JobFixed)], m,
                              Schedule0[1], <<1, 2, 3, 4, 5, 8>>)
<1>2. /\ ~job_built /\ jw' = [m0 |-> m, m1 |-> m1, v0 |-> s.v] /\ nodes' = s.graph
      /\ UNCHANGED <<ref, dev, nonce, hashes, verdict>>
  BY DEF BuildJob, JobWords, JobFixed, JobMessage, JobSecond
<1>3. Means(nodes, val)
  BY <1>1 DEF Parts
<1>4. g2 = With(nodes, JobWords \o JobFixed) /\ m = NodesOf(g2, JobMessage) /\ m1 = NodesOf(g2, JobSecond)
      /\ s = MixesOfRound([graph |-> g2, v |-> NodesOf(g2, JobFixed)], m,
                          Schedule0[1], <<1, 2, 3, 4, 5, 8>>)
  OBVIOUS
<1> HIDE DEF g2, m, m1, s
<1>5. PICK val2 : /\ Grows(nodes, val, s.graph, val2)
                  /\ Reads(s.graph, val2, m, 16, JobWords)
                  /\ Reads(s.graph, val2, m1, 7, JobSecond)
                  /\ Reads(s.graph, val2, s.v, 16, Built)
                  /\ Stands(s.graph, val2, Zero, Zero)
  BY <1>3, <1>4, JobShows
<1>6. JobPart(nodes', val2, jw')
  <2>1. jw'.m0 = m /\ jw'.m1 = m1 /\ jw'.v0 = s.v
    BY <1>2
  <2> QED
    BY <1>2, <1>5, <2>1 DEF JobPart
<1>7. Order'
  BY <1>2 DEF BlakeInv, Order, job_built
<1>8. Parts(val2)'
  BY <1>1, <1>2, <1>5, <1>6, PartsStay DEF Parts
<1> QED
  BY <1>7, <1>8 DEF BlakeInv

\* A compression that is anywhere else is not idle.
LEMMA IdleAt == \A x : x.at # "idle" => x # Idle
<1>1. Idle.at = "idle"
  BY DEF Idle
<1> QED
  BY <1>1

\* A record of four parts has these parts.
LEMMA NotIdle == ASSUME NEW a, NEW r, NEW v, NEW m, NEW x, x = [at |-> a, round |-> r, v |-> v, m |-> m]
                 PROVE  Lane(x) /\ x.at = a /\ x.round = r /\ x.v = v /\ x.m = m
  BY DEF Lane

\* The CPU starts on a nonce.
LEMMA RefStartKeeps == ASSUME NEW n \in Nonces PROVE BlakeInv /\ RefStart(n) => BlakeInv'
<1> SUFFICES ASSUME BlakeInv, RefStart(n)
             PROVE  BlakeInv'
  OBVIOUS
<1>1. PICK val : Parts(val)
  BY DEF BlakeInv
<1> DEFINE s == CompressStart(With(nodes, IV), NodesOf(With(nodes, IV), IV), Block0(n), 64, 1)
<1>2. /\ job_built /\ ref.at = "idle" /\ dev.at = "idle" /\ hashes = <<>>
      /\ nonce' = n /\ nodes' = s.graph
      /\ ref' = [at |-> "block 0", round |-> 0, v |-> s.v, m |-> s.m]
      /\ UNCHANGED <<jw, dev, hashes, verdict>>
  BY DEF RefStart, Block0
<1>3. n \in Nat
  BY NoncesAssumption
<1>4. Means(nodes, val)
  BY <1>1 DEF Parts
<1>5. s = CompressStart(With(nodes, IV), NodesOf(With(nodes, IV), IV), Block0(n), 64, 1)
  OBVIOUS
<1> HIDE DEF s
<1>6. PICK val2 : /\ Grows(nodes, val, s.graph, val2)
                  /\ Reads(s.graph, val2, s.v, 16, First)
                  /\ Reads(s.graph, val2, s.m, 16, Block0(n))
  BY <1>3, <1>4, <1>5, FirstStarts
<1>7. Lane(ref') /\ ref'.at = "block 0" /\ ref'.round = 0 /\ ref'.v = s.v /\ ref'.m = s.m
  <2>1. PICK k : k = 0
    OBVIOUS
  <2>2. PICK a, x : a = "block 0" /\ x = ref'
    OBVIOUS
  <2>3. x = [at |-> a, round |-> k, v |-> s.v, m |-> s.m]
    BY <1>2, <2>1, <2>2
  <2>4. Lane(x) /\ x.at = a /\ x.round = k /\ x.v = s.v /\ x.m = s.m
    BY <2>3, NotIdle
  <2> QED
    BY <2>1, <2>2, <2>4
<1>8. RefPart(nodes', val2, ref', n)
  <2>1. Rounds(First, Block0(n), 0) = First
    BY RoundsAre
  <2>2. Reads(s.graph, val2, s.m, 16, Sched(Block0(n), 0))
    BY <1>6, StartInOrder
  <2>3. (IF ref'.round = 7 THEN 6 ELSE ref'.round) = 0 /\ ref'.round \in 0..7
    <3>1. PICK k \in 0..7 : k = 0
      OBVIOUS
    <3>2. ref'.round = k
      BY <1>7, <3>1
    <3>3. (IF k = 7 THEN 6 ELSE k) = 0
      BY <3>1
    <3> QED
      BY <3>2, <3>3
  <2> QED
    BY <1>2, <1>6, <1>7, <2>1, <2>2, <2>3 DEF RefPart
<1>9. dev = Idle
  BY <1>1, <1>2 DEF Parts, DevPart
<1>10. Order'
  BY <1>2, <1>3, <1>9 DEF BlakeInv, Order, job_built
<1>11. Parts(val2)'
  <2>1. Means(nodes', val2) /\ JobPart(nodes', val2, jw')
    BY <1>1, <1>2, <1>6, PartsStay
  <2>2. HashPart(nodes', val2, hashes', nonce')
    BY <1>2 DEF HashPart
  <2>3. DevPart(nodes', val2, dev', nonce')
    BY <1>2, <1>9 DEF DevPart
  <2> QED
    BY <1>2, <1>8, <2>1, <2>2, <2>3 DEF Parts
<1> QED
  BY <1>10, <1>11 DEF BlakeInv

\* A round of the CPU, in either block.
LEMMA RefRoundKeeps == BlakeInv /\ RefRound => BlakeInv'
<1> SUFFICES ASSUME BlakeInv, RefRound
             PROVE  BlakeInv'
  OBVIOUS
<1>1. PICK val : Parts(val)
  BY DEF BlakeInv
<1> DEFINE s == round_fn([graph |-> nodes, v |-> ref.v], ref.m)
           r == ref.round
<1>2. /\ ref.at # "idle" /\ r < 7 /\ nodes' = s.graph
      /\ ref' = [ref EXCEPT !.round = @ + 1, !.v = s.v,
                            !.m = IF ref.round # 6 THEN permute(@) ELSE @]
      /\ UNCHANGED <<jw, dev, nonce, hashes, verdict>>
  BY DEF RefRound
<1>3. s = round_fn([graph |-> nodes, v |-> ref.v], ref.m)
  OBVIOUS
<1>12. ref # Idle
  BY <1>2, IdleAt
<1>4. Means(nodes, val) /\ RefPart(nodes, val, ref, nonce)
  BY <1>1 DEF Parts
<1> HIDE DEF s
<1>5. Lane(ref) /\ r \in 0..7
  BY <1>4, <1>12 DEF RefPart
<1>6. r \in 0..6
  BY <1>2, <1>5
<1>7. ref' = [at |-> ref.at, round |-> r + 1, v |-> s.v, m |-> IF r # 6 THEN permute(ref.m) ELSE ref.m]
  <2>1. ref = [at |-> ref.at, round |-> ref.round, v |-> ref.v, m |-> ref.m]
    BY <1>5 DEF Lane
  <2> QED
    BY <1>2, <2>1
<1>8. /\ Lane(ref') /\ ref'.at = ref.at /\ ref'.round = r + 1 /\ ref'.v = s.v
      /\ ref'.m = IF r # 6 THEN permute(ref.m) ELSE ref.m
  BY <1>7, NotIdle
<1>9. r + 1 \in 0..7 /\ (IF r = 7 THEN 6 ELSE r) = r
  BY <1>6
<1> HIDE DEF r
<1>10. CASE ref.at = "block 0"
  <2>1. /\ Reads(nodes, val, ref.v, 16, Rounds(First, Block0(nonce), r))
        /\ Reads(nodes, val, ref.m, 16, Sched(Block0(nonce), r))
    BY <1>4, <1>9, <1>10, <1>12 DEF RefPart, r
  <2>2. PICK val2 : /\ Grows(nodes, val, s.graph, val2)
                    /\ Reads(s.graph, val2, s.v, 16, Rounds(First, Block0(nonce), r + 1))
                    /\ Reads(s.graph, val2, IF r # 6 THEN permute(ref.m) ELSE ref.m, 16,
                             Sched(Block0(nonce), IF r + 1 = 7 THEN 6 ELSE r + 1))
    BY <1>3, <1>4, <1>6, <2>1, RefRoundShows
  <2>3. RefPart(nodes', val2, ref', nonce)
    BY <1>2, <1>8, <1>9, <1>10, <2>2 DEF RefPart
  <2>4. Parts(val2)'
    BY <1>1, <1>2, <2>2, <2>3, PartsStay DEF Parts
  <2>5. Order'
    BY <1>2, <1>12 DEF BlakeInv, Order, job_built
  <2> QED
    BY <2>4, <2>5 DEF BlakeInv
<1>11. CASE ref.at = "block 1"
  <2>1. /\ Reads(nodes, val, ref.v, 16, Rounds(Second(nonce), Block1(nonce), r))
        /\ Reads(nodes, val, ref.m, 16, Sched(Block1(nonce), r))
    BY <1>4, <1>9, <1>11, <1>12 DEF RefPart, r
  <2>2. PICK val2 : /\ Grows(nodes, val, s.graph, val2)
                    /\ Reads(s.graph, val2, s.v, 16, Rounds(Second(nonce), Block1(nonce), r + 1))
                    /\ Reads(s.graph, val2, IF r # 6 THEN permute(ref.m) ELSE ref.m, 16,
                             Sched(Block1(nonce), IF r + 1 = 7 THEN 6 ELSE r + 1))
    BY <1>3, <1>4, <1>6, <2>1, RefRoundShows
  <2>3. RefPart(nodes', val2, ref', nonce)
    BY <1>2, <1>8, <1>9, <1>11, <2>2 DEF RefPart
  <2>4. Parts(val2)'
    BY <1>1, <1>2, <2>2, <2>3, PartsStay DEF Parts
  <2>5. Order'
    BY <1>2, <1>12 DEF BlakeInv, Order, job_built
  <2> QED
    BY <2>4, <2>5 DEF BlakeInv
<1> QED
  BY <1>4, <1>10, <1>11, <1>12 DEF RefPart

\* The CPU goes on to the second block.
LEMMA RefSecondBlockKeeps == BlakeInv /\ RefSecondBlock => BlakeInv'
<1> SUFFICES ASSUME BlakeInv, RefSecondBlock
             PROVE  BlakeInv'
  OBVIOUS
<1>1. PICK val : Parts(val)
  BY DEF BlakeInv
<1> DEFINE t == Folded([graph |-> nodes, v |-> ref.v])
           s == CompressStart(With(nodes, t), NodesOf(With(nodes, t), t), Block1(nonce), 28, 10)
<1>2. /\ ref.at = "block 0" /\ ref.round = 7 /\ nodes' = s.graph
      /\ ref' = [at |-> "block 1", round |-> 0, v |-> s.v, m |-> s.m]
      /\ UNCHANGED <<jw, dev, nonce, hashes, verdict>>
  BY DEF RefSecondBlock, Block1, Folded
<1>3. t = Folded([graph |-> nodes, v |-> ref.v])
      /\ s = CompressStart(With(nodes, t), NodesOf(With(nodes, t), t), Block1(nonce), 28, 10)
  OBVIOUS
<1> HIDE DEF t, s
<1>4. Means(nodes, val) /\ RefPart(nodes, val, ref, nonce) /\ nonce \in Nat
  BY <1>1 DEF Parts, BlakeInv, Order
<1>11. ref # Idle
  BY <1>2, IdleAt
<1>5. Reads(nodes, val, ref.v, 16, Rounds(First, Block0(nonce), 7))
  BY <1>2, <1>4, <1>11 DEF RefPart
<1>6. PICK val2 : /\ Grows(nodes, val, s.graph, val2)
                  /\ Reads(s.graph, val2, s.v, 16, Second(nonce))
                  /\ Reads(s.graph, val2, s.m, 16, Block1(nonce))
  BY <1>3, <1>4, <1>5, SecondStarts
<1>7. Lane(ref') /\ ref'.at = "block 1" /\ ref'.round = 0 /\ ref'.v = s.v /\ ref'.m = s.m
  <2>1. PICK k : k = 0
    OBVIOUS
  <2>2. PICK a, x : a = "block 1" /\ x = ref'
    OBVIOUS
  <2>3. x = [at |-> a, round |-> k, v |-> s.v, m |-> s.m]
    BY <1>2, <2>1, <2>2
  <2>4. Lane(x) /\ x.at = a /\ x.round = k /\ x.v = s.v /\ x.m = s.m
    BY <2>3, NotIdle
  <2> QED
    BY <2>1, <2>2, <2>4
<1>8. RefPart(nodes', val2, ref', nonce)
  <2>1. Rounds(Second(nonce), Block1(nonce), 0) = Second(nonce)
    BY RoundsAre
  <2>2. Reads(s.graph, val2, s.m, 16, Sched(Block1(nonce), 0))
    BY <1>6, StartInOrder
  <2>3. (IF ref'.round = 7 THEN 6 ELSE ref'.round) = 0 /\ ref'.round \in 0..7
    <3>1. PICK k \in 0..7 : k = 0
      OBVIOUS
    <3>2. ref'.round = k
      BY <1>7, <3>1
    <3>3. (IF k = 7 THEN 6 ELSE k) = 0
      BY <3>1
    <3> QED
      BY <3>2, <3>3
  <2> QED
    BY <1>2, <1>6, <1>7, <2>1, <2>2, <2>3 DEF RefPart
<1>9. Parts(val2)'
  BY <1>1, <1>2, <1>6, <1>8, PartsStay DEF Parts
<1>10. Order'
  BY <1>2, <1>11 DEF BlakeInv, Order, job_built
<1> QED
  BY <1>9, <1>10 DEF BlakeInv

\* The hash.
LEMMA RefEndKeeps == BlakeInv /\ RefEnd => BlakeInv'
<1> SUFFICES ASSUME BlakeInv, RefEnd
             PROVE  BlakeInv'
  OBVIOUS
<1>1. PICK val : Parts(val)
  BY DEF BlakeInv
<1> DEFINE s0 == [graph |-> nodes, v |-> ref.v]
           t == Folded(s0)
           p == Rounds(Second(nonce), Block1(nonce), 7)
<1>2. /\ ref.at = "block 1" /\ ref.round = 7 /\ nodes' = With(nodes, t)
      /\ hashes' = NodesOf(With(nodes, t), t) /\ ref' = Idle
      /\ UNCHANGED <<jw, dev, nonce, verdict>>
  BY DEF RefEnd, Folded
<1> HIDE DEF p
<1>3. Means(nodes, val) /\ RefPart(nodes, val, ref, nonce)
  BY <1>1 DEF Parts
<1>15. ref # Idle
  BY <1>2, IdleAt
<1>4. Reads(nodes, val, ref.v, 16, p)
  BY <1>2, <1>3, <1>15 DEF RefPart, p
<1>5. Shows(s0, val, p) /\ s0.graph = nodes
  BY <1>3, <1>4, ReadsShows
<1> HIDE DEF s0
<1>6. t = Folded(s0)
  OBVIOUS
<1> HIDE DEF t
<1>7. PICK val2 : /\ Grows(s0.graph, val, With(s0.graph, t), val2)
                  /\ Reads(With(s0.graph, t), val2, NodesOf(With(s0.graph, t), t), 8, FoldOf(p))
  BY <1>5, <1>6, FoldShows
<1>8. Grows(nodes, val, nodes', val2) /\ Reads(nodes', val2, hashes', 8, FoldOf(p))
  BY <1>2, <1>5, <1>7
<1>9. HashPart(nodes', val2, hashes', nonce)
  BY <1>8 DEF HashPart, HashOf, p
<1>10. RefPart(nodes', val2, ref', nonce)
  BY <1>2 DEF RefPart
<1>11. Parts(val2)'
  BY <1>1, <1>2, <1>8, <1>9, <1>10, PartsStay DEF Parts
<1>12. job_built
  BY <1>15 DEF BlakeInv, Order
<1>13. hashes' # <<>>
  <2>1. hashes' \in [1..8 -> Nat]
    BY <1>8 DEF Reads
  <2>2. 1 \in DOMAIN hashes'
    BY <2>1
  <2> QED
    BY <2>2
<1>14. Order'
  BY <1>2, <1>12, <1>13 DEF BlakeInv, Order, job_built
<1> QED
  BY <1>11, <1>14 DEF BlakeInv

\* The lane takes over the registers of the job.
LEMMA DevStartKeeps == BlakeInv /\ DevStart => BlakeInv'
<1> SUFFICES ASSUME BlakeInv, DevStart
             PROVE  BlakeInv'
  OBVIOUS
<1>1. PICK val : Parts(val)
  BY DEF BlakeInv
<1> DEFINE t  == <<NonceLow(nonce), NonceHigh(nonce)>>
           g2 == With(nodes, t)
           m  == M0(g2, nonce)
           s  == MixesOfRound([graph |-> g2, v |-> jw.v0], m, Schedule0[1], <<6, 7>>)
<1>2. /\ hashes # <<>> /\ dev.at = "idle" /\ nodes' = s.graph
      /\ dev' = [at |-> "block 0", round |-> 1, v |-> s.v, m |-> m]
      /\ UNCHANGED <<jw, ref, nonce, hashes, verdict>>
  BY DEF DevStart
<1>3. nonce \in Nat /\ job_built
  BY <1>2 DEF BlakeInv, Order
<1>4. /\ Means(nodes, val) /\ Reads(nodes, val, jw.m0, 16, JobWords)
      /\ Reads(nodes, val, jw.v0, 16, Built)
  <2>1. NoJobPre.v0 = <<>>
    BY DEF NoJobPre
  <2>2. jw # NoJobPre
    BY <1>3, <2>1 DEF job_built
  <2> QED
    BY <1>1, <2>2 DEF Parts, JobPart
<1>5. PICK val1 : /\ Grows(nodes, val, g2, val1)
                  /\ Stands(g2, val1, NonceLow(nonce), NonceLow(nonce))
                  /\ Stands(g2, val1, NonceHigh(nonce), NonceHigh(nonce))
  <2>1. PICK n \in Nat : n = 2
    OBVIOUS
  <2>2. NonceLow(nonce) \in Words /\ NonceHigh(nonce) \in Words
    BY <1>3, NonceWords
  <2>3. PICK u : u = t
    OBVIOUS
  <2>4. u \in [1..n -> Words] /\ u[1] = NonceLow(nonce) /\ u[2] = NonceHigh(nonce)
    BY <2>1, <2>2, <2>3
  <2>5. \E val1 : /\ Grows(nodes, val, With(nodes, u), val1)
                  /\ \A i \in 1..n : Stands(With(nodes, u), val1, u[i], u[i])
    BY <1>4, <2>4, WordsGrow
  <2>6. 1 \in 1..n /\ 2 \in 1..n
    BY <2>1
  <2> QED
    BY <2>3, <2>4, <2>5, <2>6
<1>6. s = MixesOfRound([graph |-> g2, v |-> jw.v0], m, Schedule0[1], <<6, 7>>)
  OBVIOUS
<1>7. Reads(g2, val1, m, 16, Block0(nonce)) /\ Reads(g2, val1, jw.v0, 16, Built) /\ Means(g2, val1)
  <2>1. Reads(g2, val1, jw.m0, 16, JobWords) /\ Reads(g2, val1, jw.v0, 16, Built)
    BY <1>4, <1>5, ReadsOn
  <2>2. Reads(g2, val1, M0(g2, nonce), 16, Block0(nonce))
    BY <1>3, <1>5, <2>1, M0Reads
  <2> QED
    BY <1>5, <2>1, <2>2 DEF Grows
<1> HIDE DEF t, g2, m, s
<1>8. PICK val2 : /\ Grows(g2, val1, s.graph, val2)
                  /\ Reads(s.graph, val2, s.v, 16, Rounds(First, Block0(nonce), 1))
                  /\ Reads(s.graph, val2, m, 16, Block0(nonce))
  BY <1>3, <1>6, <1>7, DevStartShows
<1>9. Grows(nodes, val, s.graph, val2)
  <2>1. nodes \in Seq(Term(Nat))
    BY <1>4 DEF Means
  <2> QED
    BY <1>5, <1>8, <2>1, GrowsOn
<1>10. PICK k \in 1..7 : k = 1
  OBVIOUS
<1>11. Lane(dev') /\ dev'.at = "block 0" /\ dev'.round = k /\ dev'.v = s.v /\ dev'.m = m
  <2>1. PICK a, x : a = "block 0" /\ x = dev'
    OBVIOUS
  <2>2. x = [at |-> a, round |-> k, v |-> s.v, m |-> m]
    BY <1>2, <1>10, <2>1
  <2>3. Lane(x) /\ x.at = a /\ x.round = k /\ x.v = s.v /\ x.m = m
    BY <2>2, NotIdle
  <2> QED
    BY <2>1, <2>3
<1>12. DevPart(nodes', val2, dev', nonce)
  BY <1>2, <1>8, <1>10, <1>11 DEF DevPart
<1>13. Parts(val2)'
  BY <1>1, <1>2, <1>9, <1>12, PartsStay DEF Parts
<1>14. Order'
  BY <1>2, <1>3 DEF BlakeInv, Order, job_built
<1> QED
  BY <1>13, <1>14 DEF BlakeInv

\* A round of its first block.
LEMMA DevRound0Keeps == BlakeInv /\ DevRound0 => BlakeInv'
<1> SUFFICES ASSUME BlakeInv, DevRound0
             PROVE  BlakeInv'
  OBVIOUS
<1>1. PICK val : Parts(val)
  BY DEF BlakeInv
<1> DEFINE r == dev.round
           s == MixesOfRound([graph |-> nodes, v |-> dev.v], dev.m, Schedule0[r + 1], EightMixes)
<1>2. /\ dev.at = "block 0" /\ r < 7 /\ nodes' = s.graph
      /\ dev' = [dev EXCEPT !.round = @ + 1, !.v = s.v]
      /\ UNCHANGED <<jw, ref, nonce, hashes, verdict>>
  BY DEF DevRound0
<1>3. s = MixesOfRound([graph |-> nodes, v |-> dev.v], dev.m, Schedule0[r + 1], EightMixes)
  OBVIOUS
<1> HIDE DEF s
<1>4. dev # Idle
  BY <1>2, IdleAt
<1>5. Means(nodes, val) /\ DevPart(nodes, val, dev, nonce)
  BY <1>1 DEF Parts
<1>6. /\ Lane(dev) /\ r \in 0..6 /\ r + 1 \in 1..7
      /\ Reads(nodes, val, dev.v, 16, Rounds(First, Block0(nonce), r))
      /\ Reads(nodes, val, dev.m, 16, Block0(nonce))
  <2>1. dev.at # "block 1" /\ dev.at # "done"
    BY <1>2
  <2>2. /\ Lane(dev) /\ dev.round \in 1..7
        /\ Reads(nodes, val, dev.v, 16, Rounds(First, Block0(nonce), dev.round))
        /\ Reads(nodes, val, dev.m, 16, Block0(nonce))
    BY <1>4, <1>5, <2>1, Zenon DEF DevPart
  <2>3. r \in 0..6 /\ r + 1 \in 1..7
    <3>1. PICK k \in 1..7 : k = r
      BY <2>2
    <3>2. k < 7
      BY <1>2, <3>1, Zenon
    <3>3. k \in 0..6 /\ k + 1 \in 1..7
      BY <3>2
    <3> QED
      BY <3>1, <3>3
  <2> QED
    BY <2>2, <2>3
<1>7. dev' = [at |-> dev.at, round |-> r + 1, v |-> s.v, m |-> dev.m]
  <2>1. dev = [at |-> dev.at, round |-> dev.round, v |-> dev.v, m |-> dev.m]
    BY <1>6 DEF Lane
  <2> QED
    BY <1>2, <2>1
<1>8. Lane(dev') /\ dev'.at = dev.at /\ dev'.round = r + 1 /\ dev'.v = s.v /\ dev'.m = dev.m
  BY <1>7, NotIdle
<1> HIDE DEF r
<1>9. PICK val2 : /\ Grows(nodes, val, s.graph, val2)
                  /\ Reads(s.graph, val2, s.v, 16, Rounds(First, Block0(nonce), r + 1))
                  /\ Reads(s.graph, val2, dev.m, 16, Block0(nonce))
  BY <1>3, <1>5, <1>6, DevRoundShows
<1>10. DevPart(nodes', val2, dev', nonce)
  BY <1>2, <1>6, <1>8, <1>9 DEF DevPart
<1>11. Parts(val2)'
  BY <1>1, <1>2, <1>9, <1>10, PartsStay DEF Parts
<1>12. Order'
  BY <1>2, <1>4 DEF BlakeInv, Order, job_built
<1> QED
  BY <1>11, <1>12 DEF BlakeInv

\* It goes on to the second block.
LEMMA DevSecondBlockKeeps == BlakeInv /\ DevSecondBlock => BlakeInv'
<1> SUFFICES ASSUME BlakeInv, DevSecondBlock
             PROVE  BlakeInv'
  OBVIOUS
<1>1. PICK val : Parts(val)
  BY DEF BlakeInv
<1> DEFINE s0 == [graph |-> nodes, v |-> dev.v]
           t  == Folded(s0) \o Fixed(28, 10)
           g2 == With(nodes, t)
           p  == Rounds(First, Block0(nonce), 7)
<1>2. /\ dev.at = "block 0" /\ dev.round = 7 /\ nodes' = g2
      /\ dev' = [at |-> "block 1", round |-> 0, v |-> NodesOf(g2, t), m |-> M1]
      /\ UNCHANGED <<jw, ref, nonce, hashes, verdict>>
  BY IVIsSeq DEF DevSecondBlock, Folded, Fixed
<1> HIDE DEF p
<1>3. dev # Idle
  BY <1>2, IdleAt
<1>4. Means(nodes, val) /\ DevPart(nodes, val, dev, nonce) /\ nonce \in Nat /\ job_built
  BY <1>1, <1>3 DEF Parts, BlakeInv, Order
<1>5. Reads(nodes, val, dev.v, 16, p)
  BY <1>2, <1>3, <1>4 DEF DevPart, p
<1>6. Shows(s0, val, p) /\ s0.graph = nodes
  BY <1>4, <1>5, ReadsShows
<1> HIDE DEF s0
<1>7. t = Folded(s0) \o Fixed(28, 10) /\ g2 = With(s0.graph, t)
  BY <1>6
<1> HIDE DEF t, g2
<1>8. PICK val2 : Grows(nodes, val, g2, val2) /\ Reads(g2, val2, NodesOf(g2, t), 16, Second(nonce))
  <2>1. \E val2 : /\ Grows(s0.graph, val, With(s0.graph, t), val2)
                  /\ Reads(With(s0.graph, t), val2, NodesOf(With(s0.graph, t), t), 16,
                           StartOf(FoldOf(p), 28, 10))
    BY <1>6, <1>7, HeadStarts
  <2>2. Second(nonce) = StartOf(FoldOf(p), 28, 10)
    BY DEF Second, p
  <2> QED
    BY <1>6, <1>7, <2>1, <2>2
<1>9. Reads(nodes, val, M1, 16, Block1(nonce))
  <2>1. NoJobPre.v0 = <<>>
    BY DEF NoJobPre
  <2>2. jw # NoJobPre
    BY <1>4, <2>1 DEF job_built
  <2>3. Reads(nodes, val, jw.m1, 7, JobSecond) /\ Stands(nodes, val, Zero, Zero)
    BY <1>1, <2>2 DEF Parts, JobPart
  <2> QED
    BY <1>4, <2>3, M1Reads
<1>10. Reads(g2, val2, M1, 16, Block1(nonce))
  BY <1>4, <1>8, <1>9, ReadsOn
<1>11. PICK k \in 0..6 : k = 0
  OBVIOUS
<1>12. Lane(dev') /\ dev'.at = "block 1" /\ dev'.round = k /\ dev'.v = NodesOf(g2, t) /\ dev'.m = M1
  <2>1. PICK a, x, v, m : a = "block 1" /\ x = dev' /\ v = NodesOf(g2, t) /\ m = M1
    OBVIOUS
  <2>2. x = [at |-> a, round |-> k, v |-> v, m |-> m]
    BY <1>2, <1>11, <2>1
  <2>3. Lane(x) /\ x.at = a /\ x.round = k /\ x.v = v /\ x.m = m
    BY <2>2, NotIdle
  <2> QED
    BY <2>1, <2>3
<1>13. Rounds(Second(nonce), Block1(nonce), k) = Second(nonce)
  BY <1>11, RoundsAre
<1>14. DevPart(nodes', val2, dev', nonce)
  <2>1. /\ Reads(nodes', val2, dev'.v, 16, Rounds(Second(nonce), Block1(nonce), dev'.round))
        /\ Reads(nodes', val2, dev'.m, 16, Block1(nonce)) /\ dev'.round \in 0..6
    BY <1>2, <1>8, <1>10, <1>12, <1>13
  <2> QED
    BY <1>12, <2>1 DEF DevPart
<1>15. Parts(val2)'
  <2>1. nodes' = g2
    BY <1>2
  <2> QED
    BY <1>1, <1>2, <1>8, <1>14, <2>1, PartsStay DEF Parts
<1>16. Order'
  BY <1>2, <1>3 DEF BlakeInv, Order, job_built
<1> QED
  BY <1>15, <1>16 DEF BlakeInv

\* A round of that, or what the head does of the last one.
LEMMA DevRound1Keeps == BlakeInv /\ DevRound1 => BlakeInv'
<1> SUFFICES ASSUME BlakeInv, DevRound1
             PROVE  BlakeInv'
  OBVIOUS
<1>1. PICK val : Parts(val)
  BY DEF BlakeInv
<1> DEFINE r == dev.round
           s == MixesOfRound([graph |-> nodes, v |-> dev.v], dev.m, Schedule1[r + 1],
                             IF r < 6 THEN EightMixes ELSE <<1, 2, 3, 4, 5, 7>>)
           p == Second(nonce)
           w == Block1(nonce)
<1>2. /\ dev.at = "block 1" /\ r < 7 /\ nodes' = s.graph
      /\ dev' = [dev EXCEPT !.round = @ + 1, !.v = s.v]
      /\ UNCHANGED <<jw, ref, nonce, hashes, verdict>>
  BY DEF DevRound1
<1>3. s = MixesOfRound([graph |-> nodes, v |-> dev.v], dev.m, Schedule1[r + 1],
                       IF r < 6 THEN EightMixes ELSE <<1, 2, 3, 4, 5, 7>>)
  OBVIOUS
<1> HIDE DEF s, p, w
<1>4. dev # Idle
  BY <1>2, IdleAt
<1>5. Means(nodes, val) /\ DevPart(nodes, val, dev, nonce)
  BY <1>1 DEF Parts
<1>6. /\ Lane(dev) /\ r \in 0..6 /\ r + 1 \in 1..7
      /\ Reads(nodes, val, dev.v, 16, Rounds(p, w, r)) /\ Reads(nodes, val, dev.m, 16, w)
  <2>1. dev.at # "block 0" /\ dev.at # "done"
    BY <1>2
  <2>2. dev.round # 7
    <3>1. ~(7 < 7)
      OBVIOUS
    <3> QED
      BY <1>2, <3>1, Zenon
  <2>3. /\ Lane(dev) /\ dev.round \in 0..6
        /\ Reads(nodes, val, dev.v, 16, Rounds(p, w, dev.round))
        /\ Reads(nodes, val, dev.m, 16, w)
    BY <1>4, <1>5, <2>1, <2>2, Zenon DEF DevPart, p, w
  <2>4. r + 1 \in 1..7
    BY <2>3
  <2> QED
    BY <2>3, <2>4
<1>7. dev' = [at |-> dev.at, round |-> r + 1, v |-> s.v, m |-> dev.m]
  <2>1. dev = [at |-> dev.at, round |-> dev.round, v |-> dev.v, m |-> dev.m]
    BY <1>6 DEF Lane
  <2> QED
    BY <1>2, <2>1
<1>8. Lane(dev') /\ dev'.at = dev.at /\ dev'.round = r + 1 /\ dev'.v = s.v /\ dev'.m = dev.m
  BY <1>7, NotIdle
<1> HIDE DEF r
<1>9. Schedule1[r + 1] = Schedule0[r + 1]
  BY <1>6, SchedulesAre
<1>10. Order'
  BY <1>2, <1>4 DEF BlakeInv, Order, job_built
<1>11. CASE r # 6
  <2>1. r < 6 /\ r + 1 \in 0..6
    BY <1>6, <1>11
  <2>2. s = MixesOfRound([graph |-> nodes, v |-> dev.v], dev.m, Schedule0[r + 1], EightMixes)
    BY <1>3, <1>9, <2>1
  <2>3. PICK val2 : /\ Grows(nodes, val, s.graph, val2)
                    /\ Reads(s.graph, val2, s.v, 16, Rounds(p, w, r + 1))
                    /\ Reads(s.graph, val2, dev.m, 16, w)
    BY <1>5, <1>6, <2>2, DevRoundShows
  <2>4. DevPart(nodes', val2, dev', nonce)
    BY <1>2, <1>8, <2>1, <2>3 DEF DevPart, p, w
  <2>5. Parts(val2)'
    BY <1>1, <1>2, <2>3, <2>4, PartsStay DEF Parts
  <2> QED
    BY <1>10, <2>5 DEF BlakeInv
<1>12. CASE r = 6
  <2>1. ~(r < 6) /\ r + 1 = 7
    BY <1>12
  <2>2. s = MixesOfRound([graph |-> nodes, v |-> dev.v], dev.m, Schedule0[7], <<1, 2, 3, 4, 5, 7>>)
    BY <1>3, <1>9, <2>1
  <2>3. PICK q : q = Rounds(p, w, 6)
    OBVIOUS
  <2>4. Reads(nodes, val, dev.v, 16, q)
    BY <1>6, <1>12, <2>3
  <2>5. PICK val2 : /\ Grows(nodes, val, s.graph, val2)
                    /\ Reads(s.graph, val2, s.v, 16, HeadOf(q, w))
                    /\ Reads(s.graph, val2, dev.m, 16, w)
    BY <1>5, <1>6, <2>2, <2>4, DevHeadShows
  <2>6. DevPart(nodes', val2, dev', nonce)
    BY <1>2, <1>8, <2>1, <2>3, <2>5 DEF DevPart, p, w
  <2>7. Parts(val2)'
    BY <1>1, <1>2, <2>5, <2>6, PartsStay DEF Parts
  <2> QED
    BY <1>10, <2>7 DEF BlakeInv
<1> QED
  BY <1>11, <1>12

\* The tail.
LEMMA DevTailKeeps == BlakeInv /\ DevTail => BlakeInv'
<1> SUFFICES ASSUME BlakeInv, DevTail
             PROVE  BlakeInv'
  OBVIOUS
<1>1. PICK val : Parts(val)
  BY DEF BlakeInv
<1> DEFINE s == MixesOfRound([graph |-> nodes, v |-> dev.v], dev.m, Schedule1[7], <<6, 8>>)
           p == Second(nonce)
           w == Block1(nonce)
<1>2. /\ dev.at = "block 1" /\ dev.round = 7 /\ nodes' = s.graph
      /\ dev' = [dev EXCEPT !.at = "done", !.v = s.v]
      /\ UNCHANGED <<jw, ref, nonce, hashes, verdict>>
  BY DEF DevTail
<1>3. s = MixesOfRound([graph |-> nodes, v |-> dev.v], dev.m, Schedule0[7], <<6, 8>>)
  BY SchedulesAre
<1> HIDE DEF s, p, w
<1>4. dev # Idle
  BY <1>2, IdleAt
<1>5. Means(nodes, val) /\ DevPart(nodes, val, dev, nonce)
  BY <1>1 DEF Parts
<1>6. /\ Lane(dev) /\ Reads(nodes, val, dev.v, 16, HeadOf(Rounds(p, w, 6), w))
      /\ Reads(nodes, val, dev.m, 16, w)
  <2>1. dev.at # "block 0" /\ dev.at # "done"
    BY <1>2
  <2>2. dev.round \notin 0..6
    <3>1. 7 \notin 0..6
      OBVIOUS
    <3> QED
      BY <1>2, <3>1, Zenon
  <2> QED
    BY <1>4, <1>5, <2>1, <2>2, Zenon DEF DevPart, p, w
<1>7. Lane(dev') /\ dev'.at = "done" /\ dev'.round = dev.round /\ dev'.v = s.v /\ dev'.m = dev.m
  <2>1. dev = [at |-> dev.at, round |-> dev.round, v |-> dev.v, m |-> dev.m]
    BY <1>6 DEF Lane
  <2>2. PICK a, x : a = "done" /\ x = dev'
    OBVIOUS
  <2>3. x = [at |-> a, round |-> dev.round, v |-> s.v, m |-> dev.m]
    BY <1>2, <2>1, <2>2
  <2>4. Lane(x) /\ x.at = a /\ x.round = dev.round /\ x.v = s.v /\ x.m = dev.m
    BY <2>3, NotIdle
  <2> QED
    BY <2>2, <2>4
<1>8. PICK val2 : /\ Grows(nodes, val, s.graph, val2)
                  /\ Reads(s.graph, val2, s.v, 16, Rounds(p, w, 7))
  BY <1>3, <1>5, <1>6, DevTailShows
<1>9. DevPart(nodes', val2, dev', nonce)
  BY <1>2, <1>7, <1>8 DEF DevPart, p, w
<1>10. Parts(val2)'
  BY <1>1, <1>2, <1>8, <1>9, PartsStay DEF Parts
<1>11. Order'
  BY <1>2, <1>4 DEF BlakeInv, Order, job_built
<1> QED
  BY <1>10, <1>11 DEF BlakeInv

\* The next nonce leaves the job and the graph.
LEMMA NextNonceKeeps == BlakeInv /\ NextNonce => BlakeInv'
<1> SUFFICES ASSUME BlakeInv, NextNonce
             PROVE  BlakeInv'
  OBVIOUS
<1>1. PICK val : Parts(val)
  BY DEF BlakeInv
<1>2. dev' = Idle /\ hashes' = <<>> /\ UNCHANGED <<nodes, jw, ref, nonce, verdict>>
  BY DEF NextNonce
<1>3. Parts(val)'
  BY <1>1, <1>2 DEF Parts, HashPart, DevPart
<1>4. Order'
  BY <1>2 DEF BlakeInv, Order, job_built
<1> QED
  BY <1>3, <1>4 DEF BlakeInv

\* For every header and every choice of nonces: whatever is in the registers of the
\* CPU and of the GPU is what the rounds they have done make of the two blocks of
\* the header, ...
THEOREM WordPathInvariance == BlakeSpec => []BlakeInv
<1>1. BlakeInit => BlakeInv
  <2> SUFFICES ASSUME BlakeInit
               PROVE  BlakeInv
    OBVIOUS
  <2>1. /\ nodes = <<>> /\ jw = NoJobPre /\ ref = Idle /\ dev = Idle /\ nonce = 0 /\ hashes = <<>>
    BY DEF BlakeInit
  <2>2. Means(nodes, <<>>)
    BY <2>1 DEF Means, Different
  <2>3. Parts(<<>>)
    BY <2>1, <2>2 DEF Parts, JobPart, RefPart, HashPart, DevPart
  <2>4. Order
    BY <2>1 DEF Order
  <2> QED
    BY <2>3, <2>4 DEF BlakeInv
<1>2. BlakeInv /\ [BlakeNext]_blakeVars => BlakeInv'
  <2> SUFFICES ASSUME BlakeInv, [BlakeNext]_blakeVars
               PROVE  BlakeInv'
    OBVIOUS
  <2>1. CASE UNCHANGED <<nodes, jw, ref, dev, nonce, hashes>>
    BY <2>1 DEF BlakeInv, Order, Parts, job_built
  <2>2. CASE BuildJob
    BY <2>2, BuildJobKeeps
  <2>3. CASE \E n \in Nonces : RefStart(n)
    BY <2>3, RefStartKeeps
  <2>4. CASE RefRound
    BY <2>4, RefRoundKeeps
  <2>5. CASE RefSecondBlock
    BY <2>5, RefSecondBlockKeeps
  <2>6. CASE RefEnd
    BY <2>6, RefEndKeeps
  <2>7. CASE DevStart
    BY <2>7, DevStartKeeps
  <2>8. CASE DevRound0
    BY <2>8, DevRound0Keeps
  <2>9. CASE DevSecondBlock
    BY <2>9, DevSecondBlockKeeps
  <2>10. CASE DevRound1
    BY <2>10, DevRound1Keeps
  <2>11. CASE DevTail
    BY <2>11, DevTailKeeps
  <2>12. CASE NextNonce
    BY <2>12, NextNonceKeeps
  <2>13. ASSUME NEW h \in HashBytes, NEW target \in [1..HashWords * WordBytes -> 0..WordRadix - 1],
                Judge(h, target)
         PROVE  BlakeInv'
    BY <2>1, <2>13 DEF Judge
  <2>14. CASE Judged
    BY <2>1, <2>14 DEF Judged
  <2>15. CASE UNCHANGED blakeVars
    BY <2>1, <2>15 DEF blakeVars
  <2> QED
    BY <2>2, <2>3, <2>4, <2>5, <2>6, <2>7, <2>8, <2>9, <2>10, <2>11, <2>12, <2>13, <2>14, <2>15
       DEF BlakeNext
<1> QED
  BY <1>1, <1>2, PTL DEF BlakeSpec

\* The first word does not wait for the last two mixes.
LEMMA HeadHasFirst ==
  ASSUME NEW p, NEW w
  PROVE  HeadOf(Rounds(p, w, 6), w)[1] = Rounds(p, w, 7)[1]
         /\ HeadOf(Rounds(p, w, 6), w)[9] = Rounds(p, w, 7)[9]
<1>1. PICK o, p0, h : o = Schedule0[7] /\ p0 = Rounds(p, w, 6) /\ h = HeadOf(Rounds(p, w, 6), w)
  OBVIOUS
<1>2. Rounds(p, w, 7) = KMix(KMix(h, w, o, 6), w, o, 8)
  <2>1. PRound(p0, w, o) = KMix(KMix(KMix(Five(p0, w, o), w, o, 7), w, o, 6), w, o, 8)
    BY RoundInParts
  <2>2. h = KMix(Five(p0, w, o), w, o, 7)
    BY <1>1 DEF HeadOf
  <2>3. Rounds(p, w, 6 + 1) = PRound(p0, w, Schedule0[6 + 1])
    BY <1>1, RoundsAre
  <2>4. 6 + 1 = 7
    OBVIOUS
  <2> QED
    BY <1>1, <2>1, <2>2, <2>3, <2>4
<1>3. ASSUME NEW q, NEW i \in {1, 9}, NEW k \in {6, 8} PROVE KMix(q, w, o, k)[i] = q[i]
  <2>1. /\ Mixes[6] = <<1, 6, 11, 12>> /\ Mixes[8] = <<3, 4, 9, 14>>
    BY DEF Mixes
  <2>2. i # Mixes[k][1] + 1 /\ i # Mixes[k][2] + 1 /\ i # Mixes[k][3] + 1 /\ i # Mixes[k][4] + 1
    BY <2>1
  <2>3. PICK a, b, c, d : a = Mixes[k][1] /\ b = Mixes[k][2] /\ c = Mixes[k][3] /\ d = Mixes[k][4]
    OBVIOUS
  <2>4. PICK x, y : x = w[o[2 * k - 1] + 1] /\ y = w[o[2 * k] + 1]
    OBVIOUS
  <2>5. KMix(q, w, o, k) = PMix(q, a, b, c, d, x, y)
    BY <2>3, <2>4, Zenon DEF KMix
  <2>6. i # a + 1 /\ i # b + 1 /\ i # c + 1 /\ i # d + 1 /\ i \in 1..16
    BY <2>2, <2>3
  <2> QED
    BY <2>5, <2>6 DEF PMix
<1> QED
  BY <1>1, <1>2, <1>3

\* ... so for every header and nonce the words of the GPU are those of the CPU: the
\* first one already when alpha_hash92_head returns, all eight after the tail.
THEOREM WordsAgree == BlakeSpec => []WordPathIsBytePath
<1>1. BlakeInv => WordPathIsBytePath
  <2> SUFFICES ASSUME BlakeInv
               PROVE  WordPathIsBytePath
    OBVIOUS
  <2>1. PICK val : Parts(val)
    BY DEF BlakeInv
  <2> DEFINE p == Second(nonce)
             w == Block1(nonce)
             all == Rounds(p, w, 7)
             SameWord(i) == LET term == <<"xor", dev.v[i], dev.v[i + 8]>>
                            IN \E k \in DOMAIN nodes : nodes[k] = term /\ k = hashes[i]
  <2>2. Means(nodes, val) /\ DevPart(nodes, val, dev, nonce) /\ HashPart(nodes, val, hashes, nonce)
    BY <2>1 DEF Parts
  <2>3. ASSUME NEW x, Reads(nodes, val, dev.v, 16, x), dev # Idle, NEW i \in 1..8,
               x[i] = all[i], x[i + 8] = all[i + 8]
        PROVE  SameWord(i)
    <3> HIDE DEF all, p, w
    <3>1. Reads(nodes, val, hashes, 8, FoldOf(all))
      BY <2>2, <2>3 DEF HashPart, HashOf, all, p, w, BlakeInv, Order
    <3>2. PICK h \in 1..Len(nodes) : h = hashes[i] /\ val[h] = FoldOf(all)[i]
      BY <3>1 DEF Reads
    <3>3. i \in 1..16 /\ i + 8 \in 1..16
      OBVIOUS
    <3>4. PICK a \in 1..Len(nodes), b \in 1..Len(nodes) :
            a = dev.v[i] /\ b = dev.v[i + 8] /\ val[a] = all[i] /\ val[b] = all[i + 8]
      BY <2>3, <3>3 DEF Reads
    <3>5. PICK D : D = 1..Len(nodes)
      OBVIOUS
    <3>6. PICK t : t = <<"xor", a, b>>
      OBVIOUS
    <3>7. t \in Term(D)
      BY <3>5, <3>6, XorKind DEF Term
    <3>8. Mean(val, t) = <<"xor", val[a], val[b]>>
      BY <3>6, XorKind
    <3>9. FoldOf(all)[i] = <<"xor", all[i], all[i + 8]>>
      BY DEF FoldOf
    <3>10. nodes[h] \in Term(D) /\ val[h] = Mean(val, nodes[h]) /\ Different(val, D)
      BY <2>2, <3>5 DEF Means
    <3>11. Mean(val, t) = Mean(val, nodes[h])
      BY <3>2, <3>4, <3>8, <3>9, <3>10
    <3>12. t = nodes[h]
      BY <3>7, <3>10, <3>11, TermsDiffer
    <3>13. h \in DOMAIN nodes
      BY <2>2 DEF Means
    <3> QED
      BY <3>2, <3>4, <3>6, <3>12, <3>13
  <2>4. ASSUME dev.at = "block 1" /\ dev.round = 7 PROVE SameWord(1)
    <3>1. dev # Idle
      BY <2>4, IdleAt
    <3>2. Reads(nodes, val, dev.v, 16, HeadOf(Rounds(p, w, 6), w))
      <4>1. dev.at # "block 0" /\ dev.at # "done"
        BY <2>4
      <4>2. dev.round \notin 0..6
        <5>1. 7 \notin 0..6
          OBVIOUS
        <5> QED
          BY <2>4, <5>1, Zenon
      <4> QED
        BY <2>2, <3>1, <4>1, <4>2, Zenon DEF DevPart
    <3>3. HeadOf(Rounds(p, w, 6), w)[1] = all[1] /\ HeadOf(Rounds(p, w, 6), w)[1 + 8] = all[1 + 8]
      BY HeadHasFirst
    <3> HIDE DEF SameWord, all
    <3> QED
      BY <2>3, <3>1, <3>2, <3>3
  <2>5. ASSUME dev.at = "done", NEW i \in 1..8 PROVE SameWord(i)
    <3>1. dev # Idle
      BY <2>5, IdleAt
    <3>2. Reads(nodes, val, dev.v, 16, all)
      BY <2>2, <2>5, <3>1 DEF DevPart
    <3> HIDE DEF SameWord, all
    <3> QED
      BY <2>3, <3>1, <3>2
  <2> QED
    BY <2>4, <2>5 DEF WordPathIsBytePath
<1> QED
  BY <1>1, WordPathInvariance, PTL

-----------------------------------------------------------------------------
(* AlphaBlake3: the comparison of a hash with a target.                    *)

Digit == 0..WordRadix - 1

\* v goes through the values of the digits of s, the most significant first.
Values(v, s, n) == v[0] = 0 /\ \A i \in 0..n - 1 : v[i + 1] = v[i] * WordRadix + s[i + 1]

\* The value of a word.
LEMMA WordValue ==
  ASSUME NEW n \in Nat, NEW q \in [1..n -> Digit]
  PROVE  \E f \in [0..n -> Int] : Values(f, q, n) /\ alpha_bswap32(q) = f[n]
<1> DEFINE k == [p \in (1..n) \X Int |-> p[2] * WordRadix + q[p[1]]]
<1>1. \A i \in 1..n : \A v \in Int :
        k[<<i, v>>] = v * WordRadix + q[i] /\ v * WordRadix + q[i] \in Int
  <2> SUFFICES ASSUME NEW i \in 1..n, NEW v \in Int
               PROVE  k[<<i, v>>] = v * WordRadix + q[i] /\ v * WordRadix + q[i] \in Int
    OBVIOUS
  <2>1. <<i, v>> \in (1..n) \X Int /\ <<i, v>>[1] = i /\ <<i, v>>[2] = v
    OBVIOUS
  <2>2. k[<<i, v>>] = v * WordRadix + q[i]
    BY <2>1, Zenon
  <2>3. v * WordRadix \in Int /\ q[i] \in Int
    BY WordsAssumption DEF Digit
  <2> QED
    BY <2>2, <2>3
<1> HIDE DEF k
<1>2. Closed(k, 1..n, Int)
  BY <1>1 DEF Closed
<1>3. PICK acc \in [SUBSET (1..n) -> Int], f \in [0..n -> Int] : FoldsInOrder(acc, f, 0, k, n)
  <2> 0 \in Int
    OBVIOUS
  <2> QED
    BY <1>2, FoldInOrder
<1>4. DOMAIN q = 1..n
  OBVIOUS
<1> DEFINE Is(x) == x = [s \in SUBSET (DOMAIN q) |->
                           IF s = {} THEN 0 ELSE x[s \ {Max(s)}] * WordRadix + q[Max(s)]]
<1>5. ASSUME NEW s \in SUBSET (1..n), s # {}
      PROVE  k[<<Max(s), acc[s \ {Max(s)}]>>] = acc[s \ {Max(s)}] * WordRadix + q[Max(s)]
  <2>1. Max(s) \in s /\ s \ {Max(s)} \in SUBSET (1..n)
    BY <1>5, MaxOf
  <2>2. Max(s) \in 1..n /\ acc[s \ {Max(s)}] \in Int
    BY <2>1
  <2> QED
    BY <1>1, <2>2
<1>6. Is(acc)
  <2>1. acc = [s \in SUBSET (1..n) |-> IF s = {} THEN 0 ELSE k[<<Max(s), acc[s \ {Max(s)}]>>]]
    BY <1>3 DEF FoldsInOrder
  <2>2. ASSUME NEW s \in SUBSET (1..n)
        PROVE  acc[s] = IF s = {} THEN 0 ELSE acc[s \ {Max(s)}] * WordRadix + q[Max(s)]
    BY <1>5, <2>1
  <2>3. acc = [s \in SUBSET (1..n) |->
               IF s = {} THEN 0 ELSE acc[s \ {Max(s)}] * WordRadix + q[Max(s)]]
    BY <2>2
  <2> QED
    BY <1>4, <2>3
<1> DEFINE x == CHOOSE x : Is(x)
<1>7. Is(x)
  <2> HIDE DEF Is
  <2> QED
    BY <1>6, Zenon
<1>8. alpha_bswap32(q) = x[DOMAIN q]
  BY Zenon DEF alpha_bswap32, FoldLeft, MapThenFoldSet
<1> HIDE DEF x
<1>9. x[1..n] = acc[1..n]
  <2>1. x[{}] = acc[{}]
    BY <1>4, <1>6, <1>7
  <2>2. \A s \in SUBSET (1..n) :
          s # {} => (x[s \ {Max(s)}] = acc[s \ {Max(s)}] => x[s] = acc[s])
    BY <1>4, <1>6, <1>7
  <2> QED
    BY <2>1, <2>2, FoldIsOne
<1>10. /\ f[0] = 0 /\ \A i \in 0..n - 1 : f[i + 1] = k[<<i + 1, f[i]>>]
       /\ acc[1..n] = f[n]
  BY <1>3 DEF FoldsInOrder
<1>11. \A i \in 0..n - 1 : f[i + 1] = f[i] * WordRadix + q[i + 1]
  <2> SUFFICES ASSUME NEW i \in 0..n - 1 PROVE f[i + 1] = f[i] * WordRadix + q[i + 1]
    OBVIOUS
  <2>1. i + 1 \in 1..n /\ i \in 0..n
    OBVIOUS
  <2>2. f[i] \in Int
    BY <2>1
  <2> QED
    BY <1>1, <1>10, <2>1, <2>2
<1>12. Values(f, q, n)
  BY <1>10, <1>11 DEF Values
<1> QED
  BY <1>4, <1>8, <1>9, <1>10, <1>12

\* The first of two sequences of length n is below the second from the first
\* place on at which they differ.
Below(s, t, n) == \E i \in 1..n : s[i] < t[i] /\ \A j \in 1..i - 1 : s[j] = t[j]
Same(s, t, n)  == \A i \in 1..n : s[i] = t[i]

\* Both, one place further.
LEMMA BelowNext ==
  ASSUME NEW n \in Nat, NEW s, NEW t
  PROVE  /\ Below(s, t, n + 1) <=> Below(s, t, n) \/ (Same(s, t, n) /\ s[n + 1] < t[n + 1])
         /\ Same(s, t, n + 1) <=> Same(s, t, n) /\ s[n + 1] = t[n + 1]
<1>1. Below(s, t, n) => Below(s, t, n + 1)
  <2> SUFFICES ASSUME NEW i \in 1..n, s[i] < t[i], \A j \in 1..i - 1 : s[j] = t[j]
               PROVE  Below(s, t, n + 1)
    BY DEF Below
  <2>1. i \in 1..n + 1
    OBVIOUS
  <2> QED
    BY <2>1 DEF Below
<1>2. Same(s, t, n) /\ s[n + 1] < t[n + 1] => Below(s, t, n + 1)
  <2>1. n + 1 \in 1..n + 1 /\ (n + 1) - 1 = n
    OBVIOUS
  <2> QED
    BY <2>1 DEF Below, Same
<1>3. Below(s, t, n + 1) => Below(s, t, n) \/ (Same(s, t, n) /\ s[n + 1] < t[n + 1])
  <2> SUFFICES ASSUME NEW i \in 1..n + 1, s[i] < t[i], \A j \in 1..i - 1 : s[j] = t[j]
               PROVE  Below(s, t, n) \/ (Same(s, t, n) /\ s[n + 1] < t[n + 1])
    BY DEF Below
  <2>1. CASE i = n + 1
    <3>1. i - 1 = n
      BY <2>1
    <3> QED
      BY <2>1, <3>1 DEF Same
  <2>2. CASE i # n + 1
    <3>1. i \in 1..n
      BY <2>2
    <3> QED
      BY <3>1 DEF Below
  <2> QED
    BY <2>1, <2>2
<1>4. Same(s, t, n + 1) => Same(s, t, n) /\ s[n + 1] = t[n + 1]
  BY DEF Same
<1>5. Same(s, t, n) /\ s[n + 1] = t[n + 1] => Same(s, t, n + 1)
  <2> SUFFICES ASSUME Same(s, t, n), s[n + 1] = t[n + 1], NEW i \in 1..n + 1 PROVE s[i] = t[i]
    BY DEF Same
  <2>1. i = n + 1 \/ i \in 1..n
    OBVIOUS
  <2> QED
    BY <2>1 DEF Same
<1> QED
  BY <1>1, <1>2, <1>3, <1>4, <1>5

\* One more digit.
LEMMA NextDigit ==
  ASSUME NEW x \in Int, NEW y \in Int, NEW a \in Digit, NEW b \in Digit
  PROVE  /\ x * WordRadix + a < y * WordRadix + b <=> x < y \/ (x = y /\ a < b)
         /\ x * WordRadix + a = y * WordRadix + b <=> x = y /\ a = b
<1>1. PICK p \in Int, q \in Int : p = x * WordRadix /\ q = y * WordRadix
  BY WordsAssumption
<1>2. a \in Int /\ b \in Int /\ 0 <= a /\ a < WordRadix /\ 0 <= b /\ b < WordRadix /\ WordRadix \in Int
  BY WordsAssumption DEF Digit
<1>3. PICK d \in Int, e \in Int : d = y - x /\ e = WordRadix * d
  BY WordsAssumption
<1>4. e = q - p
  BY <1>1, <1>3, WordsAssumption
<1>5. (d >= 1 => e >= WordRadix) /\ (d <= -1 => e <= -WordRadix) /\ (d = 0 => e = 0)
  <2>1. (d >= 1 => WordRadix * d >= WordRadix) /\ (d <= -1 => WordRadix * d <= -WordRadix)
    BY WordsAssumption, Multiple
  <2> QED
    BY <1>2, <1>3, <2>1
<1>6. (x < y <=> d >= 1) /\ (x = y <=> d = 0)
  BY <1>3
<1> QED
  BY <1>1, <1>2, <1>3, <1>4, <1>5, <1>6

\* Numbers compare like their digits, from the most significant one.
LEMMA DigitsDecide ==
  ASSUME NEW n \in Nat, NEW s \in [1..n -> Digit], NEW t \in [1..n -> Digit]
  PROVE  /\ alpha_bswap32(s) \in Int /\ alpha_bswap32(t) \in Int
         /\ alpha_bswap32(s) < alpha_bswap32(t) <=> Below(s, t, n)
         /\ alpha_bswap32(s) = alpha_bswap32(t) <=> Same(s, t, n)
<1>1. PICK f \in [0..n -> Int] : Values(f, s, n) /\ alpha_bswap32(s) = f[n]
  BY WordValue
<1>2. PICK acc \in [0..n -> Int] : Values(acc, t, n) /\ alpha_bswap32(t) = acc[n]
  BY WordValue
<1> DEFINE T == {k \in Nat : k <= n => /\ f[k] < acc[k] <=> Below(s, t, k)
                                       /\ f[k] = acc[k] <=> Same(s, t, k)}
<1>3. 0 \in T
  <2>1. f[0] = 0 /\ acc[0] = 0
    BY <1>1, <1>2 DEF Values
  <2> QED
    BY <2>1 DEF Below, Same
<1>4. \A k \in Nat : k \in T => k + 1 \in T
  <2> SUFFICES ASSUME NEW k \in Nat, k + 1 <= n,
                      f[k] < acc[k] <=> Below(s, t, k), f[k] = acc[k] <=> Same(s, t, k)
               PROVE  /\ f[k + 1] < acc[k + 1] <=> Below(s, t, k + 1)
                      /\ f[k + 1] = acc[k + 1] <=> Same(s, t, k + 1)
    OBVIOUS
  <2>1. k \in 0..n - 1 /\ k \in 0..n /\ k + 1 \in 1..n
    OBVIOUS
  <2>2. f[k + 1] = f[k] * WordRadix + s[k + 1] /\ acc[k + 1] = acc[k] * WordRadix + t[k + 1]
    BY <1>1, <1>2, <2>1 DEF Values
  <2>3. f[k] \in Int /\ acc[k] \in Int /\ s[k + 1] \in Digit /\ t[k + 1] \in Digit
    BY <2>1
  <2>4. /\ f[k + 1] < acc[k + 1] <=> f[k] < acc[k] \/ (f[k] = acc[k] /\ s[k + 1] < t[k + 1])
        /\ f[k + 1] = acc[k + 1] <=> f[k] = acc[k] /\ s[k + 1] = t[k + 1]
    BY <2>2, <2>3, NextDigit
  <2> QED
    BY <2>4, BelowNext
<1> HIDE DEF T
<1>5. \A k \in Nat : k \in T
  BY <1>3, <1>4, SetInduction, Zenon
<1>6. n \in 0..n /\ n <= n
  OBVIOUS
<1> QED
  BY <1>1, <1>2, <1>5, <1>6 DEF T

\* The places of the bytes of word k.
LEMMA Place ==
  ASSUME NEW w \in Nat \ {0}, NEW H \in Nat, NEW k \in Nat, k + 1 <= H, NEW i \in 1..w
  PROVE  k * w + i \in 1..H * w /\ k * w \in Nat
<1>1. PICK a \in Int, b \in Int, c \in Int, d \in Nat :
        a = k * w /\ b = H * w /\ d = H - (k + 1) /\ c = w * d
  OBVIOUS
<1>2. a = w * k /\ a \in Nat
  BY <1>1
<1>3. H = (k + 1) + d
  BY <1>1
<1>4. b = a + w + c /\ c \in Nat
  <2>1. H * w = ((k + 1) + d) * w
    BY <1>3
  <2>2. ((k + 1) + d) * w = k * w + w + w * d
    OBVIOUS
  <2>3. c \in Nat
    BY <1>1
  <2> QED
    BY <1>1, <2>1, <2>2, <2>3
<1> QED
  BY <1>1, <1>2, <1>4

\* c has the words of h one after the other.
Flattens(c, h, H, w) ==
  \A k \in Nat : k + 1 <= H => \A i \in 1..w : c[k * w + i] = h[k + 1][i]

\* The bytes of a hash.
LEMMA FlattenWords ==
  ASSUME NEW S, NEW w \in Nat \ {0}, NEW H \in Nat, NEW h \in [1..H -> [1..w -> S]]
  PROVE  FlattenSeq(h) \in [1..H * w -> S] /\ Flattens(FlattenSeq(h), h, H, w)
<1>1. \A i \in 1..H : h[i] \in [1..w -> S] /\ h[i] \in Seq(S)
  BY IsSeq
<1>2. h \in Seq(Seq(S)) /\ Len(h) = H
  <2>1. h \in [1..H -> Seq(S)]
    BY <1>1
  <2> QED
    BY <2>1, IsSeq
<1>3. PICK f \in [0..H -> Seq(S)] : Joins(f, h) /\ FlattenSeq(h) = f[H]
  <2>1. PICK f \in [0..Len(h) -> Seq(S)] : Joins(f, h) /\ FlattenSeq(h) = f[Len(h)]
    BY <1>2, FlattenIs
  <2> QED
    BY <1>2, <2>1
<1>4. f[0] = <<>> /\ \A i \in 0..H - 1 : f[i + 1] = f[i] \o h[i + 1]
  BY <1>2, <1>3 DEF Joins
<1> DEFINE T == {m \in Nat : m <= H => f[m] \in [1..m * w -> S] /\ Flattens(f[m], h, m, w)}
<1>5. 0 \in T
  <2>1. <<>> \in [1..0 * w -> S]
    OBVIOUS
  <2>2. Flattens(<<>>, h, 0, w)
    BY DEF Flattens
  <2> QED
    BY <1>4, <2>1, <2>2
<1>6. \A m \in Nat : m \in T => m + 1 \in T
  <2> SUFFICES ASSUME NEW m \in Nat, m + 1 <= H, f[m] \in [1..m * w -> S], Flattens(f[m], h, m, w)
               PROVE  f[m + 1] \in [1..(m + 1) * w -> S] /\ Flattens(f[m + 1], h, m + 1, w)
    <3> SUFFICES ASSUME NEW m \in Nat, m \in T PROVE m + 1 \in T
      OBVIOUS
    <3> HIDE DEF Flattens
    <3>1. m + 1 <= H => m <= H /\ m + 1 \in Nat
      OBVIOUS
    <3>2. m + 1 \in Nat
      OBVIOUS
    <3> QED
      BY <3>1, <3>2
  <2>1. m \in 0..H - 1 /\ m + 1 \in 1..H
    OBVIOUS
  <2>2. PICK l \in Nat : l = m * w
    OBVIOUS
  <2>3. (m + 1) * w = l + w
    BY <2>2
  <2>4. PICK a, b : a = f[m] /\ b = h[m + 1]
    OBVIOUS
  <2>5. a \in [1..l -> S] /\ b \in [1..w -> S]
    BY <1>1, <2>1, <2>2, <2>4
  <2>6. f[m + 1] = a \o b
    BY <1>4, <2>1, <2>4
  <2>7. a \o b \in [1..l + w -> S] /\ Holds(a \o b, 0, a, l) /\ Holds(a \o b, l, b, w)
    BY <2>5, Concat
  <2>8. Flattens(a \o b, h, m + 1, w)
    <3> SUFFICES ASSUME NEW k \in Nat, k + 1 <= m + 1, NEW i \in 1..w
                 PROVE  (a \o b)[k * w + i] = h[k + 1][i]
      BY DEF Flattens
    <3>1. CASE k = m
      <4>1. (a \o b)[l + i] = b[i]
        BY <2>7 DEF Holds
      <4> QED
        BY <2>2, <2>4, <3>1, <4>1
    <3>2. CASE k # m
      <4>1. k + 1 <= m
        BY <3>2
      <4>2. k * w + i \in 1..m * w
        BY <4>1, Place
      <4>3. PICK p \in 1..l : p = k * w + i
        BY <2>2, <4>2
      <4>4. (a \o b)[p] = a[p]
        <5>1. 0 + p = p
          OBVIOUS
        <5> QED
          BY <2>7, <5>1 DEF Holds
      <4>5. a[k * w + i] = h[k + 1][i]
        BY <2>4, <4>1 DEF Flattens
      <4> QED
        BY <4>3, <4>4, <4>5
    <3> QED
      BY <3>1, <3>2
  <2> QED
    BY <2>3, <2>6, <2>7, <2>8
<1> HIDE DEF T
<1>7. \A m \in Nat : m \in T
  BY <1>5, <1>6, SetInduction, Zenon
<1> QED
  BY <1>3, <1>7 DEF T

\* Word k of u is below, or the same as, that of v.
WordsBelow(h, v, H, w) ==
  \E k \in Nat : /\ k + 1 <= H /\ Below(h[k + 1], v[k + 1], w)
                 /\ \A j \in Nat : j < k => Same(h[j + 1], v[j + 1], w)
WordsSame(h, v, H, w) == \A k \in Nat : k + 1 <= H => Same(h[k + 1], v[k + 1], w)

\* The order of the words is that of the bytes.
LEMMA WordOrder ==
  ASSUME NEW w \in Nat \ {0}, NEW H \in Nat, NEW h, NEW v, NEW c, NEW d,
         Flattens(c, h, H, w), Flattens(d, v, H, w)
  PROVE  /\ Below(c, d, H * w) <=> WordsBelow(h, v, H, w)
         /\ Same(c, d, H * w) <=> WordsSame(h, v, H, w)
<1> PICK n \in Nat : n = H * w
  OBVIOUS
<1>1. ASSUME NEW p \in 1..n
      PROVE  \E k \in Nat, i \in 1..w : k + 1 <= H /\ p = k * w + i
  <2>1. PICK q \in Int, r \in 0..w - 1 : p - 1 = w * q + r
    <3>1. p - 1 \in Int
      OBVIOUS
    <3> QED
      BY <3>1, Division
  <2>2. q \in Nat /\ q + 1 <= H
    <3>1. PICK d0 \in Int : d0 = H - q
      OBVIOUS
    <3>2. PICK x \in Int, y \in Int : x = w * q /\ y = w * d0
      BY <3>1
    <3>3. y = n - x
      BY <3>1, <3>2
    <3>4. (q <= -1 => x <= -w) /\ (d0 >= 1 => y >= w) /\ (d0 <= -1 => y <= -w)
      BY <3>2, Multiple
    <3>5. d0 = 0 => y = 0
      BY <3>2
    <3>6. 0 <= x + r /\ x + r < n /\ r < w /\ r >= 0
      BY <2>1, <3>2
    <3>7. ~(q <= -1) /\ ~(d0 <= -1) /\ d0 # 0
      BY <3>3, <3>4, <3>5, <3>6
    <3> QED
      BY <3>1, <3>7
  <2>3. r + 1 \in 1..w /\ p = q * w + (r + 1)
    <3>1. PICK x \in Int : x = w * q /\ x = q * w
      OBVIOUS
    <3> QED
      BY <2>1, <3>1
  <2> QED
    BY <2>2, <2>3
<1>2. ASSUME NEW k \in Nat, NEW i \in 1..w, k + 1 <= H
      PROVE  /\ k * w + i \in 1..n
             /\ c[k * w + i] = h[k + 1][i] /\ d[k * w + i] = v[k + 1][i]
  BY <1>2, Place DEF Flattens
<1>3. ASSUME NEW k \in Nat, NEW i \in 1..w, NEW l \in Nat, NEW j \in 1..w
      PROVE  l * w + j < k * w + i <=> l < k \/ (l = k /\ j < i)
  <2>1. PICK e \in Int : e = k - l
    OBVIOUS
  <2>2. PICK x \in Int, y \in Int, z \in Int : x = k * w /\ y = l * w /\ z = w * e
    BY <2>1
  <2>3. z = x - y
    BY <2>1, <2>2
  <2>4. (e >= 1 => z >= w) /\ (e <= -1 => z <= -w) /\ (e = 0 => z = 0)
    BY <2>2, Multiple
  <2> QED
    BY <2>1, <2>2, <2>3, <2>4
<1>4. Below(c, d, n) => WordsBelow(h, v, H, w)
  <2> SUFFICES ASSUME NEW p \in 1..n, c[p] < d[p], \A o \in 1..p - 1 : c[o] = d[o]
               PROVE  WordsBelow(h, v, H, w)
    BY DEF Below
  <2>1. PICK k \in Nat, i \in 1..w : k + 1 <= H /\ p = k * w + i
    BY <1>1
  <2>2. h[k + 1][i] < v[k + 1][i]
    BY <1>2, <2>1
  <2>3. ASSUME NEW l \in Nat, NEW j \in 1..w, l < k \/ (l = k /\ j < i)
        PROVE  h[l + 1][j] = v[l + 1][j]
    <3>1. l + 1 <= H
      BY <2>1, <2>3
    <3>2. l * w + j < p
      BY <1>3, <2>1, <2>3
    <3>3. l * w + j \in 1..n
      BY <1>2, <3>1
    <3>4. l * w + j \in 1..p - 1
      BY <3>2, <3>3
    <3> QED
      BY <1>2, <3>1, <3>4
  <2>4. Below(h[k + 1], v[k + 1], w)
    <3>1. \A j \in 1..i - 1 : j \in 1..w /\ j < i
      OBVIOUS
    <3> QED
      BY <2>2, <2>3, <3>1 DEF Below
  <2>5. \A l \in Nat : l < k => Same(h[l + 1], v[l + 1], w)
    BY <2>3 DEF Same
  <2> QED
    BY <2>1, <2>4, <2>5 DEF WordsBelow
<1>5. WordsBelow(h, v, H, w) => Below(c, d, n)
  <2> SUFFICES ASSUME NEW k \in Nat, k + 1 <= H, Below(h[k + 1], v[k + 1], w),
                      \A l \in Nat : l < k => Same(h[l + 1], v[l + 1], w)
               PROVE  Below(c, d, n)
    BY DEF WordsBelow
  <2>1. PICK i \in 1..w : h[k + 1][i] < v[k + 1][i] /\ \A j \in 1..i - 1 : h[k + 1][j] = v[k + 1][j]
    BY DEF Below
  <2>2. PICK p \in 1..n : p = k * w + i
    BY <1>2
  <2>3. c[p] < d[p]
    BY <1>2, <2>1, <2>2
  <2>4. ASSUME NEW o \in 1..p - 1 PROVE c[o] = d[o]
    <3>1. o \in 1..n /\ o < p
      OBVIOUS
    <3>2. PICK l \in Nat, j \in 1..w : l + 1 <= H /\ o = l * w + j
      BY <1>1, <3>1
    <3>3. l < k \/ (l = k /\ j < i)
      BY <1>3, <2>2, <3>1, <3>2
    <3>4. h[l + 1][j] = v[l + 1][j]
      <4>1. CASE l < k
        BY <4>1 DEF Same
      <4>2. CASE l = k /\ j < i
        <5>1. j \in 1..i - 1
          BY <4>2
        <5> QED
          BY <2>1, <4>2, <5>1
      <4> QED
        BY <3>3, <4>1, <4>2
    <3> QED
      BY <1>2, <3>2, <3>4
  <2> QED
    BY <2>3, <2>4 DEF Below
<1>6. Same(c, d, n) => WordsSame(h, v, H, w)
  BY <1>2 DEF Same, WordsSame
<1>7. WordsSame(h, v, H, w) => Same(c, d, n)
  <2> SUFFICES ASSUME WordsSame(h, v, H, w), NEW p \in 1..n PROVE c[p] = d[p]
    BY DEF Same
  <2>1. PICK k \in Nat, i \in 1..w : k + 1 <= H /\ p = k * w + i
    BY <1>1
  <2> QED
    BY <1>2, <2>1 DEF WordsSame, Same
<1> QED
  BY <1>4, <1>5, <1>6, <1>7

TargetBytes == [1..HashWords * WordBytes -> Digit]

\* The words of a target, as bytes.
TargetWords(target) ==
  [i \in 1..HashWords |-> SubSeq(target, (i - 1) * WordBytes + 1, i * WordBytes)]

\* alpha_target_words_from_be_bytes reads the words of the target.
LEMMA TargetWordsAre ==
  ASSUME NEW target \in TargetBytes
  PROVE  /\ TargetWords(target) \in [1..HashWords -> [1..WordBytes -> Digit]]
         /\ Flattens(target, TargetWords(target), HashWords, WordBytes)
         /\ alpha_target_words_from_be_bytes(target)
              = [i \in 1..HashWords |-> alpha_bswap32(TargetWords(target)[i])]
<1> DEFINE v == TargetWords(target)
<1>1. PICK H \in Nat, w \in Nat \ {0}, n \in Nat : H = HashWords /\ w = WordBytes /\ n = H * w
  BY WordsAssumption
<1>2. target \in [1..n -> Digit] /\ target \in Seq(Digit) /\ Len(target) = n
  <2>1. target \in [1..n -> Digit]
    BY <1>1 DEF TargetBytes
  <2> QED
    BY <2>1, IsSeq
<1>3. ASSUME NEW k \in Nat, k + 1 <= H
      PROVE  /\ SubSeq(target, k * w + 1, (k + 1) * w) \in [1..w -> Digit]
             /\ \A i \in 1..w : SubSeq(target, k * w + 1, (k + 1) * w)[i] = target[k * w + i]
  <2>1. PICK o \in Nat : o = k * w
    OBVIOUS
  <2>2. (k + 1) * w = o + w
    BY <2>1
  <2>3. o + w <= n
    <3>1. w \in 1..w
      OBVIOUS
    <3>2. k * w + w \in 1..H * w
      BY <1>3, <3>1, Place
    <3> QED
      BY <1>1, <2>1, <3>2
  <2>4. /\ SubSeq(target, o + 1, o + w) \in [1..w -> Digit]
        /\ \A i \in 1..w : SubSeq(target, o + 1, o + w)[i] = target[o + i]
    <3>1. PICK s \in Seq(Digit) : s = target
      BY <1>2
    <3>2. o + w <= Len(s) /\ w \in Nat
      BY <1>2, <2>3, <3>1
    <3>3. /\ SubSeq(s, o + 1, o + w) \in [1..w -> Digit]
          /\ \A i \in 1..w : SubSeq(s, o + 1, o + w)[i] = s[o + i]
      BY <3>2, SubSeqIs
    <3> QED
      BY <3>1, <3>3
  <2> QED
    BY <2>1, <2>2, <2>4
<1>4. ASSUME NEW k \in Nat, k + 1 <= H
      PROVE  v[k + 1] = SubSeq(target, k * w + 1, (k + 1) * w)
  <2>1. k + 1 \in 1..HashWords /\ (k + 1) - 1 = k
    BY <1>1, <1>4
  <2> QED
    BY <1>1, <2>1 DEF TargetWords
<1>5. v \in [1..HashWords -> [1..WordBytes -> Digit]]
  <2> SUFFICES ASSUME NEW i \in 1..HashWords
               PROVE  SubSeq(target, (i - 1) * WordBytes + 1, i * WordBytes) \in [1..WordBytes -> Digit]
    BY DEF TargetWords
  <2>1. PICK k \in Nat : i = k + 1 /\ k = i - 1
    <3>1. i - 1 \in Nat /\ i = (i - 1) + 1
      BY WordsAssumption
    <3> QED
      BY <3>1
  <2>2. k + 1 <= H
    BY <1>1, <2>1
  <2> QED
    BY <1>1, <1>3, <2>1, <2>2
<1>6. Flattens(target, v, HashWords, WordBytes)
  <2> HIDE DEF v
  <2> QED
    BY <1>1, <1>3, <1>4 DEF Flattens
<1>7. alpha_target_words_from_be_bytes(target) = [i \in 1..HashWords |-> alpha_bswap32(v[i])]
  BY DEF alpha_target_words_from_be_bytes, alpha_bswap32, TargetWords
<1> QED
  BY <1>5, <1>6, <1>7

\* The first word apart from the others.
LEMMA FirstWordApart ==
  ASSUME NEW n \in Nat \ {0}, NEW a \in [1..n -> Int], NEW t \in [1..n -> Int]
  PROVE  /\ Below(a, t, n) \/ Same(a, t, n)
              <=> \/ a[1] < t[1]
                  \/ a[1] = t[1] /\ \/ \E i \in 2..n : a[i] < t[i] /\ \A j \in 2..i - 1 : a[j] = t[j]
                                    \/ \A i \in 2..n : a[i] = t[i]
<1>0. 1 \in 1..n /\ (\A i \in 2..n : i \in 1..n) /\ \A i \in 1..n : i = 1 \/ i \in 2..n
  OBVIOUS
<1>1. a[1] < t[1] => Below(a, t, n)
  BY <1>0 DEF Below
<1>2. ASSUME a[1] = t[1], NEW i \in 2..n, a[i] < t[i], \A j \in 2..i - 1 : a[j] = t[j]
      PROVE  Below(a, t, n)
  <2>1. \A j \in 1..i - 1 : j = 1 \/ j \in 2..i - 1
    OBVIOUS
  <2> QED
    BY <1>0, <1>2, <2>1 DEF Below
<1>3. ASSUME a[1] = t[1], \A i \in 2..n : a[i] = t[i] PROVE Same(a, t, n)
  BY <1>0, <1>3 DEF Same
<1>4. ASSUME Same(a, t, n) PROVE a[1] = t[1] /\ \A i \in 2..n : a[i] = t[i]
  BY <1>0, <1>4 DEF Same
<1>5. ASSUME NEW i \in 1..n, a[i] < t[i], \A j \in 1..i - 1 : a[j] = t[j]
      PROVE  a[1] < t[1] \/ (a[1] = t[1] /\ \E k \in 2..n : a[k] < t[k] /\ \A j \in 2..k - 1 : a[j] = t[j])
  <2>1. CASE i = 1
    BY <1>5, <2>1
  <2>2. CASE i # 1
    <3>1. i \in 2..n /\ 1 \in 1..i - 1 /\ \A j \in 2..i - 1 : j \in 1..i - 1
      BY <2>2
    <3> QED
      BY <1>5, <3>1
  <2> QED
    BY <2>1, <2>2
<1>6. Below(a, t, n) => a[1] < t[1] \/ (a[1] = t[1] /\ \E k \in 2..n : a[k] < t[k] /\ \A j \in 2..k - 1 : a[j] = t[j])
  BY <1>5 DEF Below
<1> QED
  BY <1>1, <1>2, <1>3, <1>4, <1>6

\* Both comparisons of a hash with a target are the order of their bytes.
LEMMA ComparisonIsByteOrder ==
  ASSUME NEW h \in HashBytes, NEW target \in TargetBytes
  PROVE  LET t == alpha_target_words_from_be_bytes(target)
             n == HashWords * WordBytes
         IN /\ FlattenSeq(h) \in [1..n -> Digit]
            /\ alpha_hash_words_le_target(h, t)
                 <=> Below(FlattenSeq(h), target, n) \/ Same(FlattenSeq(h), target, n)
            /\ KernelTakes(h, t) <=> alpha_hash_words_le_target(h, t)
<1> DEFINE t == alpha_target_words_from_be_bytes(target)
           v == TargetWords(target)
           c == FlattenSeq(h)
           a == [i \in 1..HashWords |-> alpha_bswap32(h[i])]
<1>1. PICK H \in Nat \ {0}, w \in Nat \ {0}, n \in Nat : H = HashWords /\ w = WordBytes /\ n = HashWords * WordBytes
  BY WordsAssumption
<1>2. h \in [1..H -> [1..w -> Digit]]
  BY <1>1 DEF HashBytes, Digit
<1>3. c \in [1..H * w -> Digit] /\ Flattens(c, h, H, w)
  BY <1>2, FlattenWords
<1>4. v \in [1..H -> [1..w -> Digit]] /\ Flattens(target, v, H, w)
      /\ t = [i \in 1..H |-> alpha_bswap32(v[i])]
  BY <1>1, TargetWordsAre
<1> HIDE DEF v, t, c
<1>5. ASSUME NEW i \in 1..H
      PROVE  /\ a[i] = alpha_bswap32(h[i]) /\ a[i] \in Int /\ t[i] \in Int
             /\ a[i] < t[i] <=> Below(h[i], v[i], w)
             /\ a[i] = t[i] <=> Same(h[i], v[i], w)
  <2>1. h[i] \in [1..w -> Digit] /\ v[i] \in [1..w -> Digit]
    BY <1>2, <1>4
  <2>2. a[i] = alpha_bswap32(h[i]) /\ t[i] = alpha_bswap32(v[i])
    BY <1>1, <1>4
  <2>3. /\ alpha_bswap32(h[i]) \in Int /\ alpha_bswap32(v[i]) \in Int
        /\ alpha_bswap32(h[i]) < alpha_bswap32(v[i]) <=> Below(h[i], v[i], w)
        /\ alpha_bswap32(h[i]) = alpha_bswap32(v[i]) <=> Same(h[i], v[i], w)
    <3>1. w \in Nat
      OBVIOUS
    <3> QED
      BY <2>1, <3>1, DigitsDecide
  <2> HIDE DEF a
  <2> QED
    BY <2>2, <2>3
<1>6. a \in [1..H -> Int] /\ t \in [1..H -> Int]
  <2>1. DOMAIN t = 1..H
    BY <1>4
  <2>2. t = [i \in 1..H |-> t[i]]
    BY <1>4, <2>1
  <2> QED
    BY <1>1, <1>5, <2>2
<1>7. a[1] = alpha_bswap32(h[1]) /\ \A i \in 2..H : a[i] = alpha_bswap32(h[i])
  <2>1. 1 \in 1..H /\ \A i \in 2..H : i \in 1..H
    OBVIOUS
  <2> QED
    BY <1>5, <2>1
<1> HIDE DEF a
<1>8. WordsBelow(h, v, H, w) <=> Below(a, t, H)
  <2>1. ASSUME NEW k \in Nat, k + 1 <= H, Below(h[k + 1], v[k + 1], w),
               \A j \in Nat : j < k => Same(h[j + 1], v[j + 1], w)
        PROVE  Below(a, t, H)
    <3>1. k + 1 \in 1..H /\ a[k + 1] < t[k + 1]
      BY <1>5, <2>1
    <3>2. ASSUME NEW j \in 1..(k + 1) - 1 PROVE a[j] = t[j]
      <4>1. j - 1 \in Nat /\ j - 1 < k /\ (j - 1) + 1 = j /\ j \in 1..H
        BY <2>1
      <4>2. Same(h[j], v[j], w)
        BY <2>1, <4>1
      <4> QED
        BY <1>5, <4>1, <4>2
    <3> QED
      BY <3>1, <3>2 DEF Below
  <2>2. ASSUME NEW i \in 1..H, a[i] < t[i], \A j \in 1..i - 1 : a[j] = t[j]
        PROVE  WordsBelow(h, v, H, w)
    <3>1. PICK k \in Nat : k = i - 1 /\ k + 1 = i /\ k + 1 <= H
      <4>1. i - 1 \in Nat /\ (i - 1) + 1 = i /\ (i - 1) + 1 <= H
        OBVIOUS
      <4> QED
        BY <4>1
    <3>2. Below(h[k + 1], v[k + 1], w)
      BY <1>5, <2>2, <3>1
    <3>3. ASSUME NEW j \in Nat, j < k PROVE Same(h[j + 1], v[j + 1], w)
      <4>1. j + 1 \in 1..i - 1 /\ j + 1 \in 1..H
        BY <3>1, <3>3
      <4> QED
        BY <1>5, <2>2, <4>1
    <3> QED
      BY <3>1, <3>2, <3>3 DEF WordsBelow
  <2>3. WordsBelow(h, v, H, w) => Below(a, t, H)
    BY <2>1 DEF WordsBelow
  <2>4. Below(a, t, H) => WordsBelow(h, v, H, w)
    BY <2>2 DEF Below
  <2> QED
    BY <2>3, <2>4
<1>9. WordsSame(h, v, H, w) <=> Same(a, t, H)
  <2>1. ASSUME WordsSame(h, v, H, w), NEW i \in 1..H PROVE a[i] = t[i]
    <3>1. i - 1 \in Nat /\ (i - 1) + 1 = i /\ (i - 1) + 1 <= H
      OBVIOUS
    <3>2. Same(h[i], v[i], w)
      BY <2>1, <3>1 DEF WordsSame
    <3> QED
      BY <1>5, <3>2
  <2>2. ASSUME Same(a, t, H), NEW k \in Nat, k + 1 <= H PROVE Same(h[k + 1], v[k + 1], w)
    <3>1. k + 1 \in 1..H
      BY <2>2
    <3>2. a[k + 1] = t[k + 1]
      BY <2>2, <3>1 DEF Same
    <3> QED
      BY <1>5, <3>1, <3>2
  <2>3. WordsSame(h, v, H, w) => Same(a, t, H)
    BY <2>1 DEF Same
  <2>4. Same(a, t, H) => WordsSame(h, v, H, w)
    BY <2>2 DEF WordsSame
  <2> QED
    BY <2>3, <2>4
<1>10. (Below(c, target, n) <=> Below(a, t, H)) /\ (Same(c, target, n) <=> Same(a, t, H))
  <2>1. /\ Below(c, target, H * w) <=> WordsBelow(h, v, H, w)
        /\ Same(c, target, H * w) <=> WordsSame(h, v, H, w)
    <3>1. H \in Nat
      OBVIOUS
    <3> QED
      BY <1>3, <1>4, <3>1, WordOrder
  <2> QED
    BY <1>1, <1>8, <1>9, <2>1
<1>11. Below(a, t, H) \/ Same(a, t, H)
         <=> \/ a[1] < t[1]
             \/ a[1] = t[1] /\ \/ \E i \in 2..H : a[i] < t[i] /\ \A j \in 2..i - 1 : a[j] = t[j]
                               \/ \A i \in 2..H : a[i] = t[i]
  BY <1>6, FirstWordApart
<1>12. alpha_words_le_target_tail(h, t)
         <=> \/ \E i \in 2..H : a[i] < t[i] /\ \A j \in 2..i - 1 : a[j] = t[j]
             \/ \A i \in 2..H : a[i] = t[i]
  <2>1. \A i \in 2..H : \A j \in 2..i - 1 : j \in 2..H
    OBVIOUS
  <2>2. \A i \in 2..H : (\A j \in 2..i - 1 : a[j] = t[j])
                          <=> \A j \in 2..i - 1 : alpha_bswap32(h[j]) = t[j]
    BY <1>7, <2>1
  <2> QED
    BY <1>1, <1>7, <2>2 DEF alpha_words_le_target_tail
<1>13. a[1] \in Int /\ t[1] \in Int
  <2>1. 1 \in 1..H
    OBVIOUS
  <2> QED
    BY <1>5, <2>1
<1>14. a[1] <= t[1] <=> a[1] < t[1] \/ a[1] = t[1]
  BY <1>13
<1>15. ~(a[1] < t[1] /\ a[1] = t[1])
  BY <1>13
<1>16. /\ alpha_hash_words_le_target(h, t) <=> a[1] < t[1] \/ (a[1] <= t[1] /\ alpha_words_le_target_tail(h, t))
       /\ KernelTakes(h, t) <=> a[1] <= t[1] /\ (a[1] < t[1] \/ alpha_words_le_target_tail(h, t))
  BY <1>7, Zenon DEF alpha_hash_words_le_target, KernelTakes
<1>17. alpha_hash_words_le_target(h, t) <=> Below(c, target, n) \/ Same(c, target, n)
  BY <1>10, <1>11, <1>12, <1>14, <1>16, Zenon
<1>18. KernelTakes(h, t) <=> alpha_hash_words_le_target(h, t)
  BY <1>14, <1>16, Zenon
<1>19. c \in [1..n -> Digit]
  BY <1>1, <1>3
<1> QED
  BY <1>1, <1>17, <1>18, <1>19 DEF t, c

\* The last verdict is of a hash and a target, by both comparisons.
VerdictInv ==
  \/ verdict = NoVerdict
  \/ \E h \in HashBytes, target \in TargetBytes :
       LET t == alpha_target_words_from_be_bytes(target)
       IN verdict = [hash |-> h, target |-> target,
                     full |-> alpha_hash_words_le_target(h, t), kernel |-> KernelTakes(h, t)]

\* A verdict is the result of both comparisons of the hash and the words of the
\* target (alpha_hash_words_le_target, and head and tail in the kernel).
THEOREM VerdictInvariance == BlakeSpec => []VerdictInv
<1>1. BlakeInit => VerdictInv
  BY DEF BlakeInit, VerdictInv
<1>2. VerdictInv /\ [BlakeNext]_blakeVars => VerdictInv'
  <2> SUFFICES ASSUME VerdictInv, [BlakeNext]_blakeVars PROVE VerdictInv'
    OBVIOUS
  <2>1. CASE UNCHANGED verdict
    BY <2>1 DEF VerdictInv
  <2>2. CASE \E h \in HashBytes, target \in [1..HashWords * WordBytes -> 0..WordRadix - 1] : Judge(h, target)
    BY <2>2, Zenon DEF Judge, VerdictInv, TargetBytes, Digit
  <2>3. CASE Judged
    BY <2>3 DEF Judged, VerdictInv
  <2>4. BlakeNext => \/ UNCHANGED verdict \/ Judged
                     \/ \E h \in HashBytes, target \in [1..HashWords * WordBytes -> 0..WordRadix - 1] : Judge(h, target)
    BY Zenon DEF BlakeNext, BuildJob, RefStart, RefRound, RefSecondBlock, RefEnd, DevStart,
       DevRound0, DevSecondBlock, DevRound1, DevTail, NextNonce
  <2>5. UNCHANGED blakeVars => UNCHANGED verdict
    BY DEF blakeVars
  <2> QED
    BY <2>1, <2>2, <2>3, <2>4, <2>5
<1> QED
  BY <1>1, <1>2, PTL DEF BlakeSpec

\* For words of any size and hashes of any length: the host and the kernel take
\* a hash exactly when its bytes, most significant first, are not above those
\* of the target, although both compare words, and the kernel the first apart.
THEOREM VerdictsByByteOrder == BlakeSpec => []VerdictIsByteOrder
<1>1. VerdictInv => VerdictIsByteOrder
  <2> SUFFICES ASSUME VerdictInv, verdict.target # <<>>
               PROVE  LET bytes == FlattenSeq(verdict.hash)
                          below == \E i \in DOMAIN bytes :
                                     bytes[i] < verdict.target[i]
                                       /\ \A j \in 1..i - 1 : bytes[j] = verdict.target[j]
                      IN /\ verdict.full <=> (below \/ bytes = verdict.target)
                         /\ verdict.kernel <=> verdict.full
    BY DEF VerdictIsByteOrder
  <2>1. verdict # NoVerdict
    BY DEF NoVerdict
  <2>2. PICK h \in HashBytes, target \in TargetBytes :
          LET t == alpha_target_words_from_be_bytes(target)
          IN verdict = [hash |-> h, target |-> target,
                        full |-> alpha_hash_words_le_target(h, t), kernel |-> KernelTakes(h, t)]
    BY <2>1 DEF VerdictInv
  <2> DEFINE t == alpha_target_words_from_be_bytes(target)
  <2>3. /\ verdict.hash = h /\ verdict.target = target
        /\ verdict.full = alpha_hash_words_le_target(h, t) /\ verdict.kernel = KernelTakes(h, t)
    BY <2>2
  <2>4. PICK n \in Nat : n = HashWords * WordBytes
    BY WordsAssumption
  <2> PICK c : c = FlattenSeq(h)
    OBVIOUS
  <2>5. /\ c \in [1..n -> Digit]
        /\ alpha_hash_words_le_target(h, t) <=> Below(c, target, n) \/ Same(c, target, n)
        /\ KernelTakes(h, t) <=> alpha_hash_words_le_target(h, t)
    BY <2>4, ComparisonIsByteOrder
  <2>6. target \in [1..n -> Digit]
    BY <2>4 DEF TargetBytes
  <2>7. Same(c, target, n) <=> c = target
    BY <2>5, <2>6 DEF Same
  <2>8. Below(c, target, n) <=> \E i \in DOMAIN c : c[i] < target[i] /\ \A j \in 1..i - 1 : c[j] = target[j]
    BY <2>5 DEF Below
  <2> HIDE DEF t
  <2> QED
    BY <2>3, <2>4, <2>5, <2>7, <2>8, Zenon
<1> QED
  BY VerdictInvariance, <1>1, PTL

-----------------------------------------------------------------------------
(* The context.                                                            *)

USE GpuAssumption

\* A context nobody has touched satisfies the invariant.
LEMMA InitIInv == Init => IInv
<1> SUFFICES ASSUME Init PROVE IInv
  OBVIOUS
<1>1. Flags
  <2>1. cpc \in [Callers -> CallerPcs]
    BY DEF Init, CallerPcs
  <2>2. /\ ready \in BOOLEAN /\ allocated \in BOOLEAN /\ lost \in BOOLEAN
        /\ misused \in BOOLEAN /\ overlapped \in BOOLEAN
        /\ holder \in Callers \cup {None} /\ spc \in MinerPcs
        /\ outcome \in Outcomes
    BY Zenon DEF Init, MinerPcs, Outcomes
  <2> QED
    BY <2>1, <2>2 DEF Flags
<1>2. Numbers
  BY DEF Init, Numbers, Gens
<1>3. LockInv /\ ContextInv /\ SeedInv /\ ChainInv
  BY DEF Init, LockInv, ContextInv, SeedInv, ChainInv, Writing
<1> QED
  BY <1>1, <1>2, <1>3 DEF IInv, TypeOK

\* Every step keeps the flags, the lock holder and the places in their types.
LEMMA FlagsStep == IInv /\ [Next]_vars => Flags'
<1> SUFFICES ASSUME IInv, [Next]_vars PROVE Flags'
  OBVIOUS
<1>0. Flags /\ Numbers /\ LockInv /\ ContextInv /\ SeedInv /\ ChainInv
  BY DEF IInv, TypeOK
<1>1. ASSUME NEW c \in Callers, Bump(c) PROVE Flags'
  BY <1>0, <1>1 DEF Flags, CallerPcs, MinerPcs, Outcomes, Bump, LockFree,
     word, caller, history
<1>2. ASSUME NEW c \in Callers, NotReady(c) PROVE Flags'
  BY <1>0, <1>2 DEF Flags, CallerPcs, MinerPcs, Outcomes, NotReady, Unlock,
     word, caller, history
<1>3. ASSUME NEW c \in Callers, SetDeviceFails(c) PROVE Flags'
  BY <1>0, <1>3 DEF Flags, CallerPcs, MinerPcs, Outcomes, SetDeviceFails,
     Unlock, word, caller, history
<1>4. ASSUME NEW c \in Callers, Ready(c) PROVE Flags'
  BY <1>0, <1>4 DEF Flags, CallerPcs, MinerPcs, Outcomes, Ready, word,
     caller, history
<1>5. ASSUME NEW c \in Callers, Stage(c) PROVE Flags'
  BY <1>0, <1>5 DEF Flags, CallerPcs, MinerPcs, Outcomes, Stage, word,
     caller, history
<1>6. ASSUME NEW c \in Callers, Push(c) PROVE Flags'
  BY <1>0, <1>6 DEF Flags, CallerPcs, MinerPcs, Outcomes, Push, Unlock,
     word, caller, history
<1>7. CASE Copy
  BY <1>0, <1>7 DEF Flags, CallerPcs, MinerPcs, Outcomes, Copy, word,
     caller, history
<1>8. CASE Reuse
  BY <1>0, <1>8 DEF Flags, CallerPcs, MinerPcs, Outcomes, Reuse, word,
     caller, history
<1>9. CASE Allocate
  BY <1>0, <1>9 DEF Flags, CallerPcs, MinerPcs, Outcomes, Allocate, word,
     caller, history
<1>10. CASE ReadGen
  BY <1>0, <1>10 DEF Flags, CallerPcs, MinerPcs, Outcomes, ReadGen, word,
     caller, history
<1>11. CASE Seed
  BY <1>0, <1>11 DEF Flags, CallerPcs, MinerPcs, Outcomes, Seed, word,
     caller, history
<1>12. CASE Publish
  BY <1>0, <1>12 DEF Flags, CallerPcs, MinerPcs, Outcomes, Publish, word,
     caller, history
<1>13. CASE Load
  BY <1>0, <1>13 DEF Flags, CallerPcs, MinerPcs, Outcomes, Load, word,
     caller, history
<1>14. ASSUME NEW o \in {"full", "found", "drained"}, BatchEnds(o)
      PROVE  Flags'
  BY <1>0, <1>14 DEF Flags, CallerPcs, MinerPcs, Outcomes, BatchEnds, word,
     caller, history
<1>15. CASE GpuError
  BY <1>0, <1>15 DEF Flags, CallerPcs, MinerPcs, Outcomes, GpuError, word,
     caller, history
<1>16. CASE Free
  BY <1>0, <1>16 DEF Flags, CallerPcs, MinerPcs, Outcomes, Free, word,
     caller, history
<1>17. CASE Forget
  BY <1>0, <1>17 DEF Flags, CallerPcs, MinerPcs, Outcomes, Forget, word,
     caller, history
<1>18. CASE UNCHANGED vars
  BY <1>0, <1>18 DEF Flags, CallerPcs, MinerPcs, Outcomes, vars, word,
     caller, history
<1> QED
  BY <1>1, <1>2, <1>3, <1>4, <1>5, <1>6, <1>7, <1>8, <1>9, <1>10, <1>11,
     <1>12, <1>13, <1>14, <1>15, <1>16, <1>17, <1>18
     DEF Next, InCancel, Miner

\* Every step keeps each generation a number no larger than g_job_gen.
LEMMA NumbersStep == IInv /\ [Next]_vars => Numbers'
<1> SUFFICES ASSUME IInv, [Next]_vars PROVE Numbers'
  OBVIOUS
<1>0. Flags /\ Numbers /\ LockInv /\ ContextInv /\ SeedInv /\ ChainInv
  BY DEF IInv, TypeOK
<1>1. ASSUME NEW c \in Callers, Bump(c) PROVE Numbers'
  BY <1>0, <1>1 DEF Flags, Numbers, Gens, LockInv, Bump, LockFree, word,
     caller, history
<1>2. ASSUME NEW c \in Callers, NotReady(c) PROVE Numbers'
  BY <1>0, <1>2 DEF Flags, Numbers, Gens, LockInv, NotReady, Unlock, word,
     caller, history
<1>3. ASSUME NEW c \in Callers, SetDeviceFails(c) PROVE Numbers'
  BY <1>0, <1>3 DEF Flags, Numbers, Gens, LockInv, SetDeviceFails, Unlock,
     word, caller, history
<1>4. ASSUME NEW c \in Callers, Ready(c) PROVE Numbers'
  BY <1>0, <1>4 DEF Flags, Numbers, Gens, LockInv, Ready, word, caller,
     history
<1>5. ASSUME NEW c \in Callers, Stage(c) PROVE Numbers'
  BY <1>0, <1>5 DEF Flags, Numbers, Gens, LockInv, Stage, word, caller,
     history
<1>6. ASSUME NEW c \in Callers, Push(c) PROVE Numbers'
  BY <1>0, <1>6 DEF Flags, Numbers, Gens, LockInv, Push, Unlock, word,
     caller, history
<1>7. CASE Copy
  BY <1>0, <1>7 DEF Flags, Numbers, Gens, LockInv, Copy, word, caller,
     history
<1>8. CASE Reuse
  BY <1>0, <1>8 DEF Flags, Numbers, Gens, LockInv, Reuse, word, caller,
     history
<1>9. CASE Allocate
  BY <1>0, <1>9 DEF Flags, Numbers, Gens, LockInv, Allocate, word, caller,
     history
<1>10. CASE ReadGen
  BY <1>0, <1>10 DEF Flags, Numbers, Gens, LockInv, ReadGen, word, caller,
     history
<1>11. CASE Seed
  BY <1>0, <1>11 DEF Flags, Numbers, Gens, LockInv, Seed, word, caller,
     history
<1>12. CASE Publish
  BY <1>0, <1>12 DEF Flags, Numbers, Gens, LockInv, Publish, word, caller,
     history
<1>13. CASE Load
  BY <1>0, <1>13 DEF Flags, Numbers, Gens, LockInv, Load, word, caller,
     history
<1>14. ASSUME NEW o \in {"full", "found", "drained"}, BatchEnds(o)
      PROVE  Numbers'
  BY <1>0, <1>14 DEF Flags, Numbers, Gens, LockInv, BatchEnds, word,
     caller, history
<1>15. CASE GpuError
  BY <1>0, <1>15 DEF Flags, Numbers, Gens, LockInv, GpuError, word, caller,
     history
<1>16. CASE Free
  BY <1>0, <1>16 DEF Flags, Numbers, Gens, LockInv, Free, word, caller,
     history
<1>17. CASE Forget
  BY <1>0, <1>17 DEF Flags, Numbers, Gens, LockInv, Forget, word, caller,
     history
<1>18. CASE UNCHANGED vars
  BY <1>0, <1>18 DEF Flags, Numbers, Gens, LockInv, vars, word, caller,
     history
<1> QED
  BY <1>1, <1>2, <1>3, <1>4, <1>5, <1>6, <1>7, <1>8, <1>9, <1>10, <1>11,
     <1>12, <1>13, <1>14, <1>15, <1>16, <1>17, <1>18
     DEF Next, InCancel, Miner

\* Every step keeps the cancel path to the one caller that holds the lock.
LEMMA LockStep == IInv /\ [Next]_vars => LockInv'
<1> SUFFICES ASSUME IInv, [Next]_vars PROVE LockInv'
  OBVIOUS
<1>0. Flags /\ Numbers /\ LockInv /\ ContextInv /\ SeedInv /\ ChainInv
  BY DEF IInv, TypeOK
<1>1. ASSUME NEW c \in Callers, Bump(c) PROVE LockInv'
  BY <1>0, <1>1 DEF Flags, Numbers, Gens, LockInv, CallerPcs, Bump,
     LockFree, word, caller, history
<1>2. ASSUME NEW c \in Callers, NotReady(c) PROVE LockInv'
  BY <1>0, <1>2 DEF Flags, Numbers, Gens, LockInv, CallerPcs, NotReady,
     Unlock, word, caller, history
<1>3. ASSUME NEW c \in Callers, SetDeviceFails(c) PROVE LockInv'
  BY <1>0, <1>3 DEF Flags, Numbers, Gens, LockInv, CallerPcs,
     SetDeviceFails, Unlock, word, caller, history
<1>4. ASSUME NEW c \in Callers, Ready(c) PROVE LockInv'
  BY <1>0, <1>4 DEF Flags, Numbers, Gens, LockInv, CallerPcs, Ready, word,
     caller, history
<1>5. ASSUME NEW c \in Callers, Stage(c) PROVE LockInv'
  BY <1>0, <1>5 DEF Flags, Numbers, Gens, LockInv, CallerPcs, Stage, word,
     caller, history
<1>6. ASSUME NEW c \in Callers, Push(c) PROVE LockInv'
  BY <1>0, <1>6 DEF Flags, Numbers, Gens, LockInv, CallerPcs, Push, Unlock,
     word, caller, history
<1>7. CASE Copy
  BY <1>0, <1>7 DEF Flags, Numbers, Gens, LockInv, CallerPcs, Copy, word,
     caller, history
<1>8. CASE Reuse
  BY <1>0, <1>8 DEF Flags, Numbers, Gens, LockInv, CallerPcs, Reuse, word,
     caller, history
<1>9. CASE Allocate
  BY <1>0, <1>9 DEF Flags, Numbers, Gens, LockInv, CallerPcs, Allocate,
     word, caller, history
<1>10. CASE ReadGen
  BY <1>0, <1>10 DEF Flags, Numbers, Gens, LockInv, CallerPcs, ReadGen,
     word, caller, history
<1>11. CASE Seed
  BY <1>0, <1>11 DEF Flags, Numbers, Gens, LockInv, CallerPcs, Seed, word,
     caller, history
<1>12. CASE Publish
  BY <1>0, <1>12 DEF Flags, Numbers, Gens, LockInv, CallerPcs, Publish,
     word, caller, history
<1>13. CASE Load
  BY <1>0, <1>13 DEF Flags, Numbers, Gens, LockInv, CallerPcs, Load, word,
     caller, history
<1>14. ASSUME NEW o \in {"full", "found", "drained"}, BatchEnds(o)
      PROVE  LockInv'
  BY <1>0, <1>14 DEF Flags, Numbers, Gens, LockInv, CallerPcs, BatchEnds,
     word, caller, history
<1>15. CASE GpuError
  BY <1>0, <1>15 DEF Flags, Numbers, Gens, LockInv, CallerPcs, GpuError,
     word, caller, history
<1>16. CASE Free
  BY <1>0, <1>16 DEF Flags, Numbers, Gens, LockInv, CallerPcs, Free, word,
     caller, history
<1>17. CASE Forget
  BY <1>0, <1>17 DEF Flags, Numbers, Gens, LockInv, CallerPcs, Forget,
     word, caller, history
<1>18. CASE UNCHANGED vars
  BY <1>0, <1>18 DEF Flags, Numbers, Gens, LockInv, CallerPcs, vars, word,
     caller, history
<1> QED
  BY <1>1, <1>2, <1>3, <1>4, <1>5, <1>6, <1>7, <1>8, <1>9, <1>10, <1>11,
     <1>12, <1>13, <1>14, <1>15, <1>16, <1>17, <1>18
     DEF Next, InCancel, Miner

\* Every step keeps the mining thread's place in step with the context.
LEMMA ContextStep == IInv /\ [Next]_vars => ContextInv'
<1> SUFFICES ASSUME IInv, [Next]_vars PROVE ContextInv'
  OBVIOUS
<1>0. Flags /\ Numbers /\ LockInv /\ ContextInv /\ SeedInv /\ ChainInv
  BY DEF IInv, TypeOK
<1>1. ASSUME NEW c \in Callers, Bump(c) PROVE ContextInv'
  BY <1>0, <1>1 DEF Flags, Numbers, LockInv, ContextInv, Clean, Writing,
     CallerPcs, MinerPcs, Bump, LockFree, word, caller, history
<1>2. ASSUME NEW c \in Callers, NotReady(c) PROVE ContextInv'
  BY <1>0, <1>2 DEF Flags, Numbers, LockInv, ContextInv, Clean, Writing,
     CallerPcs, MinerPcs, NotReady, Unlock, word, caller, history
<1>3. ASSUME NEW c \in Callers, SetDeviceFails(c) PROVE ContextInv'
  BY <1>0, <1>3 DEF Flags, Numbers, LockInv, ContextInv, Clean, Writing,
     CallerPcs, MinerPcs, SetDeviceFails, Unlock, word, caller, history
<1>4. ASSUME NEW c \in Callers, Ready(c) PROVE ContextInv'
  BY <1>0, <1>4 DEF Flags, Numbers, LockInv, ContextInv, Clean, Writing,
     CallerPcs, MinerPcs, Ready, word, caller, history
<1>5. ASSUME NEW c \in Callers, Stage(c) PROVE ContextInv'
  BY <1>0, <1>5 DEF Flags, Numbers, LockInv, ContextInv, Clean, Writing,
     CallerPcs, MinerPcs, Stage, word, caller, history
<1>6. ASSUME NEW c \in Callers, Push(c) PROVE ContextInv'
  BY <1>0, <1>6 DEF Flags, Numbers, LockInv, ContextInv, Clean, Writing,
     CallerPcs, MinerPcs, Push, Unlock, word, caller, history
<1>7. CASE Copy
  BY <1>0, <1>7 DEF Flags, Numbers, LockInv, ContextInv, Clean, Writing,
     CallerPcs, MinerPcs, Copy, word, caller, history
<1>8. CASE Reuse
  BY <1>0, <1>8 DEF Flags, Numbers, LockInv, ContextInv, Clean, Writing,
     CallerPcs, MinerPcs, Reuse, word, caller, history
<1>9. CASE Allocate
  BY <1>0, <1>9 DEF Flags, Numbers, LockInv, ContextInv, Clean, Writing,
     CallerPcs, MinerPcs, Allocate, word, caller, history
<1>10. CASE ReadGen
  BY <1>0, <1>10 DEF Flags, Numbers, LockInv, ContextInv, Clean, Writing,
     CallerPcs, MinerPcs, ReadGen, word, caller, history
<1>11. CASE Seed
  BY <1>0, <1>11 DEF Flags, Numbers, LockInv, ContextInv, Clean, Writing,
     CallerPcs, MinerPcs, Seed, word, caller, history
<1>12. CASE Publish
  BY <1>0, <1>12 DEF Flags, Numbers, LockInv, ContextInv, Clean, Writing,
     CallerPcs, MinerPcs, Publish, word, caller, history
<1>13. CASE Load
  BY <1>0, <1>13 DEF Flags, Numbers, LockInv, ContextInv, Clean, Writing,
     CallerPcs, MinerPcs, Load, word, caller, history
<1>14. ASSUME NEW o \in {"full", "found", "drained"}, BatchEnds(o)
      PROVE  ContextInv'
  BY <1>0, <1>14 DEF Flags, Numbers, LockInv, ContextInv, Clean, Writing,
     CallerPcs, MinerPcs, BatchEnds, word, caller, history
<1>15. CASE GpuError
  BY <1>0, <1>15 DEF Flags, Numbers, LockInv, ContextInv, Clean, Writing,
     CallerPcs, MinerPcs, GpuError, word, caller, history
<1>16. CASE Free
  BY <1>0, <1>16 DEF Flags, Numbers, LockInv, ContextInv, Clean, Writing,
     CallerPcs, MinerPcs, Free, word, caller, history
<1>17. CASE Forget
  BY <1>0, <1>17 DEF Flags, Numbers, LockInv, ContextInv, Clean, Writing,
     CallerPcs, MinerPcs, Forget, word, caller, history
<1>18. CASE UNCHANGED vars
  BY <1>0, <1>18 DEF Flags, Numbers, LockInv, ContextInv, Clean, Writing,
     CallerPcs, MinerPcs, vars, word, caller, history
<1> QED
  BY <1>1, <1>2, <1>3, <1>4, <1>5, <1>6, <1>7, <1>8, <1>9, <1>10, <1>11,
     <1>12, <1>13, <1>14, <1>15, <1>16, <1>17, <1>18
     DEF Next, InCancel, Miner

\* While the context is used as meant, every step keeps the number read for
\* the seed the newest one, or one behind with its cancel still to come.
LEMMA SeedStep == IInv /\ [Next]_vars => SeedInv'
<1> SUFFICES ASSUME IInv, [Next]_vars PROVE SeedInv'
  OBVIOUS
<1>0. Flags /\ Numbers /\ LockInv /\ ContextInv /\ SeedInv /\ ChainInv
  BY DEF IInv, TypeOK
<1>1. ASSUME NEW c \in Callers, Bump(c) PROVE SeedInv'
  BY <1>0, <1>1 DEF Flags, Numbers, Gens, LockInv, ContextInv, SeedInv,
     Clean, Writing, CallerPcs, Bump, LockFree, word, caller, history
<1>2. ASSUME NEW c \in Callers, NotReady(c) PROVE SeedInv'
  BY <1>0, <1>2 DEF Flags, Numbers, Gens, LockInv, ContextInv, SeedInv,
     Clean, Writing, CallerPcs, NotReady, Unlock, word, caller, history
<1>3. ASSUME NEW c \in Callers, SetDeviceFails(c) PROVE SeedInv'
  BY <1>0, <1>3 DEF Flags, Numbers, Gens, LockInv, ContextInv, SeedInv,
     Clean, Writing, CallerPcs, SetDeviceFails, Unlock, word, caller,
     history
<1>4. ASSUME NEW c \in Callers, Ready(c) PROVE SeedInv'
  BY <1>0, <1>4 DEF Flags, Numbers, Gens, LockInv, ContextInv, SeedInv,
     Clean, Writing, CallerPcs, Ready, word, caller, history
<1>5. ASSUME NEW c \in Callers, Stage(c) PROVE SeedInv'
  BY <1>0, <1>5 DEF Flags, Numbers, Gens, LockInv, ContextInv, SeedInv,
     Clean, Writing, CallerPcs, Stage, word, caller, history
<1>6. ASSUME NEW c \in Callers, Push(c) PROVE SeedInv'
  BY <1>0, <1>6 DEF Flags, Numbers, Gens, LockInv, ContextInv, SeedInv,
     Clean, Writing, CallerPcs, Push, Unlock, word, caller, history
<1>7. CASE Copy
  BY <1>0, <1>7 DEF Flags, Numbers, Gens, LockInv, ContextInv, SeedInv,
     Clean, Writing, CallerPcs, Copy, word, caller, history
<1>8. CASE Reuse
  BY <1>0, <1>8 DEF Flags, Numbers, Gens, LockInv, ContextInv, SeedInv,
     Clean, Writing, CallerPcs, Reuse, word, caller, history
<1>9. CASE Allocate
  BY <1>0, <1>9 DEF Flags, Numbers, Gens, LockInv, ContextInv, SeedInv,
     Clean, Writing, CallerPcs, Allocate, word, caller, history
<1>10. CASE ReadGen
  BY <1>0, <1>10 DEF Flags, Numbers, Gens, LockInv, ContextInv, SeedInv,
     Clean, Writing, CallerPcs, ReadGen, word, caller, history
<1>11. CASE Seed
  BY <1>0, <1>11 DEF Flags, Numbers, Gens, LockInv, ContextInv, SeedInv,
     Clean, Writing, CallerPcs, Seed, word, caller, history
<1>12. CASE Publish
  BY <1>0, <1>12 DEF Flags, Numbers, Gens, LockInv, ContextInv, SeedInv,
     Clean, Writing, CallerPcs, Publish, word, caller, history
<1>13. CASE Load
  BY <1>0, <1>13 DEF Flags, Numbers, Gens, LockInv, ContextInv, SeedInv,
     Clean, Writing, CallerPcs, Load, word, caller, history
<1>14. ASSUME NEW o \in {"full", "found", "drained"}, BatchEnds(o)
      PROVE  SeedInv'
  BY <1>0, <1>14 DEF Flags, Numbers, Gens, LockInv, ContextInv, SeedInv,
     Clean, Writing, CallerPcs, BatchEnds, word, caller, history
<1>15. CASE GpuError
  BY <1>0, <1>15 DEF Flags, Numbers, Gens, LockInv, ContextInv, SeedInv,
     Clean, Writing, CallerPcs, GpuError, word, caller, history
<1>16. CASE Free
  BY <1>0, <1>16 DEF Flags, Numbers, Gens, LockInv, ContextInv, SeedInv,
     Clean, Writing, CallerPcs, Free, word, caller, history
<1>17. CASE Forget
  BY <1>0, <1>17 DEF Flags, Numbers, Gens, LockInv, ContextInv, SeedInv,
     Clean, Writing, CallerPcs, Forget, word, caller, history
<1>18. CASE UNCHANGED vars
  BY <1>0, <1>18 DEF Flags, Numbers, Gens, LockInv, ContextInv, SeedInv,
     Clean, Writing, CallerPcs, vars, word, caller, history
<1> QED
  BY <1>1, <1>2, <1>3, <1>4, <1>5, <1>6, <1>7, <1>8, <1>9, <1>10, <1>11,
     <1>12, <1>13, <1>14, <1>15, <1>16, <1>17, <1>18
     DEF Next, InCancel, Miner

\* Every step keeps the newest number on its way to the device.
LEMMA ChainStep == IInv /\ [Next]_vars => ChainInv'
<1> SUFFICES ASSUME IInv, [Next]_vars PROVE ChainInv'
  OBVIOUS
<1>0. Flags /\ Numbers /\ LockInv /\ ContextInv /\ SeedInv /\ ChainInv
  BY DEF IInv, TypeOK
<1>1. ASSUME NEW c \in Callers, Bump(c) PROVE ChainInv'
  BY <1>0, <1>1 DEF Flags, Numbers, Gens, LockInv, ContextInv, SeedInv,
     ChainInv, Clean, Writing, CallerPcs, Bump, LockFree, word, caller,
     history
<1>2. ASSUME NEW c \in Callers, NotReady(c) PROVE ChainInv'
  BY <1>0, <1>2 DEF Flags, Numbers, Gens, LockInv, ContextInv, SeedInv,
     ChainInv, Clean, Writing, CallerPcs, NotReady, Unlock, word, caller,
     history
<1>3. ASSUME NEW c \in Callers, SetDeviceFails(c) PROVE ChainInv'
  BY <1>0, <1>3 DEF Flags, Numbers, Gens, LockInv, ContextInv, SeedInv,
     ChainInv, Clean, Writing, CallerPcs, SetDeviceFails, Unlock, word,
     caller, history
<1>4. ASSUME NEW c \in Callers, Ready(c) PROVE ChainInv'
  BY <1>0, <1>4 DEF Flags, Numbers, Gens, LockInv, ContextInv, SeedInv,
     ChainInv, Clean, Writing, CallerPcs, Ready, word, caller, history
<1>5. ASSUME NEW c \in Callers, Stage(c) PROVE ChainInv'
  BY <1>0, <1>5 DEF Flags, Numbers, Gens, LockInv, ContextInv, SeedInv,
     ChainInv, Clean, Writing, CallerPcs, Stage, word, caller, history
<1>6. ASSUME NEW c \in Callers, Push(c) PROVE ChainInv'
  BY <1>0, <1>6 DEF Flags, Numbers, Gens, LockInv, ContextInv, SeedInv,
     ChainInv, Clean, Writing, CallerPcs, Push, Unlock, word, caller,
     history
<1>7. CASE Copy
  BY <1>0, <1>7 DEF Flags, Numbers, Gens, LockInv, ContextInv, SeedInv,
     ChainInv, Clean, Writing, CallerPcs, Copy, word, caller, history
<1>8. CASE Reuse
  BY <1>0, <1>8 DEF Flags, Numbers, Gens, LockInv, ContextInv, SeedInv,
     ChainInv, Clean, Writing, CallerPcs, Reuse, word, caller, history
<1>9. CASE Allocate
  BY <1>0, <1>9 DEF Flags, Numbers, Gens, LockInv, ContextInv, SeedInv,
     ChainInv, Clean, Writing, CallerPcs, Allocate, word, caller, history
<1>10. CASE ReadGen
  BY <1>0, <1>10 DEF Flags, Numbers, Gens, LockInv, ContextInv, SeedInv,
     ChainInv, Clean, Writing, CallerPcs, ReadGen, word, caller, history
<1>11. CASE Seed
  BY <1>0, <1>11 DEF Flags, Numbers, Gens, LockInv, ContextInv, SeedInv,
     ChainInv, Clean, Writing, CallerPcs, Seed, word, caller, history
<1>12. CASE Publish
  BY <1>0, <1>12 DEF Flags, Numbers, Gens, LockInv, ContextInv, SeedInv,
     ChainInv, Clean, Writing, CallerPcs, Publish, word, caller, history
<1>13. CASE Load
  BY <1>0, <1>13 DEF Flags, Numbers, Gens, LockInv, ContextInv, SeedInv,
     ChainInv, Clean, Writing, CallerPcs, Load, word, caller, history
<1>14. ASSUME NEW o \in {"full", "found", "drained"}, BatchEnds(o)
      PROVE  ChainInv'
  BY <1>0, <1>14 DEF Flags, Numbers, Gens, LockInv, ContextInv, SeedInv,
     ChainInv, Clean, Writing, CallerPcs, BatchEnds, word, caller, history
<1>15. CASE GpuError
  BY <1>0, <1>15 DEF Flags, Numbers, Gens, LockInv, ContextInv, SeedInv,
     ChainInv, Clean, Writing, CallerPcs, GpuError, word, caller, history
<1>16. CASE Free
  BY <1>0, <1>16 DEF Flags, Numbers, Gens, LockInv, ContextInv, SeedInv,
     ChainInv, Clean, Writing, CallerPcs, Free, word, caller, history
<1>17. CASE Forget
  BY <1>0, <1>17 DEF Flags, Numbers, Gens, LockInv, ContextInv, SeedInv,
     ChainInv, Clean, Writing, CallerPcs, Forget, word, caller, history
<1>18. CASE UNCHANGED vars
  BY <1>0, <1>18 DEF Flags, Numbers, Gens, LockInv, ContextInv, SeedInv,
     ChainInv, Clean, Writing, CallerPcs, vars, word, caller, history
<1> QED
  BY <1>1, <1>2, <1>3, <1>4, <1>5, <1>6, <1>7, <1>8, <1>9, <1>10, <1>11,
     <1>12, <1>13, <1>14, <1>15, <1>16, <1>17, <1>18
     DEF Next, InCancel, Miner

\* While the context is used as meant, no step takes the device copy back.
LEMMA MonotoneStep == IInv /\ [Next]_vars => (Clean => d_live_gen' >= d_live_gen)
<1> SUFFICES ASSUME IInv, [Next]_vars PROVE (Clean => d_live_gen' >= d_live_gen)
  OBVIOUS
<1>0. Flags /\ Numbers /\ LockInv /\ ContextInv /\ SeedInv /\ ChainInv
  BY DEF IInv, TypeOK
<1>1. ASSUME NEW c \in Callers, Bump(c) PROVE (Clean => d_live_gen' >= d_live_gen)
  BY <1>0, <1>1 DEF Numbers, Gens, SeedInv, ChainInv, Clean, Bump,
     LockFree, word, caller, history
<1>2. ASSUME NEW c \in Callers, NotReady(c) PROVE (Clean => d_live_gen' >= d_live_gen)
  BY <1>0, <1>2 DEF Numbers, Gens, SeedInv, ChainInv, Clean, NotReady,
     Unlock, word, caller, history
<1>3. ASSUME NEW c \in Callers, SetDeviceFails(c) PROVE (Clean => d_live_gen' >= d_live_gen)
  BY <1>0, <1>3 DEF Numbers, Gens, SeedInv, ChainInv, Clean,
     SetDeviceFails, Unlock, word, caller, history
<1>4. ASSUME NEW c \in Callers, Ready(c) PROVE (Clean => d_live_gen' >= d_live_gen)
  BY <1>0, <1>4 DEF Numbers, Gens, SeedInv, ChainInv, Clean, Ready, word,
     caller, history
<1>5. ASSUME NEW c \in Callers, Stage(c) PROVE (Clean => d_live_gen' >= d_live_gen)
  BY <1>0, <1>5 DEF Numbers, Gens, SeedInv, ChainInv, Clean, Stage, word,
     caller, history
<1>6. ASSUME NEW c \in Callers, Push(c) PROVE (Clean => d_live_gen' >= d_live_gen)
  BY <1>0, <1>6 DEF Numbers, Gens, SeedInv, ChainInv, Clean, Push, Unlock,
     word, caller, history
<1>7. CASE Copy
  BY <1>0, <1>7 DEF Numbers, Gens, SeedInv, ChainInv, Clean, Copy, word,
     caller, history
<1>8. CASE Reuse
  BY <1>0, <1>8 DEF Numbers, Gens, SeedInv, ChainInv, Clean, Reuse, word,
     caller, history
<1>9. CASE Allocate
  BY <1>0, <1>9 DEF Numbers, Gens, SeedInv, ChainInv, Clean, Allocate,
     word, caller, history
<1>10. CASE ReadGen
  BY <1>0, <1>10 DEF Numbers, Gens, SeedInv, ChainInv, Clean, ReadGen,
     word, caller, history
<1>11. CASE Seed
  BY <1>0, <1>11 DEF Numbers, Gens, SeedInv, ChainInv, Clean, Seed, word,
     caller, history
<1>12. CASE Publish
  BY <1>0, <1>12 DEF Numbers, Gens, SeedInv, ChainInv, Clean, Publish,
     word, caller, history
<1>13. CASE Load
  BY <1>0, <1>13 DEF Numbers, Gens, SeedInv, ChainInv, Clean, Load, word,
     caller, history
<1>14. ASSUME NEW o \in {"full", "found", "drained"}, BatchEnds(o)
      PROVE  (Clean => d_live_gen' >= d_live_gen)
  BY <1>0, <1>14 DEF Numbers, Gens, SeedInv, ChainInv, Clean, BatchEnds,
     word, caller, history
<1>15. CASE GpuError
  BY <1>0, <1>15 DEF Numbers, Gens, SeedInv, ChainInv, Clean, GpuError,
     word, caller, history
<1>16. CASE Free
  BY <1>0, <1>16 DEF Numbers, Gens, SeedInv, ChainInv, Clean, Free, word,
     caller, history
<1>17. CASE Forget
  BY <1>0, <1>17 DEF Numbers, Gens, SeedInv, ChainInv, Clean, Forget, word,
     caller, history
<1>18. CASE UNCHANGED vars
  BY <1>0, <1>18 DEF Numbers, Gens, SeedInv, ChainInv, Clean, vars, word,
     caller, history
<1> QED
  BY <1>1, <1>2, <1>3, <1>4, <1>5, <1>6, <1>7, <1>8, <1>9, <1>10, <1>11,
     <1>12, <1>13, <1>14, <1>15, <1>16, <1>17, <1>18
     DEF Next, InCancel, Miner

-----------------------------------------------------------------------------
(* The theorems.                                                           *)

\* Every behaviour keeps the inductive invariant, whatever fails.
THEOREM Invariance == SafetySpec => []IInv
<1>1. IInv /\ [Next]_vars => IInv'
  BY FlagsStep, NumbersStep, LockStep, ContextStep, SeedStep, ChainStep
     DEF IInv, TypeOK
<1> QED
  BY InitIInv, <1>1, PTL DEF SafetySpec

\* Types: no generation that was not given out is ever seen anywhere.
THEOREM TypeCorrectness == SafetySpec => []TypeOK
<1>1. IInv => TypeOK
  BY DEF IInv
<1> QED
  BY Invariance, <1>1, PTL

\* After the last cancel has gone through, the device agrees with the host.
THEOREM DeviceInSync == SafetySpec => []InSync
<1>1. IInv => InSync
  <2> SUFFICES ASSUME IInv, Quiet, ready, allocated, ~lost, Clean
               PROVE  d_live_gen = g_job_gen
    BY DEF InSync
  <2>1. spc # "forget"
    BY DEF IInv, ContextInv
  <2> QED
    BY <2>1 DEF IInv, ChainInv, Quiet
<1> QED
  BY Invariance, <1>1, PTL

\* The device copy of the generation never goes back.
THEOREM DeviceMonotone == SafetySpec => LiveGenMonotone
<1>1. IInv /\ [Next]_vars => [Clean => d_live_gen' >= d_live_gen]_vars
  BY MonotoneStep
<1> QED
  BY Invariance, <1>1, PTL DEF SafetySpec, LiveGenMonotone

=============================================================================
