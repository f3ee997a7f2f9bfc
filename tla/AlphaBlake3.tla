---------------------------- MODULE AlphaBlake3 ----------------------------
(***************************************************************************)
(* The hash of the Alphanumeric engine, computed twice: byte by byte on    *)
(* the CPU (alphanumeric_ref_hash.hpp) and as words on the GPU             *)
(* (alphanumeric_blake3_core.cuh), where six of the first eight mixes are  *)
(* done once per job, the message schedule is written out by hand and the  *)
(* last two mixes wait until the first word of the hash is good enough.    *)
(*                                                                         *)
(* The arithmetic is symbolic.  A byte of a header is a number that stands *)
(* for it; what is computed is a node of a graph that says which operation *)
(* was applied to which nodes.  Two paths that end in the same node agree  *)
(* for every header, not just for the ones somebody has tried.             *)
(***************************************************************************)
EXTENDS Integers, Sequences, SequencesExt

CONSTANTS
  Nonces,     \* names of the nonces a lane hashes in turn, in 0..9
  WordRadix,      \* values of a byte in the comparison with the target, 256 in the code
  WordBytes,  \* bytes of a word there, 4 in the code
  HashWords   \* words of a hash there, 8 in the code

ASSUME WordsAssumption ==
  WordRadix \in Nat \ {0} /\ WordBytes \in Nat \ {0} /\ HashWords \in Nat \ {0}
ASSUME NoncesAssumption == Nonces \subseteq Nat

VARIABLES
  nodes,    \* the graph: a node is the position of what it is computed from
  jw,       \* AlphaJobPre, and whether it was built
  ref,      \* the CPU's compression
  dev,      \* the GPU's
  nonce,    \* the nonce at hand
  hashes,   \* history: the words of its hash by the CPU, <<>> when not there yet
  verdict   \* a hash, a target and whether it meets it, twice

blakeVars == <<nodes, jw, ref, dev, nonce, hashes, verdict>>

-----------------------------------------------------------------------------
(* Bytes, words and nodes.                                                 *)

\* Byte i of a field; the numbers below 256 are bytes with that value.
block_number(i)  == 300 + i
previous_hash(i) == 400 + i
timestamp(i)     == 500 + i
difficulty(i)    == 600 + i
merkle_root(i)   == 700 + i
NonceByte(n, i)  == 800 + 10 * n + i

\* A word that was not computed is the four bytes it is loaded from.
Word(b0, b1, b2, b3) == <<"word", b0, b1, b2, b3>>
Small(x) == Word(x, 0, 0, 0)
Zero     == Small(0)

\* The node for a term, in a graph that has it.
Node(graph, term) == CHOOSE i \in DOMAIN graph : graph[i] = term

\* The graph with some terms, and their nodes.
With(graph, terms) ==
  FoldLeft(LAMBDA gr, t : IF \E i \in DOMAIN gr : gr[i] = t THEN gr ELSE Append(gr, t),
           graph, terms)
NodesOf(graph, terms) == [i \in 1..Len(terms) |-> Node(graph, terms[i])]

\* A state of sixteen words: register x takes the value of a term.
Assign(s, x, term) ==
  IF \E i \in DOMAIN s.graph : s.graph[i] = term
  THEN [s EXCEPT !.v[x + 1] = Node(s.graph, term)]
  ELSE [s EXCEPT !.graph = Append(@, term), !.v[x + 1] = Len(s.graph) + 1]

At(s, x) == s.v[x + 1]

Sum(s, x, y, m) == Assign(s, x, <<"sum", At(s, x), At(s, y), m>>)
Add(s, x, y)    == Assign(s, x, <<"add", At(s, x), At(s, y)>>)
Turn(s, x, y, n) == Assign(s, x, <<"rotr xor", At(s, x), At(s, y), n>>)

\* v[i] ^ v[i + 8] of the first eight words.
Folded(s) == [i \in 1..8 |-> <<"xor", s.v[i], s.v[i + 8]>>]

IV == << Word(103, 230, 9, 106), Word(133, 174, 103, 187), Word(114, 243, 110, 60),
         Word(58, 245, 79, 165), Word(127, 82, 14, 81), Word(140, 104, 5, 155),
         Word(171, 217, 131, 31), Word(25, 205, 224, 91) >>

-----------------------------------------------------------------------------
(* alphanumeric_ref_hash.hpp                                               *)

build_header92(n) ==
  [i \in 1..92 |->
     CASE i <= 4  -> block_number(i - 1)
       [] i \in 5..36 -> previous_hash(i - 5)
       [] i \in 37..44 -> timestamp(i - 37)
       [] i \in 45..52 -> NonceByte(n, i - 45)
       [] i \in 53..60 -> difficulty(i - 53)
       [] i \in 61..92 -> merkle_root(i - 61)]

words_from_block(block) ==
  [j \in 1..16 |-> Word(block[4 * j - 3], block[4 * j - 2], block[4 * j - 1], block[4 * j])]

g(s, a, b, c, d, mx, my) ==
  LET s1 == Sum(s, a, b, mx)
      s2 == Turn(s1, d, a, 16)
      s3 == Add(s2, c, d)
      s4 == Turn(s3, b, c, 12)
      s5 == Sum(s4, a, b, my)
      s6 == Turn(s5, d, a, 8)
      s7 == Add(s6, c, d)
  IN Turn(s7, b, c, 7)

round_fn(s, m) ==
  LET s1 == g(s, 0, 4, 8, 12, m[1], m[2])
      s2 == g(s1, 1, 5, 9, 13, m[3], m[4])
      s3 == g(s2, 2, 6, 10, 14, m[5], m[6])
      s4 == g(s3, 3, 7, 11, 15, m[7], m[8])
      s5 == g(s4, 0, 5, 10, 15, m[9], m[10])
      s6 == g(s5, 1, 6, 11, 12, m[11], m[12])
      s7 == g(s6, 2, 7, 8, 13, m[13], m[14])
  IN g(s7, 3, 4, 9, 14, m[15], m[16])

permute(m) ==
  <<m[3], m[7], m[4], m[11], m[8], m[1], m[5], m[14],
    m[2], m[12], m[13], m[6], m[10], m[15], m[16], m[9]>>

\* The state compress starts from, and the message: cv are nodes.
CompressStart(graph, cv, words, block_len, flags) ==
  LET fixed == SubSeq(IV, 1, 4) \o <<Zero, Zero, Small(block_len), Small(flags)>>
      all   == With(graph, fixed \o words)
  IN [graph |-> all, v |-> cv \o NodesOf(all, fixed), m |-> NodesOf(all, words)]

-----------------------------------------------------------------------------
(* alphanumeric_blake3_core.cuh                                            *)

alpha_iv ==
  << Word(103, 230, 9, 106), Word(133, 174, 103, 187), Word(114, 243, 110, 60),
     Word(58, 245, 79, 165), Word(127, 82, 14, 81), Word(140, 104, 5, 155),
     Word(171, 217, 131, 31), Word(25, 205, 224, 91) >>

alpha_g(s, a, b, c, d, mx, my) ==
  LET s1 == Sum(s, a, b, mx)
      s2 == Turn(s1, d, a, 16)
      s3 == Add(s2, c, d)
      s4 == Turn(s3, b, c, 12)
      s5 == Sum(s4, a, b, my)
      s6 == Turn(s5, d, a, 8)
      s7 == Add(s6, c, d)
  IN Turn(s7, b, c, 7)

\* The 23 words of the header; those of the nonce are 0.
alpha_header_words_from_fields ==
  LET Four(B(_), i) == Word(B(i), B(i + 1), B(i + 2), B(i + 3))
  IN <<Four(block_number, 0)>>
       \o [i \in 1..8 |-> Four(previous_hash, 4 * i - 4)]
       \o <<Four(timestamp, 0), Four(timestamp, 4), Zero, Zero,
            Four(difficulty, 0), Four(difficulty, 4)>>
       \o [i \in 1..8 |-> Four(merkle_root, 4 * i - 4)]

NonceLow(n)  == Word(NonceByte(n, 0), NonceByte(n, 1), NonceByte(n, 2), NonceByte(n, 3))
NonceHigh(n) == Word(NonceByte(n, 4), NonceByte(n, 5), NonceByte(n, 6), NonceByte(n, 7))

\* The message words of round r in the order of the eight mixes, as written in
\* alpha_compress0_from_pre ...
Schedule0 ==
  << <<0, 1, 2, 3, 4, 5, 6, 7, 8, 9, 10, 11, 12, 13, 14, 15>>,
     <<2, 6, 3, 10, 7, 0, 4, 13, 1, 11, 12, 5, 9, 14, 15, 8>>,
     <<3, 4, 10, 12, 13, 2, 7, 14, 6, 5, 9, 0, 11, 15, 8, 1>>,
     <<10, 7, 12, 9, 14, 3, 13, 15, 4, 0, 11, 2, 5, 8, 1, 6>>,
     <<12, 13, 9, 11, 15, 10, 14, 8, 7, 2, 5, 3, 0, 1, 6, 4>>,
     <<9, 14, 11, 5, 8, 12, 15, 1, 13, 3, 0, 10, 2, 6, 4, 7>>,
     <<11, 15, 5, 0, 1, 9, 8, 6, 14, 10, 2, 12, 3, 4, 7, 13>> >>

\* ... and in alpha_hash92_head and alpha_hash92_tail.  Mutation: two words of
\* the last round have changed places.
Schedule1Typo ==
  << <<0, 1, 2, 3, 4, 5, 6, 7, 8, 9, 10, 11, 12, 13, 14, 15>>,
     <<2, 6, 3, 10, 7, 0, 4, 13, 1, 11, 12, 5, 9, 14, 15, 8>>,
     <<3, 4, 10, 12, 13, 2, 7, 14, 6, 5, 9, 0, 11, 15, 8, 1>>,
     <<10, 7, 12, 9, 14, 3, 13, 15, 4, 0, 11, 2, 5, 8, 1, 6>>,
     <<12, 13, 9, 11, 15, 10, 14, 8, 7, 2, 5, 3, 0, 1, 6, 4>>,
     <<9, 14, 11, 5, 8, 12, 15, 1, 13, 3, 0, 10, 2, 6, 4, 7>>,
     <<11, 15, 5, 0, 1, 9, 8, 6, 14, 10, 2, 12, 4, 3, 7, 13>> >>

Schedule1 ==
  << <<0, 1, 2, 3, 4, 5, 6, 7, 8, 9, 10, 11, 12, 13, 14, 15>>,
     <<2, 6, 3, 10, 7, 0, 4, 13, 1, 11, 12, 5, 9, 14, 15, 8>>,
     <<3, 4, 10, 12, 13, 2, 7, 14, 6, 5, 9, 0, 11, 15, 8, 1>>,
     <<10, 7, 12, 9, 14, 3, 13, 15, 4, 0, 11, 2, 5, 8, 1, 6>>,
     <<12, 13, 9, 11, 15, 10, 14, 8, 7, 2, 5, 3, 0, 1, 6, 4>>,
     <<9, 14, 11, 5, 8, 12, 15, 1, 13, 3, 0, 10, 2, 6, 4, 7>>,
     <<11, 15, 5, 0, 1, 9, 8, 6, 14, 10, 2, 12, 3, 4, 7, 13>> >>

\* The registers of the eight mixes of a round.
Mixes ==
  << <<0, 4, 8, 12>>, <<1, 5, 9, 13>>, <<2, 6, 10, 14>>, <<3, 7, 11, 15>>,
     <<0, 5, 10, 15>>, <<1, 6, 11, 12>>, <<2, 7, 8, 13>>, <<3, 4, 9, 14>> >>

\* Some of the mixes of a round, in this order, over sixteen message nodes.
MixesOfRound(s, m, order, which) ==
  FoldLeft(LAMBDA st, k : alpha_g(st, Mixes[k][1], Mixes[k][2], Mixes[k][3], Mixes[k][4],
                                  m[order[2 * k - 1] + 1], m[order[2 * k] + 1]),
           s, which)

EightMixes == <<1, 2, 3, 4, 5, 6, 7, 8>>

\* alpha_m0_sel: the nonce in the place of the words 11 and 12.
M0(graph, n) == [jw.m0 EXCEPT ![12] = Node(graph, NonceLow(n)),
                              ![13] = Node(graph, NonceHigh(n))]

\* alpha_m1_sel: 0 behind the seven words of the second block.
M1 == jw.m1 \o [i \in 1..9 |-> Node(nodes, Zero)]

-----------------------------------------------------------------------------
(* The comparison with the target: a hash is a sequence of words, least    *)
(* significant byte first, a target of bytes, most significant first.      *)

\* A word of a hash, read the other way round.
alpha_bswap32(w) == FoldLeft(LAMBDA n, b : n * WordRadix + b, 0, w)

alpha_target_words_from_be_bytes(target) ==
  [i \in 1..HashWords |->
     FoldLeft(LAMBDA n, b : n * WordRadix + b, 0,
              SubSeq(target, (i - 1) * WordBytes + 1, i * WordBytes))]

\* The first word from the second on that differs decides.  Mutation: none that
\* does is taken for a hash above the target.
TailNeverEqual(h, t) ==
  \E i \in 2..HashWords : /\ alpha_bswap32(h[i]) < t[i]
                          /\ \A j \in 2..i - 1 : alpha_bswap32(h[j]) = t[j]

alpha_words_le_target_tail(h, t) ==
  \/ \E i \in 2..HashWords : /\ alpha_bswap32(h[i]) < t[i]
                             /\ \A j \in 2..i - 1 : alpha_bswap32(h[j]) = t[j]
  \/ \A i \in 2..HashWords : alpha_bswap32(h[i]) = t[i]

alpha_hash_words_le_target(h, t) ==
  LET b0 == alpha_bswap32(h[1])
  IN b0 < t[1] \/ (b0 <= t[1] /\ alpha_words_le_target_tail(h, t))

\* The kernel: most nonces are left after the first word.
KernelTakes(h, t) ==
  LET b0 == alpha_bswap32(h[1])
  IN b0 <= t[1] /\ (b0 < t[1] \/ alpha_words_le_target_tail(h, t))

-----------------------------------------------------------------------------

Idle   == [at |-> "idle", round |-> 0, v |-> <<>>, m |-> <<>>]
NoJobPre  == [m0 |-> <<>>, m1 |-> <<>>, v0 |-> <<>>]
NoVerdict == [hash |-> <<>>, target |-> <<>>, full |-> FALSE, kernel |-> FALSE]

BlakeInit ==
  /\ nodes = <<>> /\ jw = NoJobPre
  /\ ref = Idle /\ dev = Idle
  /\ nonce = 0 /\ hashes = <<>>
  /\ verdict = NoVerdict

\* A job was built.
job_built == jw.v0 # <<>>

\* alpha_build_job_pre: the words of the job, and the six mixes of round 0 that
\* the nonce does not reach.
BuildJob ==
  LET w     == alpha_header_words_from_fields
      fixed == alpha_iv \o SubSeq(alpha_iv, 1, 4) \o <<Zero, Zero, Small(64), Small(1)>>
      graph == With(nodes, w \o fixed)
      m0    == NodesOf(graph, SubSeq(w, 1, 11) \o <<Zero, Zero>> \o SubSeq(w, 14, 16))
      s     == MixesOfRound([graph |-> graph, v |-> NodesOf(graph, fixed)], m0,
                            Schedule0[1], <<1, 2, 3, 4, 5, 8>>)
  IN /\ ~job_built /\ verdict.target = <<>>
     /\ jw' = [m0 |-> m0, m1 |-> NodesOf(graph, SubSeq(w, 17, 23)), v0 |-> s.v]
     /\ nodes' = s.graph
     /\ UNCHANGED <<ref, dev, nonce, hashes, verdict>>

\* hash92_fields of a nonce: header, first block, initial chaining value.
RefStart(n) ==
  LET words == words_from_block(SubSeq(build_header92(n), 1, 64))
      graph == With(nodes, IV)
      s     == CompressStart(graph, NodesOf(graph, IV), words, 64, 1)
  IN /\ job_built /\ ref.at = "idle" /\ dev.at = "idle" /\ hashes = <<>>
     /\ nonce' = n
     /\ nodes' = s.graph
     /\ ref' = [at |-> "block 0", round |-> 0, v |-> s.v, m |-> s.m]
     /\ UNCHANGED <<jw, dev, hashes, verdict>>

\* One turn of the loop of compress.
RefRound ==
  LET s == round_fn([graph |-> nodes, v |-> ref.v], ref.m)
  IN /\ ref.at # "idle" /\ ref.round < 7
     /\ nodes' = s.graph
     /\ ref' = [ref EXCEPT !.round = @ + 1, !.v = s.v,
                           !.m = IF ref.round # 6 THEN permute(@) ELSE @]
     /\ UNCHANGED <<jw, dev, nonce, hashes, verdict>>

\* The second block: 28 bytes and zeros.
RefSecondBlock ==
  LET graph == With(nodes, Folded(ref))
      block == SubSeq(build_header92(nonce), 65, 92) \o [i \in 1..36 |-> 0]
      s     == CompressStart(graph, NodesOf(graph, Folded(ref)), words_from_block(block),
                             28, 10)
  IN /\ ref.at = "block 0" /\ ref.round = 7
     /\ nodes' = s.graph
     /\ ref' = [at |-> "block 1", round |-> 0, v |-> s.v, m |-> s.m]
     /\ UNCHANGED <<jw, dev, nonce, hashes, verdict>>

\* The hash: its words, stored as bytes.
RefEnd ==
  LET graph == With(nodes, Folded(ref))
  IN /\ ref.at = "block 1" /\ ref.round = 7
     /\ nodes' = graph
     /\ hashes' = NodesOf(graph, Folded(ref))
     /\ ref' = Idle
     /\ UNCHANGED <<jw, dev, nonce, verdict>>

\* alpha_compress0_from_pre: the rest of round 0, under this nonce.
DevStart ==
  LET graph == With(nodes, <<NonceLow(nonce), NonceHigh(nonce)>>)
      s     == MixesOfRound([graph |-> graph, v |-> jw.v0], M0(graph, nonce),
                            Schedule0[1], <<6, 7>>)
  IN /\ hashes # <<>> /\ dev.at = "idle"
     /\ nodes' = s.graph
     /\ dev' = [at |-> "block 0", round |-> 1, v |-> s.v, m |-> M0(graph, nonce)]
     /\ UNCHANGED <<jw, ref, nonce, hashes, verdict>>

\* Rounds 1 to 6 of the first block.
DevRound0 ==
  LET s == MixesOfRound([graph |-> nodes, v |-> dev.v], dev.m,
                        Schedule0[dev.round + 1], EightMixes)
  IN /\ dev.at = "block 0" /\ dev.round < 7
     /\ nodes' = s.graph
     /\ dev' = [dev EXCEPT !.round = @ + 1, !.v = s.v]
     /\ UNCHANGED <<jw, ref, nonce, hashes, verdict>>

\* alpha_hash92_head sets up the second compression.
DevSecondBlock ==
  LET fixed == SubSeq(alpha_iv, 1, 4) \o <<Zero, Zero, Small(28), Small(10)>>
      graph == With(nodes, Folded(dev) \o fixed)
  IN /\ dev.at = "block 0" /\ dev.round = 7
     /\ nodes' = graph
     /\ dev' = [at |-> "block 1", round |-> 0,
                v |-> NodesOf(graph, Folded(dev) \o fixed), m |-> M1]
     /\ UNCHANGED <<jw, ref, nonce, hashes, verdict>>

\* Its rounds 0 to 5, and of round 6 the columns and the two diagonals that
\* finish the first word.
DevRound1 ==
  LET s == MixesOfRound([graph |-> nodes, v |-> dev.v], dev.m, Schedule1[dev.round + 1],
                        IF dev.round < 6 THEN EightMixes ELSE <<1, 2, 3, 4, 5, 7>>)
  IN /\ dev.at = "block 1" /\ dev.round < 7
     /\ nodes' = s.graph
     /\ dev' = [dev EXCEPT !.round = @ + 1, !.v = s.v]
     /\ UNCHANGED <<jw, ref, nonce, hashes, verdict>>

\* alpha_hash92_tail, for a candidate.
DevTail ==
  LET s == MixesOfRound([graph |-> nodes, v |-> dev.v], dev.m, Schedule1[7], <<6, 8>>)
  IN /\ dev.at = "block 1" /\ dev.round = 7
     /\ nodes' = s.graph
     /\ dev' = [dev EXCEPT !.at = "done", !.v = s.v]
     /\ UNCHANGED <<jw, ref, nonce, hashes, verdict>>

\* The lane goes on to its next nonce, after the head or after the tail.
NextNonce ==
  /\ dev.at \in {"block 1", "done"} /\ dev.round = 7
  /\ dev' = Idle /\ hashes' = <<>>
  /\ UNCHANGED <<nodes, jw, ref, nonce, verdict>>

\* A hash and a target are compared, as the host and as the kernel does it.
Judge(h, target) ==
  LET t == alpha_target_words_from_be_bytes(target)
  IN /\ verdict.target = <<>> /\ ~job_built
     /\ verdict' = [hash |-> h, target |-> target,
                    full |-> alpha_hash_words_le_target(h, t), kernel |-> KernelTakes(h, t)]
     /\ UNCHANGED <<nodes, jw, ref, dev, nonce, hashes>>

Judged ==
  /\ verdict.target # <<>>
  /\ verdict' = NoVerdict
  /\ UNCHANGED <<nodes, jw, ref, dev, nonce, hashes>>

HashBytes == [1..HashWords -> [1..WordBytes -> 0..WordRadix - 1]]

BlakeNext ==
  \/ BuildJob
  \/ \E n \in Nonces : RefStart(n)
  \/ RefRound \/ RefSecondBlock \/ RefEnd
  \/ DevStart \/ DevRound0 \/ DevSecondBlock \/ DevRound1 \/ DevTail \/ NextNonce
  \/ \E h \in HashBytes, target \in [1..HashWords * WordBytes -> 0..WordRadix - 1] :
       Judge(h, target)
  \/ Judged

BlakeSpec == BlakeInit /\ [][BlakeNext]_blakeVars

-----------------------------------------------------------------------------
(* Properties.                                                             *)

\* For every header and nonce the words of the GPU are those of the CPU: the
\* first one already when alpha_hash92_head returns, all eight after the tail.
WordPathIsBytePath ==
  LET Same(i) == LET term == <<"xor", dev.v[i], dev.v[i + 8]>>
                 IN \E k \in DOMAIN nodes : nodes[k] = term /\ k = hashes[i]
  IN /\ dev.at = "block 1" /\ dev.round = 7 => Same(1)
     /\ dev.at = "done" => \A i \in 1..8 : Same(i)

\* Comparing swapped words, the first apart from the others, is comparing the
\* bytes of the hash with those of the target from the most significant one.
VerdictIsByteOrder ==
  LET bytes == FlattenSeq(verdict.hash)
      below == \E i \in DOMAIN bytes :
                 bytes[i] < verdict.target[i]
                   /\ \A j \in 1..i - 1 : bytes[j] = verdict.target[j]
  IN verdict.target # <<>> =>
       /\ verdict.full <=> (below \/ bytes = verdict.target)
       /\ verdict.kernel <=> verdict.full

=============================================================================
