---------------------------- MODULE CapStashPow ----------------------------
(***************************************************************************)
(* The pure functions of the CapStash proof of work: text to bytes         *)
(* (capstash_job.cpp), coinbase, merkle root, header and network target    *)
(* (capstash_pow.cpp), share target (whirlpool.cpp) and the comparison of  *)
(* hashes with targets (capstash_pow.cpp, share_validator.cpp).            *)
(*                                                                         *)
(* A hex string is a sequence of digits below Hex, most significant first, *)
(* a byte a number below Byte; both are scaled down, every index and every *)
(* order of the code is kept.  Hashes, roots and targets have N bytes,     *)
(* least significant first, so that a header has 2 N + 16.                 *)
(***************************************************************************)
EXTENDS Integers, Sequences, SequencesExt, Powers

CONSTANTS
  Hex,              \* 16 in the code
  N,                \* bytes of a hash, 32 in the code
  double_sha256(_)  \* any function from bytes to N bytes

ASSUME PowAssumption ==
  /\ Hex \in Nat \ {0, 1}
  /\ N \in Nat /\ N % 4 = 0 /\ N >= 8

Byte == Hex * Hex

-----------------------------------------------------------------------------
(* Text and integers.                                                      *)

\* Refused by an exception when the length is odd.
hex_to_bytes(h) == [i \in 1..Len(h) \div 2 |-> Hex * h[2 * i - 1] + h[2 * i]]

parse_hex_u32(h) == FoldLeft(LAMBDA v, d : Hex * v + d, 0, h)

write_le32(x) == [i \in 1..4 |-> (x \div Power(Byte, i - 1)) % Byte]

\* The number a sequence of bytes stands for, least significant first.
FromLE(b) ==
  LET v[i \in 1..Len(b) + 1] == IF i > Len(b) THEN 0 ELSE b[i] + Byte * v[i + 1]
  IN v[1]

\* "%0*x": as many digits as the number has, and at least width.
HexText(x, width) ==
  LET digits == CHOOSE n \in 1..8 : x < Power(Hex, n) /\ (n = 1 \/ x >= Power(Hex, n - 1))
      len    == IF digits > width THEN digits ELSE width
  IN [i \in 1..len |-> (x \div Power(Hex, len - i)) % Hex]

-----------------------------------------------------------------------------
(* The job.                                                                *)

\* The nine parameters of a mining.notify line, by position.
parse_notify(params) ==
  [job_id |-> params[1], prevhash |-> params[2], coinb1 |-> params[3],
   coinb2 |-> params[4], merkle_branch |-> params[5], version |-> params[6],
   nbits |-> params[7], ntime |-> params[8], clean_jobs |-> params[9]]

-----------------------------------------------------------------------------
(* Coinbase, merkle root, header.                                          *)

format_extranonce2(extranonce2, size) ==
  HexText(extranonce2, 2 * (CASE size < 1 -> 4 [] size > 8 -> 8
                              [] OTHER -> size))

build_coinbase_hex(job, en1, en2, size) ==
  job.coinb1 \o en1 \o format_extranonce2(en2, size) \o job.coinb2

build_merkle_root(job, en1, en2, size) ==
  FoldLeft(LAMBDA root, branch : double_sha256(root \o hex_to_bytes(branch)),
           double_sha256(hex_to_bytes(build_coinbase_hex(job, en1, en2, size))),
           job.merkle_branch)

\* The bytes inside each word of four trade places, the words do not.
SwapInWords(b) == [i \in 1..Len(b) |-> b[4 * ((i - 1) \div 4) + 4 - ((i - 1) % 4)]]

\* Mutation: prevhash goes into the header as the pool has sent it.
HeaderUnswapped(job, merkle_root, nonce) ==
  write_le32(parse_hex_u32(job.version)) \o hex_to_bytes(job.prevhash)
    \o merkle_root \o write_le32(parse_hex_u32(job.ntime))
    \o write_le32(parse_hex_u32(job.nbits)) \o write_le32(nonce)

build_header80(job, merkle_root, nonce) ==
  write_le32(parse_hex_u32(job.version))
    \o SwapInWords(hex_to_bytes(job.prevhash)) \o merkle_root
    \o write_le32(parse_hex_u32(job.ntime))
    \o write_le32(parse_hex_u32(job.nbits)) \o write_le32(nonce)

-----------------------------------------------------------------------------
(* Targets.  A difficulty is given in halves.                              *)

\* The difficulty 1 target: two full bytes, four zero bytes above them.
Diff1 == [i \in 1..N |-> IF i \in {N - 5, N - 4} THEN Byte - 1 ELSE 0]

\* Mutation: the difficulty is cut off instead of rounded up.
DivisorCutOff(difficulty) ==
  IF difficulty < 2 THEN 1 ELSE difficulty \div 2

Divisor(difficulty) ==
  IF difficulty <= 0 THEN 1 ELSE (difficulty + 1) \div 2

\* Schoolbook division, from the most significant byte down.
make_share_target(difficulty) ==
  LET div == Divisor(difficulty)
      rem[i \in 1..N + 1] ==
        IF i = N + 1 THEN 0 ELSE (rem[i + 1] * Byte + Diff1[i]) % div
  IN [i \in 1..N |-> ((rem[i + 1] * Byte + Diff1[i]) \div div) % Byte]

\* Mutation: the exponent is taken for the offset of the byte above.
NetworkTargetShifted(nbits) ==
  LET mant  == (nbits % Power(Byte, 3)) % (Power(Byte, 3) \div 2)
      shift == nbits \div Power(Byte, 3) - 2
  IN [i \in 1..N |-> IF i - 1 - shift \in 0..2
                     THEN (mant \div Power(Byte, i - 1 - shift)) % Byte ELSE 0]

\* The sign bit of the mantissa is masked off; its bytes land at shift and
\* the two above, those outside of the target are dropped.
network_target_from_nbits_le(nbits) ==
  LET mant  == (nbits % Power(Byte, 3)) % (Power(Byte, 3) \div 2)
      shift == nbits \div Power(Byte, 3) - 3
  IN [i \in 1..N |-> IF i - 1 - shift \in 0..2
                     THEN (mant \div Power(Byte, i - 1 - shift)) % Byte ELSE 0]

\* The most significant byte in which the two differ decides.
hash_leq_target_le(h, t) ==
  h = t \/ \E i \in 1..N : /\ h[i] < t[i]
                           /\ \A j \in i + 1..N : h[j] = t[j]

\* The target is a string, most significant byte first.
hash_meets_target_le(hash, target_hex_be) ==
  /\ Len(target_hex_be) = 2 * N
  /\ LET target_be == hex_to_bytes(target_hex_be)
         Agree(i)  == hash[N + 1 - i] = target_be[i]
     IN \/ \A i \in 1..N : Agree(i)
        \/ \E i \in 1..N : /\ hash[N + 1 - i] < target_be[i]
                           /\ \A j \in 1..i - 1 : Agree(j)

=============================================================================
