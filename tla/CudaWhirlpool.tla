--------------------------- MODULE CudaWhirlpool ---------------------------
(***************************************************************************)
(* The arithmetic of the CapStash GPU backend, byte by byte:               *)
(* cuda_whirlpool_tables.cuh, cuda_whirlpool_device.cuh and the kernels of *)
(* cuda_backend.cu, from the upload of a header to the 32 bytes a lane     *)
(* compares with the target.  Which lane takes which nonce of a batch, and *)
(* what failing calls do, is the business of WhirlpoolBackend; here one    *)
(* block is launched and every lane hashes one nonce.  DataPaths compares  *)
(* what the lanes compute with the CPU.                                    *)
(*                                                                         *)
(* Half of the second block, the first state and the key schedule are      *)
(* worked out once per job.  The miner compares the result with the CPU's  *)
(* once, and for the nonce 0 only (whirlpool.cpp:214-221).                 *)
(***************************************************************************)
EXTENDS WhirlpoolTables

CONSTANTS
  Headers,   \* headers of 80 bytes, their nonce 0
  Starts,    \* first nonces of a launch
  BlockDim   \* lanes of the block

ASSUME CudaAssumption ==
  Headers \subseteq [1..80 -> Byte] /\ Starts \subseteq Nat /\ BlockDim \in Nat \ {0}

VARIABLES
  uploaded,    \* history: the header of the last set-up
  c_midstate, c_rk, c_block1_w0, c_block1_nbits,  \* constant memory
  start_nonce, \* of the launch
  kernel,      \* "mine", "probe" or "none"
  copied,      \* lanes that have copied their share of the tables
  finished,    \* lanes that have hashed, or have nothing to hash
  computed     \* the header hashed last, with its nonce, and its hash

cudaVars == <<uploaded, c_midstate, c_rk, c_block1_w0, c_block1_nbits, start_nonce,
              kernel, copied, finished, computed>>

Lanes == 0..BlockDim - 1

-----------------------------------------------------------------------------
(* The GPU's own copy of the tables, in constant memory.                   *)

row == <<1, 1, 4, 1, 8, 5, 2, 9>>

plain_T0 == Table(plain_S, row, 0)
plain_T1 == Table(plain_S, row, 1)
plain_T2 == Table(plain_S, row, 2)
plain_T3 == Table(plain_S, row, 3)
plain_T4 == Table(plain_S, row, 4)
plain_T5 == Table(plain_S, row, 5)
plain_T6 == Table(plain_S, row, 6)
plain_T7 == Table(plain_S, row, 7)
plain_RC == RoundConstants(plain_S)

plain_T == <<plain_T0, plain_T1, plain_T2, plain_T3,
             plain_T4, plain_T5, plain_T6, plain_T7>>

\* Entries as cuda_whirlpool_tables.cuh writes them down, and the sums of all
\* that it writes down.
ASSUME CudaTablesAssumption ==
  /\ plain_T0[1] = <<35, 35, 140, 35, 5, 175, 70, 38>>
  /\ plain_T4[1] = <<5, 175, 70, 38, 35, 35, 140, 35>>
  /\ plain_T7[255] = <<134, 34, 134, 68, 164, 17, 194, 134>>
  /\ plain_RC[9] = <<202, 45, 191, 7, 173, 90, 131, 51>>
  /\ SumsAsWritten(plain_T, <<4195552, 4195552, 4184179, 4195552,
                              4177271, 4171365, 4187675, 4217437>>)
  /\ Weighted(plain_RC, 10) = <<8595, 7183, 6122, 6937, 9383, 5443, 5864, 7019>>

-----------------------------------------------------------------------------
(* cuda_whirlpool_device.cuh: the functions that work on constant memory.  *)

WROUND_ELT(in, j) == XorAll(LAMBDA k : plain_T[k + 1][in[((j - k) % 8) + 1][k + 1]])

WROUND(in, c) == Eight(LAMBDA j : XorWord(WROUND_ELT(in, j), c[j + 1]))

\* The next round key: the round constant goes into the first word.
NextKey(h, r) == WROUND(h, [ZeroWords EXCEPT ![1] = plain_RC[r]])

Words(bytes) == Eight(LAMBDA j : Eight(LAMBDA i : bytes[8 * j + i + 1]))

whirlpool_compress_cuda(block, state) ==
  LET Round == [r \in 0..9 |-> [at \in [h : Matrices, n : Matrices] |->
                 LET key == NextKey(at.h, r) IN [h |-> key, n |-> WROUND(at.n, key)]]]
      rounds == Rounds(Round, [h |-> state, n |-> XorWords(Words(block), state)])
  IN XorWords(state, XorWords(rounds[10].n, Words(block)))

\* K_1 .. K_10, ten times eight words.
whirlpool_round_keys_cuda(mid) ==
  LET keys == Rounds([r \in 0..9 |-> [h \in Matrices |-> NextKey(h, r)]], mid)
  IN [r \in 1..10 |-> keys[r]]

\* Four words, low byte first.
Bytes32(w) == [i \in 1..32 |-> w[((i - 1) \div 8) + 1][((i - 1) % 8) + 1]]

\* The whole header at once, without anything prepared.
cap_whirlpool80_cuda(header80) ==
  LET block1 == SubSeq(header80, 65, 80) \o <<128>> \o [i \in 1..45 |-> 0] \o <<2, 128>>
      state  == whirlpool_compress_cuda(block1,
                  whirlpool_compress_cuda(SubSeq(header80, 1, 64), ZeroWords))
  IN Bytes32([j \in 1..4 |-> XorWord(state[j], state[j + 4])])

-----------------------------------------------------------------------------
(* cuda_backend.cu: tables in shared memory, one share per lane.           *)

\* A word nobody has written yet; what it holds is undefined.
Unwritten == Eight(LAMBDA i : 165)

\* Entry i of the eight tables, written by the lane i = threadIdx (mod blockDim).
s_T(k, i) == IF i % BlockDim \in copied THEN plain_T[k][i] ELSE Unwritten

WELT_S(in, j) == XorAll(LAMBDA k : s_T(k + 1, in[((j - k) % 8) + 1][k + 1]))

WROUND_S(in, c) == Eight(LAMBDA j : XorWord(WELT_S(in, j), c[j + 1]))

\* (uint64) nonce << 32: the nonce behind nbits, low byte first.  Mutation: high
\* byte first, which the verified nonce 0 does not tell apart.
HighFirst(n) == <<(n \div 16777216) % 256, (n \div 65536) % 256, (n \div 256) % 256, n % 256>>
LowFirst(n) == <<n % 256, (n \div 256) % 256, (n \div 65536) % 256, (n \div 16777216) % 256>>

\* WHIRLPOOL_BLOCK1_FOLD: the second block from the midstate, under the
\* prepared keys, folded to four words.
BLOCK1_FOLD(nonce) ==
  LET block1 == [ZeroWords EXCEPT ![1] = c_block1_w0,
                                  ![2] = c_block1_nbits \o LowFirst(nonce),
                                  ![3] = <<128, 0, 0, 0, 0, 0, 0, 0>>,
                                  ![8] = <<0, 0, 0, 0, 0, 0, 2, 128>>]
      Round  == [r \in 0..9 |-> [n \in Matrices |-> WROUND_S(n, c_rk[r + 1])]]
      rounds == Rounds(Round, XorWords(block1, c_midstate))
      f == XorWords(c_midstate, XorWords(rounds[10], block1))
  IN [j \in 1..4 |-> XorWord(f[j], f[j + 4])]

-----------------------------------------------------------------------------

\* build_header80: the nonce in the last four bytes.
write_le32(n) == <<n % 256, (n \div 256) % 256, (n \div 65536) % 256, (n \div 16777216) % 256>>
WithNonce(header80, nonce) == SubSeq(header80, 1, 76) \o write_le32(nonce)

NoHeader == <<>>

CudaInit ==
  /\ uploaded = NoHeader
  /\ c_midstate = ZeroWords /\ c_rk = <<>>
  /\ c_block1_w0 = ZeroWord /\ c_block1_nbits = <<0, 0, 0, 0>>
  /\ start_nonce = 0 /\ kernel = "none" /\ copied = {} /\ finished = {}
  /\ computed = [header |-> NoHeader, hash |-> <<>>]

\* cuda_setup_job, with the kernels for the midstate and the round keys.
SetupJob(header80) ==
  LET mid == whirlpool_compress_cuda(SubSeq(header80, 1, 64), ZeroWords)
  IN /\ kernel = "none"
     /\ uploaded' = header80
     /\ c_midstate' = mid
     /\ c_rk' = whirlpool_round_keys_cuda(mid)
     /\ c_block1_w0' = SubSeq(header80, 65, 72)
     /\ c_block1_nbits' = SubSeq(header80, 73, 76)
     /\ UNCHANGED <<start_nonce, kernel, copied, finished, computed>>

\* cuda_mine_batch or cuda_hash_one_nonce; shared memory is not initialized.
LaunchKernel(which, nonce) ==
  /\ kernel = "none" /\ uploaded # NoHeader
  /\ kernel' = which /\ start_nonce' = nonce
  /\ copied' = {} /\ finished' = {}
  /\ UNCHANGED <<uploaded, c_midstate, c_rk, c_block1_w0, c_block1_nbits, computed>>

\* A lane copies every BlockDim-th entry of each table and waits at the barrier.
LoadTables(lane) ==
  /\ kernel # "none" /\ lane \notin copied
  /\ copied' = copied \cup {lane}
  /\ UNCHANGED <<uploaded, c_midstate, c_rk, c_block1_w0, c_block1_nbits, start_nonce,
                 kernel, finished, computed>>

\* Behind __syncthreads.  In the probe kernel only lane 0 hashes.
HashLane(lane) ==
  LET nonce == start_nonce + lane
  IN /\ kernel # "none" /\ copied = Lanes /\ lane \notin finished
     /\ computed' = IF kernel = "probe" /\ lane # 0 THEN computed
                    ELSE [header |-> WithNonce(uploaded, nonce),
                          hash |-> Bytes32(BLOCK1_FOLD(nonce))]
     /\ finished' = finished \cup {lane}
     /\ UNCHANGED <<uploaded, c_midstate, c_rk, c_block1_w0, c_block1_nbits, start_nonce,
                    kernel, copied>>

\* cudaDeviceSynchronize.
KernelEnds ==
  /\ kernel # "none" /\ finished = Lanes
  /\ kernel' = "none"
  /\ UNCHANGED <<uploaded, c_midstate, c_rk, c_block1_w0, c_block1_nbits, start_nonce,
                 copied, finished, computed>>

\* cuda_hash_once, which leaves constant memory alone.
HashOnce(header80) ==
  /\ kernel = "none"
  /\ computed' = [header |-> header80, hash |-> cap_whirlpool80_cuda(header80)]
  /\ UNCHANGED <<uploaded, c_midstate, c_rk, c_block1_w0, c_block1_nbits, start_nonce,
                 kernel, copied, finished>>

CudaNext ==
  \/ \E h \in Headers : SetupJob(h) \/ HashOnce(h)
  \/ \E which \in {"mine", "probe"}, n \in Starts : LaunchKernel(which, n)
  \/ \E lane \in Lanes : LoadTables(lane) \/ HashLane(lane)
  \/ KernelEnds

CudaSpec == CudaInit /\ [][CudaNext]_cudaVars

=============================================================================
