-------------------------- MODULE WhirlpoolBackend --------------------------
(***************************************************************************)
(* The Whirlpool GPU backend of src/cuda_backend.cu as run_stratum uses    *)
(* it: cuda_setup_job puts a job's constants on the device in ten calls    *)
(* whose errors are printed and otherwise ignored, cuda_hash_one_nonce     *)
(* verifies the first of them, cuda_mine_batch launches whirlpool_mine_ms  *)
(* and reads its result back.                                              *)
(*                                                                         *)
(* The hash is a random function: two messages hash alike only if they are *)
(* equal, and what a message hashes to is chosen when a thread hashes it.  *)
(* A midstate is the block it is computed from, a key schedule the         *)
(* midstate it is computed from.  CapStashMiner has this backend succeed   *)
(* or fail, and abstracts the constants to what they were computed from.   *)
(***************************************************************************)
EXTENDS CapStashPow, FiniteSets

CONSTANTS
  Works,        \* what is set up: the pool's block template, en1, en2,
                \* en2_size, difficulty
  HashValues,   \* the values a hash may have
  Batches,      \* first nonce, number of nonces, --threads of a batch
  Warp,         \* 32 in the code
  MaxThreads,   \* CAPMINER_CUDA_THREADS
  Saturation,   \* sm_count * blocks per SM
  PollEvery,    \* loop entries between two polls (512 in the code)
  MaxCount,     \* bound: nonces in a batch
  MaxSetups,    \* bound: calls of cuda_setup_job
  MaxBatches,   \* bound: calls of cuda_mine_batch
  MaxFaults     \* bound: CUDA calls that fail without losing the device

\* double_sha256 returns N bytes, said of the roots there are.
ASSUME BackendAssumption ==
  /\ Works # {}
  /\ \A w \in Works :
       /\ w.difficulty \in Int
       /\ w.pool.display \in [1..N -> 0..Byte - 1]
       /\ \A f \in {w.pool.version, w.pool.nbits, w.pool.ntime} : f \in [1..8 -> 0..Hex - 1]
       /\ build_merkle_root(w.pool, w.en1, w.en2, w.en2_size) \in [1..N -> 0..Byte - 1]
  /\ \A v \in HashValues : v \in [1..N -> 0..Byte - 1]
  /\ Warp \in Nat \ {0} /\ MaxThreads \in Nat /\ MaxThreads >= Warp
  /\ Saturation \in Nat \ {0} /\ PollEvery \in Nat \ {0}
  /\ MaxCount \in Nat \ {0}
  /\ \A b \in Batches : /\ b.start \in 0..Power(Byte, 4) - b.count
                         /\ b.count \in 1..MaxCount /\ b.threads \in Int

VARIABLES
  pc,               \* where the mining thread is
  work, target,     \* what was set up last
  lost,             \* the device is gone: every call fails
  have_job,
  d_hdr, d_mid, d_rk,                               \* device buffers
  c_midstate, c_rk, c_block1_w0, c_block1_nbits, c_target_w,
  start_nonce, count, threads,                      \* the batch
  found, found_nonce, found_hash,                   \* its result block
  tpc, idx, poll, val,                              \* its threads
  result, block, hashes,                            \* CudaResult, MinerStats
  \* history
  setup_ok, batch_ok,   \* no call of the last set-up, of the batch failed
  hashed,               \* how often the batch hashed start_nonce + i
  overlooked,           \* the batch passed over a hash that meets the target
  setups, batches, faults

constants == <<c_midstate, c_rk, c_block1_w0, c_block1_nbits, c_target_w>>
device    == <<lost, have_job, d_hdr, d_mid, d_rk, constants>>
batch     == <<start_nonce, count, threads>>
block_    == <<found, found_nonce, found_hash>>
kernel    == <<tpc, idx, poll, val>>
answer    == <<result, block, hashes>>
bounds    == <<setups, batches, faults>>
vars == <<pc, work, target, device, batch, block_, kernel, answer, setup_ok,
          batch_ok, hashed, overlooked, bounds>>

Nonces == 0..Power(Byte, 4) - 1
Zeros  == [i \in 1..N |-> 0]

\* The text of a sequence of bytes.
HexOf(b) == [i \in 1..2 * Len(b) |-> IF i % 2 = 1 THEN b[(i + 1) \div 2] \div Hex
                                     ELSE b[i \div 2] % Hex]

\* What no midstate, block or hash is.
Junk == <<>>

\* The mining.notify a pool sends of a block template: the bytes of the
\* previous hash, as displayed, swapped in each word and then all reversed.
Notify(pool) ==
  <<pool.job_id, HexOf(Reverse(SwapInWords(pool.display))), pool.coinb1,
    pool.coinb2, pool.merkle_branch, pool.version, pool.nbits, pool.ntime, TRUE>>

Job    == [w \in Works |-> parse_notify(Notify(w.pool))]
Root   == [w \in Works |-> build_merkle_root(Job[w], w.en1, w.en2, w.en2_size)]
Header == [w \in Works |-> build_header80(Job[w], Root[w], 0)]

-----------------------------------------------------------------------------
(* What the device hashes.                                                 *)

block0(h) == SubSeq(h, 1, 2 * N)

\* Words are little-endian: of a message they are its bytes, of a target or
\* a hash its quarters as numbers.
W0(h)    == SubSeq(h, 2 * N + 1, 2 * N + 8)
Nbits(h) == SubSeq(h, 2 * N + 9, 2 * N + 12)
Words(b) ==
  [j \in 0..3 |-> FromLE(SubSeq(b, j * (N \div 4) + 1, (j + 1) * (N \div 4)))]

\* WHIRLPOOL_BLOCK1_FOLD: the message hashed for a nonce.
Message(nonce) ==
  [mid |-> c_midstate, rk |-> c_rk,
   block1 |-> c_block1_w0 \o c_block1_nbits \o write_le32(nonce)]

\* What the CPU hashes, the 80 bytes of a header one after the other.
MessageOf(h) ==
  [mid |-> block0(h), rk |-> block0(h),
   block1 |-> SubSeq(h, 2 * N + 1, Len(h))]

\* Mutation: a hash equal to the target does not meet it.
MeetsStrictly(v) ==
  LET h == Words(v)
  IN \E j \in 0..3 : h[j] < c_target_w[j] /\ \A k \in j + 1..3 : h[k] = c_target_w[k]

\* hash <= target, most significant word first.
Meets(v) ==
  LET h == Words(v)
  IN \/ h = c_target_w
     \/ \E j \in 0..3 : /\ h[j] < c_target_w[j]
                        /\ \A k \in j + 1..3 : h[k] = c_target_w[k]

-----------------------------------------------------------------------------
(* Launch geometry.                                                        *)

clamp_threads(arg) ==
  LET asked == IF arg > 0 THEN arg ELSE MaxThreads
      capped == IF asked > MaxThreads THEN MaxThreads ELSE asked
      whole == (capped \div Warp) * Warp
  IN IF whole < Warp THEN Warp ELSE whole

Blocks(n) ==
  LET need == (n + threads - 1) \div threads
  IN IF need < Saturation THEN need ELSE Saturation

stride == threads * Blocks(count)

AllThreads == 0..MaxThreads * Saturation - 1
Threads    == {t \in AllThreads : t < stride}

NoResult == [found |-> FALSE, nonce |-> 0, hash |-> Zeros, of |-> Junk]

Init ==
  /\ pc = "idle" /\ work = (CHOOSE w \in Works : TRUE) /\ target = Zeros
  /\ lost = FALSE /\ have_job = FALSE
  /\ d_hdr = Junk /\ d_mid = Junk /\ d_rk = Junk
  /\ c_midstate = Junk /\ c_rk = Junk
  /\ c_block1_w0 = Junk /\ c_block1_nbits = Junk /\ c_target_w = Words(Zeros)
  /\ start_nonce = 0 /\ count = 0 /\ threads = MaxThreads
  /\ found = FALSE /\ found_nonce = 0 /\ found_hash = [of |-> Junk, val |-> Zeros]
  /\ tpc = [t \in AllThreads |-> "exit"] /\ idx = [t \in AllThreads |-> 0]
  /\ poll = [t \in AllThreads |-> 0] /\ val = [t \in AllThreads |-> Zeros]
  /\ result = NoResult /\ block = FALSE /\ hashes = 0
  /\ setup_ok = FALSE /\ batch_ok = FALSE
  /\ hashed = [i \in 0..MaxCount - 1 |-> 0] /\ overlooked = FALSE
  /\ setups = 0 /\ batches = 0 /\ faults = 0

-----------------------------------------------------------------------------
(* Failing calls.                                                          *)

\* Which of the calls 1..n fail: all of them on a lost device, those from
\* the one on that loses it, otherwise any few.
Failing(n, gone) ==
  IF lost THEN IF gone THEN {1..n} ELSE {}
  ELSE IF gone THEN {k..n : k \in 1..n}
  ELSE UNION {kSubset(k, 1..n) : k \in 0..MaxFaults - faults}

Suffer(failed, gone) ==
  /\ lost' = gone
  /\ faults' = IF gone THEN faults ELSE faults + Cardinality(failed)

-----------------------------------------------------------------------------
(* cuda_setup_job and the verification of the first one.                   *)

\* Calls 1 to 10: header to the device, midstate kernel, midstate back and
\* into constant memory, the same for the round keys, w0, nbits, target.  The
\* host arrays are uninitialized when nothing is copied back.  Buffers that
\* ensure_ready cannot allocate are a device lost in the first call.
SetupJob(w, failed, gone) ==
  LET h      == Header[w]
      hdr    == IF 1 \in failed THEN d_hdr ELSE block0(h)
      mid    == IF 2 \in failed THEN d_mid ELSE hdr
      mid_up == IF 3 \in failed THEN Junk ELSE mid
      rk     == IF 5 \in failed THEN d_rk ELSE mid
      rk_up  == IF 6 \in failed THEN Junk ELSE rk
      t      == make_share_target(w.difficulty)
  IN /\ pc = "idle"
     /\ setups < MaxSetups
     /\ Suffer(failed, gone)
     /\ d_hdr' = hdr /\ d_mid' = mid /\ d_rk' = rk
     /\ c_midstate' = IF 4 \in failed THEN c_midstate ELSE mid_up
     /\ c_rk' = IF 7 \in failed THEN c_rk ELSE rk_up
     /\ c_block1_w0' = IF 8 \in failed THEN c_block1_w0 ELSE W0(h)
     /\ c_block1_nbits' = IF 9 \in failed THEN c_block1_nbits ELSE Nbits(h)
     /\ c_target_w' = IF 10 \in failed THEN c_target_w ELSE Words(t)
     /\ work' = w /\ target' = t
     /\ have_job' = TRUE
     /\ setup_ok' = (failed = {})
     /\ setups' = setups + 1
     /\ pc' = IF setups = 0 THEN "verify" ELSE "idle"
  /\ UNCHANGED <<batch, block_, kernel, answer, batch_ok, hashed, overlooked,
                 batches>>

\* The CPU's hash of nonce 0 is the one the GPU has computed and handed over.
Verified(failed) ==
  2 \notin failed /\ 3 \notin failed /\ Message(0) = MessageOf(Header[work])

\* Calls 1 to 3: clear d_hash, probe kernel, d_hash back.  The value of a
\* probed hash is not looked at again.
Verify(failed, gone) ==
  /\ pc = "verify"
  /\ Suffer(failed, gone)
  /\ found_hash' = IF 2 \notin failed THEN [of |-> Message(0), val |-> Zeros]
                   ELSE IF 1 \notin failed THEN [of |-> Junk, val |-> Zeros]
                   ELSE found_hash
  /\ pc' = IF Verified(failed) THEN "idle" ELSE "refused"
  /\ UNCHANGED <<work, target, have_job, d_hdr, d_mid, d_rk, constants, batch,
                 found, found_nonce, kernel, answer, setup_ok, batch_ok, hashed,
                 overlooked, setups, batches>>

-----------------------------------------------------------------------------
(* cuda_mine_batch, up to and including the launch.                        *)

\* Calls 1 and 2: clear found, launch.
Launch(b, failed, gone) ==
  /\ pc = "idle" /\ have_job
  /\ batches < MaxBatches
  /\ Suffer(failed, gone)
  /\ start_nonce' = b.start /\ count' = b.count
  /\ threads' = clamp_threads(b.threads)
  /\ found' = (1 \in failed /\ found)
  /\ batch_ok' = (failed = {})
  /\ batches' = batches + 1
  /\ pc' = IF 2 \in failed THEN "read" ELSE "grid"
  /\ UNCHANGED <<work, target, have_job, d_hdr, d_mid, d_rk, constants,
                 found_nonce, found_hash, kernel, answer, setup_ok, hashed,
                 overlooked, setups>>

\* No thread runs, and what is noted of their work is forgotten.
NoThreads ==
  /\ tpc' = [t \in AllThreads |-> "exit"] /\ idx' = [t \in AllThreads |-> 0]
  /\ poll' = [t \in AllThreads |-> 0] /\ val' = [t \in AllThreads |-> Zeros]
  /\ hashed' = [i \in 0..MaxCount - 1 |-> 0] /\ overlooked' = FALSE

\* The threads of the grid start.
Grid ==
  /\ pc = "grid"
  /\ tpc' = [t \in AllThreads |-> IF t \in Threads THEN "loop" ELSE "exit"]
  /\ idx' = [t \in AllThreads |-> IF t \in Threads THEN t ELSE 0]
  /\ pc' = "kernel"
  /\ UNCHANGED <<work, target, device, batch, block_, poll, val, answer,
                 setup_ok, batch_ok, hashed, overlooked, bounds>>

\* The device is lost and its threads with it.
Abort ==
  /\ pc = "kernel"
  /\ lost' = TRUE /\ batch_ok' = FALSE
  /\ NoThreads
  /\ pc' = "read"
  /\ UNCHANGED <<work, target, have_job, d_hdr, d_mid, d_rk, constants, batch,
                 block_, answer, setup_ok, bounds>>

KernelDone ==
  /\ pc = "kernel"
  /\ \A t \in Threads : tpc[t] = "exit"
  /\ pc' = "read"
  /\ UNCHANGED <<work, target, device, batch, block_, kernel, answer, setup_ok,
                 batch_ok, hashed, overlooked, bounds>>

-----------------------------------------------------------------------------
(* The threads of whirlpool_mine_ms.                                       *)

InLoop(t) == pc = "kernel" /\ tpc[t] = "loop" /\ idx[t] < count
Stops(t)  == poll[t] = 0 /\ found
Leave(t)  == tpc' = [tpc EXCEPT ![t] = "exit"]

hostside == <<pc, work, target, device, batch, answer, setup_ok, batch_ok, bounds>>

\* A poll sees that another thread has found a share.
Break(t) ==
  /\ InLoop(t) /\ Stops(t)
  /\ Leave(t)
  /\ UNCHANGED <<hostside, block_, idx, poll, val, hashed, overlooked>>

Hash(t, v) ==
  /\ InLoop(t) /\ ~Stops(t)
  /\ poll' = [poll EXCEPT ![t] = (@ + 1) % PollEvery]
  /\ hashed' = [hashed EXCEPT ![idx[t]] = @ + 1]
  /\ IF Meets(v)
     THEN /\ tpc' = [tpc EXCEPT ![t] = "cas"] /\ val' = [val EXCEPT ![t] = v]
          /\ UNCHANGED <<idx, overlooked>>
     ELSE /\ idx' = [idx EXCEPT ![t] = @ + stride]
          /\ overlooked' = (overlooked \/ FromLE(v) <= FromLE(target))
          /\ UNCHANGED <<tpc, val>>
  /\ UNCHANGED <<hostside, block_>>

LoopEnds(t) ==
  /\ pc = "kernel" /\ tpc[t] = "loop" /\ idx[t] >= count
  /\ Leave(t)
  /\ UNCHANGED <<hostside, block_, idx, poll, val, hashed, overlooked>>

\* Mutation: every thread with a find stores it.
WinUnasked(t) ==
  /\ pc = "kernel" /\ tpc[t] = "cas"
  /\ found' = TRUE
  /\ tpc' = [tpc EXCEPT ![t] = "nonce"]
  /\ UNCHANGED <<hostside, found_nonce, found_hash, idx, poll, val, hashed, overlooked>>

\* atomicCAS: only the first thread stores.
Win(t) ==
  /\ pc = "kernel" /\ tpc[t] = "cas"
  /\ found' = TRUE
  /\ tpc' = [tpc EXCEPT ![t] = IF found THEN "exit" ELSE "nonce"]
  /\ UNCHANGED <<hostside, found_nonce, found_hash, idx, poll, val, hashed, overlooked>>

StoreNonce(t) ==
  /\ pc = "kernel" /\ tpc[t] = "nonce"
  /\ found_nonce' = start_nonce + idx[t]
  /\ tpc' = [tpc EXCEPT ![t] = "hash"]
  /\ UNCHANGED <<hostside, found, found_hash, idx, poll, val, hashed, overlooked>>

StoreHash(t) ==
  /\ pc = "kernel" /\ tpc[t] = "hash"
  /\ found_hash' = [of |-> Message(start_nonce + idx[t]), val |-> val[t]]
  /\ Leave(t)
  /\ UNCHANGED <<hostside, found, found_nonce, idx, poll, val, hashed, overlooked>>

-----------------------------------------------------------------------------
(* The end of cuda_mine_batch, and what run_stratum makes of it.           *)

\* Calls 1 to 3: found back, and then nonce and hash.
ReadBack(failed, gone) ==
  LET f == found /\ 1 \notin failed
  IN /\ pc = "read"
     /\ Suffer(failed, gone)
     /\ result' =
          [found |-> f,
           nonce |-> IF f /\ 2 \notin failed THEN found_nonce ELSE 0,
           hash  |-> IF f /\ 3 \notin failed THEN found_hash.val ELSE Zeros,
           of    |-> IF f /\ 3 \notin failed THEN found_hash.of ELSE Junk]
     /\ hashes' = hashes + count
     /\ batch_ok' = (batch_ok /\ failed = {})
     /\ pc' = "judge"
  /\ UNCHANGED <<work, target, have_job, d_hdr, d_mid, d_rk, constants, batch,
                 block_, kernel, block, setup_ok, hashed, overlooked, setups,
                 batches>>

\* A share that meets the network target too is a block.
Judge ==
  /\ pc = "judge"
  /\ block' = (/\ result.found
               /\ hash_leq_target_le(result.hash, network_target_from_nbits_le(
                                                     parse_hex_u32(Job[work].nbits))))
  /\ pc' = "judged"
  /\ UNCHANGED <<work, target, device, batch, block_, kernel, result, hashes,
                 setup_ok, batch_ok, hashed, overlooked, bounds>>

\* The iteration ends.
EndOfScope ==
  /\ pc = "judged"
  /\ result' = NoResult /\ block' = FALSE
  /\ NoThreads
  /\ pc' = "idle"
  /\ UNCHANGED <<work, target, device, batch, block_, hashes, setup_ok,
                 batch_ok, bounds>>

-----------------------------------------------------------------------------

Host(gone) ==
  \/ \E w \in Works, failed \in Failing(10, gone) : SetupJob(w, failed, gone)
  \/ \E failed \in Failing(3, gone) : Verify(failed, gone) \/ ReadBack(failed, gone)
  \/ \E b \in Batches, failed \in Failing(2, gone) : Launch(b, failed, gone)

Thread(t) ==
  \/ Break(t) \/ LoopEnds(t) \/ Win(t) \/ StoreNonce(t) \/ StoreHash(t)
  \/ \E v \in HashValues : Hash(t, v)

\* Nothing left to do within the bounds, or the verification has failed.
Returned ==
  /\ \/ pc = "refused"
     \/ pc = "idle" /\ setups = MaxSetups /\ batches = MaxBatches
  /\ UNCHANGED vars

Next ==
  \/ \E gone \in BOOLEAN : Host(gone)
  \/ Grid \/ Abort \/ KernelDone \/ Judge \/ EndOfScope
  \/ \E t \in Threads : Thread(t)
  \/ Returned

Spec == Init /\ [][Next]_vars

-----------------------------------------------------------------------------
(* Properties.                                                             *)

\* The header the pool puts together from its own fields and from the share.
PoolHeader(w, nonce) ==
  Reverse(hex_to_bytes(w.pool.version)) \o Reverse(w.pool.display)
    \o build_merkle_root(w.pool, w.en1, w.en2, w.en2_size)
    \o Reverse(hex_to_bytes(w.pool.ntime)) \o Reverse(hex_to_bytes(w.pool.nbits))
    \o write_le32(nonce)

\* A find is a nonce of this batch, hashed in it, and its hash is the one the
\* pool computes (capstash_pow.cpp:80-83), whatever failed in earlier batches
\* and set-ups; of the first set-up a failure is noticed by the verification.
FindIsReal ==
  pc = "judged" /\ batch_ok /\ (setup_ok \/ setups = 1) /\ result.found =>
    /\ result.nonce - start_nonce \in 0..count - 1
    /\ hashed[result.nonce - start_nonce] = 1
    /\ result.of = MessageOf(PoolHeader(work, result.nonce))

\* A find is worth the difficulty the pool has asked for, fractions included.
FindIsWorthIt ==
  pc = "judged" /\ batch_ok /\ setup_ok /\ result.found =>
    LET d == IF work.difficulty > 0 THEN work.difficulty ELSE 2
    IN FromLE(result.hash) * d <= 2 * FromLE(Diff1)

\* A batch without a find has hashed each of its nonces once, and not one
\* that meets the target.  Grid, stride and polls may not leave one out.
EmptyMeansScanned ==
  pc = "judged" /\ batch_ok /\ setup_ok /\ ~result.found =>
    /\ \A i \in 0..MaxCount - 1 : hashed[i] = (IF i < count THEN 1 ELSE 0)
    /\ ~overlooked

\* A find counts as a block exactly if its hash does not exceed mantissa *
\* 256^(exponent-3) (capstash_pow.cpp:115-117), and hash_meets_target_le,
\* which takes its target as text, judges the share as the kernel did.
BlockIsBlock ==
  LET mant     == FromLE(SubSeq(Reverse(hex_to_bytes(work.pool.nbits)), 1, 3))
                    % (Power(Byte, 3) \div 2)
      exponent == hex_to_bytes(work.pool.nbits)[1]
      value    == FromLE(result.hash)
  IN pc = "judged" /\ result.found =>
       /\ block <=> value * Power(Byte, 3) <= mant * Power(Byte, exponent)
       /\ hash_meets_target_le(result.hash, HexOf(Reverse(target))) <=> value <= FromLE(target)

\* A batch in which no call fails implements the abstract search, whatever has
\* failed before it.  Of several threads with a find all but one let theirs go;
\* the one that stores it keeps it until it has left.
Searching == batch_ok /\ pc \in {"grid", "kernel", "read"}
Answered  == batch_ok /\ pc \in {"judge", "judged"}
Asked  == {start_nonce + i : i \in 0..count - 1}
Tried  == {start_nonce + i : i \in {j \in 0..count - 1 : hashed[j] # 0}}
Held   == {start_nonce + idx[t] : t \in {u \in AllThreads : tpc[u] \in {"cas", "nonce", "hash"}}}
Stored == IF found /\ \A t \in AllThreads : tpc[t] \notin {"nonce", "hash"}
          THEN {found_nonce} ELSE {}

Search == INSTANCE NonceSearch
  WITH phase   <- IF Searching THEN "searching" ELSE IF Answered THEN "answered" ELSE "idle",
       asked   <- IF Searching \/ Answered THEN Asked ELSE {},
       hashed  <- IF Searching \/ Answered THEN Tried ELSE {},
       wins    <- IF Searching \/ Answered THEN Held \cup Stored ELSE {},
       stopped <- FALSE,
       answer  <- IF Answered /\ result.found THEN {result.nonce} ELSE {}

SearchSpec == Search!Spec

-----------------------------------------------------------------------------
(* The inductive invariant.                                                *)

Number(v) == v \in [1..N -> 0..Byte - 1]

TypeInv ==
  /\ pc \in {"idle", "verify", "refused", "grid", "kernel", "read", "judge", "judged"}
  /\ work \in Works /\ Number(target)
  /\ have_job \in BOOLEAN /\ found \in BOOLEAN
  /\ setup_ok \in BOOLEAN /\ batch_ok \in BOOLEAN /\ overlooked \in BOOLEAN
  /\ start_nonce \in Nat /\ count \in 0..MaxCount /\ threads \in 1..MaxThreads
  /\ tpc \in [AllThreads -> {"loop", "cas", "nonce", "hash", "exit"}]
  /\ idx \in [AllThreads -> Nat]
  /\ val \in [AllThreads -> [1..N -> 0..Byte - 1]]
  /\ hashed \in [0..MaxCount - 1 -> {0, 1}]
  /\ Number(found_hash.val)
  /\ result.found \in BOOLEAN /\ Number(result.hash)
  /\ setups \in Nat

\* The indices thread t is to hash.
Own(t) == {i \in 0..count - 1 : i % stride = t}

\* Outside of the kernel no thread runs, and what it hashed is forgotten.
QuietInv ==
  /\ \A t \in AllThreads : pc # "kernel" \/ t \notin Threads => tpc[t] = "exit"
  /\ pc \in {"idle", "verify", "refused", "grid"} =>
       /\ \A i \in 0..MaxCount - 1 : hashed[i] = 0
       /\ ~overlooked

\* A thread has hashed its indices up to its own, and none above.
ThreadInv ==
  /\ pc \in {"grid", "kernel"} => count # 0
  /\ \A i \in 0..MaxCount - 1 : i >= count => hashed[i] = 0
  /\ pc = "kernel" => \A t \in Threads :
       /\ idx[t] % stride = t
       /\ \A i \in Own(t) : i < idx[t] => hashed[i] = 1
       /\ tpc[t] = "loop" => \A i \in Own(t) : i >= idx[t] => hashed[i] = 0
       /\ tpc[t] \in {"cas", "nonce", "hash"} =>
            idx[t] < count /\ hashed[idx[t]] = 1 /\ Meets(val[t])
       /\ tpc[t] = "exit" /\ ~found => \A i \in Own(t) : hashed[i] = 1

\* The thread that stores its find, and what it has stored when it is through.
Storing(t) == tpc[t] \in {"nonce", "hash"}
Wrote(n, h) == \E i \in 0..count - 1 :
  n = start_nonce + i /\ hashed[i] = 1 /\ h.of = Message(n) /\ Meets(h.val)

\* One thread stores its find; the block is complete when it has left.
WinInv ==
  /\ pc = "kernel" =>
       /\ \A t, u \in Threads : Storing(t) /\ Storing(u) => t = u
       /\ \A t \in Threads : Storing(t) => found
       /\ \A t \in Threads : tpc[t] = "hash" => found_nonce = start_nonce + idx[t]
  /\ pc \in {"kernel", "read"} /\ batch_ok /\ found =>
       \/ pc = "kernel" /\ \E t \in Threads : Storing(t)
       \/ Wrote(found_nonce, found_hash)

\* What the batch has come to.
OutcomeInv ==
  /\ pc = "grid" /\ batch_ok => ~found
  /\ pc \in {"read", "judge", "judged"} /\ batch_ok /\ ~found =>
       \A i \in 0..count - 1 : hashed[i] = 1
  /\ pc \in {"judge", "judged"} /\ batch_ok =>
       /\ result.found = found
       /\ result.found => Wrote(result.nonce, [of |-> result.of, val |-> result.hash])

\* What is on the device after a set-up without a failure, or after a
\* verification that succeeded.
UploadInv ==
  /\ c_block1_w0 \in Seq(Nat) /\ c_block1_nbits \in Seq(Nat)
  /\ have_job <=> setups # 0
  /\ have_job => target = make_share_target(work.difficulty)
  /\ pc \notin {"idle", "verify", "refused"} => have_job
  /\ setup_ok =>
       /\ have_job
       /\ c_midstate = block0(Header[work]) /\ c_rk = block0(Header[work])
       /\ c_block1_w0 = W0(Header[work]) /\ c_block1_nbits = Nbits(Header[work])
       /\ c_target_w = Words(target)
  /\ setups = 1 /\ pc \notin {"verify", "refused"} => Message(0) = MessageOf(Header[work])

\* With the target on the device nothing is passed over.
OverlookInv == setup_ok => ~overlooked

IInv ==
  /\ TypeInv /\ QuietInv /\ ThreadInv /\ WinInv /\ OutcomeInv /\ UploadInv /\ OverlookInv

=============================================================================
