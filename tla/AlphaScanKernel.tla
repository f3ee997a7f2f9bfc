--------------------------- MODULE AlphaScanKernel ---------------------------
(***************************************************************************)
(* One call of alphanumeric_cuda_scan92 on a working device: the host cuts *)
(* the range into slices, launches alpha_scan_kernel for each and reads    *)
(* the result block; the threads of a launch walk the slice grid-stride,   *)
(* poll the found flag and the job generation every PollEvery entries, and *)
(* account for the work they left undone.                                  *)
(*                                                                         *)
(* A hash is abstracted to the nonce it is the hash of and to whether that *)
(* meets the target.  What a thread does on its own between two accesses   *)
(* to global memory is one step; uint32_t and uint64_t keep their width as *)
(* Word and NonceSpace.                                                    *)
(***************************************************************************)
EXTENDS Integers, FiniteSetsExt

CONSTANTS
  BlockDim,     \* threads per block (clamp_threads)
  Saturation,   \* sm_count * blocks per SM
  SliceMax,     \* largest launch (2^31 in the code)
  PollEvery,    \* loop entries between two polls (256 in the code)
  Word,         \* 2^32
  NonceSpace,   \* 2^64
  MaxCount      \* bound: nonces asked for

ASSUME KernelAssumption ==
  /\ BlockDim \in Nat \ {0} /\ Saturation \in Nat \ {0}
  /\ SliceMax \in Nat \ {0} /\ PollEvery \in Nat \ {0}
  /\ NonceSpace \in Nat \ {0} /\ MaxCount \in 1..NonceSpace
  /\ Word \in Nat /\ SliceMax + BlockDim * Saturation <= Word

VARIABLES
  \* the arguments of the call, and which nonces meet the target
  start_nonce, nonce_count, winners,
  \* the host
  hpc, remaining, s, enqueued, slice, hashes_scanned,
  \* the result block on the device
  found, deficit, nonce,
  hash,         \* the nonce whose hash the block holds
  \* whether the device's generation differs from that of the call
  stale,
  \* the threads of the running launch
  tpc, idx, poll, bailed,
  \* history: how often each nonce was hashed, and whether the call was ever
  \* stale
  hashed, cancelled

args    == <<start_nonce, nonce_count, winners>>
host    == <<hpc, remaining, s, enqueued, slice, hashes_scanned>>
result  == <<found, deficit, nonce, hash>>
gens    == <<stale, cancelled>>
threads == <<tpc, idx, poll, bailed>>
vars    == <<args, host, result, gens, threads, hashed>>

Nonces == 0..NonceSpace - 1
Asked  == {(start_nonce + i) % NonceSpace : i \in 0..nonce_count - 1}

\* grid_blocks_for: enough blocks for the slice, at least one, no more than
\* the device can hold.
GridBlocks(n) ==
  LET need == (n + BlockDim - 1) \div BlockDim
  IN Max({1, Min({need, Saturation})})

AllThreads == 0..BlockDim * Saturation - 1

\* The launch that runs: its stride, its threads, its blocks.
stride  == BlockDim * GridBlocks(slice)
Blocks  == 0..GridBlocks(slice) - 1
Threads == 0..stride - 1
BlockThreads(b) == {t \in Threads : t \div BlockDim = b}

\* The nonce the thread is at; s has moved past the slice already.
At(t) == (s - slice + idx[t]) % NonceSpace

\* nonce and hash keep whatever an earlier call has left in the result block.
Init ==
  /\ start_nonce \in Nonces /\ nonce_count \in 1..MaxCount
  /\ winners \in SUBSET Asked
  /\ hpc = "launch" /\ remaining = nonce_count /\ s = start_nonce
  /\ enqueued = 0 /\ slice = 0 /\ hashes_scanned = 0
  /\ found = FALSE /\ deficit = 0
  /\ nonce \in {0, NonceSpace - 1} /\ hash = nonce
  /\ stale = FALSE /\ cancelled = FALSE
  /\ tpc = [t \in AllThreads |-> "exit"] /\ idx = [t \in AllThreads |-> 0]
  /\ poll = [t \in AllThreads |-> 0] /\ bailed = [t \in AllThreads |-> FALSE]
  /\ hashed = [n \in Nonces |-> 0]

-----------------------------------------------------------------------------
(* The host.                                                               *)

NextSlice == Min({remaining, SliceMax})

\* One more slice, unless an earlier one has found a share.
Launch ==
  /\ hpc = "launch"
  /\ remaining # 0
  /\ slice' = NextSlice
  /\ enqueued' = enqueued + NextSlice
  /\ s' = (s + NextSlice) % NonceSpace
  /\ remaining' = remaining - NextSlice
  /\ hpc' = "kernel"
  /\ tpc' = [t \in AllThreads |-> IF t < BlockDim * GridBlocks(NextSlice)
                                  THEN "loop" ELSE "exit"]
  /\ idx' = [t \in AllThreads |-> t]
  /\ poll' = [t \in AllThreads |-> 0]
  /\ bailed' = [t \in AllThreads |-> FALSE]
  /\ UNCHANGED <<args, hashes_scanned, result, gens, hashed>>

KernelDone == hpc = "kernel" /\ \A t \in AllThreads : tpc[t] = "exit"

\* Mutation: the peek reads the result instead of going on.
PeekReads ==
  /\ KernelDone
  /\ remaining # 0
  /\ hpc' = "read"
  /\ UNCHANGED <<args, remaining, s, enqueued, slice, hashes_scanned, result,
                 gens, threads, hashed>>

\* The peek between two slices.
Peek ==
  /\ KernelDone
  /\ remaining # 0
  /\ hpc' = IF found THEN "read" ELSE "launch"
  /\ UNCHANGED <<args, remaining, s, enqueued, slice, hashes_scanned, result,
                 gens, threads, hashed>>

LastSlice ==
  /\ KernelDone
  /\ remaining = 0
  /\ hpc' = "read"
  /\ UNCHANGED <<args, remaining, s, enqueued, slice, hashes_scanned, result,
                 gens, threads, hashed>>

\* The work reported: what was enqueued less what was left undone.
ReadResult ==
  /\ hpc = "read"
  /\ hashes_scanned' = IF enqueued >= deficit THEN enqueued - deficit ELSE 0
  /\ hpc' = "done"
  /\ UNCHANGED <<args, remaining, s, enqueued, slice, result, gens, threads,
                 hashed>>

\* A generation written by request_cancel arrives: the device now differs from
\* the call, or has caught up with it.
Stale ==
  /\ hpc # "done"
  /\ stale' = ~stale
  /\ cancelled' = TRUE
  /\ UNCHANGED <<args, host, result, threads, hashed>>

-----------------------------------------------------------------------------
(* The threads.                                                            *)

\* Whether the loop entry about to be made is one that polls.
Polls(t) == (poll[t] + 1) % PollEvery = 0

\* Mutation: a poll stops whatever it reads.
BailsAtPoll(t) == Polls(t)

Bails(t) == Polls(t) /\ (found \/ stale)

\* An entry of the loop whose poll says stop: nothing is hashed.
Bail(t) ==
  /\ tpc[t] = "loop" /\ idx[t] < slice
  /\ Bails(t)
  /\ poll' = [poll EXCEPT ![t] = @ + 1]
  /\ bailed' = [bailed EXCEPT ![t] = TRUE]
  /\ tpc' = [tpc EXCEPT ![t] = "sum"]
  /\ UNCHANGED <<args, host, result, gens, idx, hashed>>

\* Mutation: the stride of a single block.
StepByBlock(t) == idx' = [idx EXCEPT ![t] = (@ + BlockDim) % Word]

Step(t) == idx' = [idx EXCEPT ![t] = (@ + stride) % Word]

\* An entry that hashes its nonce.
Hash(t) ==
  /\ tpc[t] = "loop" /\ idx[t] < slice
  /\ ~Bails(t)
  /\ poll' = [poll EXCEPT ![t] = @ + 1]
  /\ hashed' = [hashed EXCEPT ![At(t)] = @ + 1]
  /\ IF At(t) \in winners
     THEN tpc' = [tpc EXCEPT ![t] = "cas"] /\ UNCHANGED idx
     ELSE Step(t) /\ UNCHANGED tpc
  /\ UNCHANGED <<args, host, result, gens, bailed>>

LoopEnds(t) ==
  /\ tpc[t] = "loop" /\ idx[t] >= slice
  /\ tpc' = [tpc EXCEPT ![t] = "sum"]
  /\ UNCHANGED <<args, host, result, gens, idx, poll, bailed, hashed>>

\* Mutation: a plain store in the place of the atomicCAS, so every winner goes
\* on to the result block.
WinEveryone(t) ==
  /\ tpc[t] = "cas"
  /\ found' = TRUE
  /\ tpc' = [tpc EXCEPT ![t] = "store"]
  /\ UNCHANGED <<args, host, deficit, nonce, hash, gens, idx, poll, bailed,
                 hashed>>

\* atomicCAS: the first thread goes on to the result block, the others are done.
Win(t) ==
  /\ tpc[t] = "cas"
  /\ found' = TRUE
  /\ tpc' = [tpc EXCEPT ![t] = IF found THEN "sum" ELSE "store"]
  /\ UNCHANGED <<args, host, deficit, nonce, hash, gens, idx, poll, bailed,
                 hashed>>

\* result->nonce, then the bytes of result->hash, each a store of its own.
Store(t) ==
  /\ tpc[t] = "store"
  /\ nonce' = At(t)
  /\ tpc' = [tpc EXCEPT ![t] = "storehash"]
  /\ UNCHANGED <<args, host, found, deficit, hash, gens, idx, poll, bailed,
                 hashed>>

StoreHash(t) ==
  /\ tpc[t] = "storehash"
  /\ hash' = At(t)
  /\ tpc' = [tpc EXCEPT ![t] = "sum"]
  /\ UNCHANGED <<args, host, found, deficit, nonce, gens, idx, poll, bailed,
                 hashed>>

\* The loop entries the stride gives a thread, in closed form.
Expected(t) == IF t < slice THEN (slice - 1 - t) \div stride + 1 ELSE 0

\* Mutation: the entry that bailed counts as hashed.
DoneWithBail(t) == poll[t]

Done(t) == poll[t] - (IF bailed[t] THEN 1 ELSE 0)

\* Behind its barrier a block adds what its threads left undone.
BlockSum(b) ==
  /\ \A t \in BlockThreads(b) : tpc[t] = "sum"
  /\ deficit' =
       deficit + MapThenSumSet(LAMBDA t : (Expected(t) - Done(t)) % Word,
                               BlockThreads(b))
  /\ tpc' = [t \in AllThreads |-> IF t \in BlockThreads(b) THEN "exit"
                                                           ELSE tpc[t]]
  /\ UNCHANGED <<args, host, found, nonce, hash, gens, idx, poll, bailed,
                 hashed>>

-----------------------------------------------------------------------------

Host == Launch \/ Peek \/ LastSlice \/ ReadResult

Kernel ==
  /\ hpc = "kernel"
  /\ \/ \E t \in Threads : \/ Bail(t) \/ Hash(t) \/ LoopEnds(t) \/ Win(t)
                           \/ Store(t) \/ StoreHash(t)
     \/ \E b \in Blocks : BlockSum(b)

Returned == hpc = "done" /\ UNCHANGED vars

Next == Host \/ Kernel \/ Stale \/ Returned

Spec == Init /\ [][Next]_vars

-----------------------------------------------------------------------------
(* Properties.                                                             *)

\* ALPHANUMERIC_STAGE_OPT_NOTES.txt:238, "none duplicated": the threads and
\* slices of a call never hash a nonce twice, nor one outside the range.
NoneDuplicated == \A n \in Nonces : hashed[n] <= (IF n \in Asked THEN 1 ELSE 0)

\* The same line, "no nonce skipped": a call that returns without a find and
\* was not cancelled has hashed the whole range.
NoneSkipped == hpc = "done" /\ ~found /\ ~cancelled => \A n \in Asked : hashed[n] = 1

\* ALPHANUMERIC_STAGE_OPT_NOTES.txt:69: the work reported "is exact for every
\* mix of full scans, found-breaks and cancel-bails".
AccountingExact ==
  hpc = "done" => hashes_scanned = MapThenSumSet(LAMBDA n : hashed[n], Nonces)

\* A reported find is one the kernel has hashed in this call and that meets
\* the target, with its own hash next to it: never what an earlier call left
\* behind, nor the nonce of one thread and the hash of another.
FindIsReal ==
  hpc = "done" /\ found => nonce \in winners /\ hashed[nonce] = 1 /\ hash = nonce

\* The call implements the abstract search.  With what the other properties
\* say it follows that a range with a winner is not reported empty unless the
\* call was cancelled, and that a cancel that comes too late to keep a winner
\* from being hashed does not keep it from being reported.
Tried == {n \in Nonces : hashed[n] # 0}

Search == INSTANCE NonceSearch
            WITH phase   <- IF hpc = "done" THEN "answered" ELSE "searching",
                 asked   <- Asked,
                 hashed  <- Tried,
                 wins    <- Tried \cap winners,
                 stopped <- cancelled,
                 answer  <- IF hpc = "done" /\ found THEN {nonce} ELSE {}

SearchSpec == Search!Spec

-----------------------------------------------------------------------------
(* The inductive invariant.                                                *)

\* Nonce number i of the call; where the running launch starts.
Pos(i) == (start_nonce + i) % NonceSpace
base == enqueued - slice

\* The entries of the slice that are the thread's.
Own(t) == {i \in 0..slice - 1 : i % stride = t}

TypeInv ==
  /\ start_nonce \in Nonces /\ nonce_count \in 1..MaxCount /\ winners \in SUBSET Asked
  /\ hpc \in {"launch", "kernel", "read", "done"}
  /\ remaining \in Nat /\ enqueued \in Nat /\ slice \in 0..SliceMax
  /\ found \in BOOLEAN /\ nonce \in Nonces /\ hash \in Nonces
  /\ stale \in BOOLEAN /\ cancelled \in BOOLEAN /\ (stale => cancelled)
  /\ tpc \in [AllThreads ->
              {"loop", "cas", "store", "storehash", "sum", "exit"}]
  /\ idx \in [AllThreads -> Nat]
  /\ hashed \in [Nonces -> Nat]

\* The slices so far and what remains are the range; the host leaves a rest
\* only for a find.
RangeInv ==
  /\ enqueued + remaining = nonce_count /\ slice <= enqueued
  /\ s = Pos(enqueued)
  /\ hpc \in {"read", "done"} => found \/ remaining = 0

\* No thread runs outside of a launch, and each stays on its own entries.
ThreadInv ==
  /\ hpc # "kernel" => \A t \in AllThreads : tpc[t] = "exit"
  /\ hpc = "kernel" => /\ \A t \in AllThreads \ Threads : tpc[t] = "exit"
                       /\ \A t \in Threads : idx[t] % stride = t
  /\ \A t \in AllThreads : tpc[t] \in {"cas", "store", "storehash"} => idx[t] < slice

\* Nothing ahead of the host or of a thread is hashed yet.
AheadInv ==
  /\ \A i \in enqueued..nonce_count - 1 : hashed[Pos(i)] = 0
  /\ hpc = "kernel" =>
       \A t \in Threads : tpc[t] = "loop" =>
         \A i \in Own(t) : i >= idx[t] => hashed[Pos(base + i)] = 0

\* Everything behind the host and the threads is, if nothing stopped them.
BehindInv ==
  ~found /\ ~cancelled =>
    /\ \A i \in 0..base - 1 : hashed[Pos(i)] = 1
    /\ \A t \in Threads : \A i \in Own(t) :
         i < idx[t] \/ tpc[t] \in {"sum", "exit"} => hashed[Pos(base + i)] = 1

\* A winner is on its way to the result block, or there; one thread at most
\* writes the block.
Storing(t) == tpc[t] \in {"store", "storehash"}

WinInv ==
  /\ \A t \in AllThreads :
       /\ tpc[t] = "cas" \/ Storing(t) => At(t) \in winners /\ hashed[At(t)] = 1
       /\ Storing(t) => found
       /\ tpc[t] = "storehash" => nonce = At(t)
  /\ \A t, u \in AllThreads : Storing(t) /\ Storing(u) => t = u
  /\ found => \/ nonce \in winners /\ hashed[nonce] = 1 /\ hash = nonce
              \/ \E t \in AllThreads : Storing(t)
  /\ ~found => \A n \in winners :
       hashed[n] = 0 \/ \E t \in AllThreads : tpc[t] = "cas" /\ At(t) = n

\* What a thread has hashed follows from how far it has come.
DoneInv ==
  /\ poll \in [AllThreads -> Nat] /\ bailed \in [AllThreads -> BOOLEAN]
  /\ hpc = "kernel" =>
       \A t \in Threads :
         /\ Done(t) \in Nat
         /\ Done(t) # 0 => t + stride * (Done(t) - 1) < slice
         /\ tpc[t] = "loop" => ~bailed[t] /\ idx[t] = t + stride * Done(t)

\* What the threads that have not accounted for their work leave undone so far.
Undone == [t \in AllThreads |-> IF tpc[t] = "exit" THEN 0 ELSE Expected(t) - Done(t)]

\* Every nonce enqueued is hashed, given up or still in the hands of a thread.
WorkInv ==
  /\ deficit \in Nat
  /\ MapThenSumSet(LAMBDA n : hashed[n], Nonces) + deficit
       + MapThenSumSet(LAMBDA t : Undone[t], AllThreads) = enqueued

IInv == /\ TypeInv /\ RangeInv /\ ThreadInv /\ NoneDuplicated /\ AheadInv
        /\ BehindInv /\ WinInv

=============================================================================
