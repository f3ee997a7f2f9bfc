------------------------ MODULE AlphaScanKernelProofs ------------------------
(***************************************************************************)
(* What a call of the scan kernel guarantees for every grid, slice size,   *)
(* polling interval and nonce space and every range: nothing is hashed     *)
(* twice, nothing is left out, finds are real and the reported work is     *)
(* what was hashed.  IInv is the inductive invariant.  From it every step  *)
(* is one of the abstract search (SearchStep); the account of the work     *)
(* adds DoneInv and WorkInv to it, whose sums over threads and nonces are  *)
(* taken apart with the lemmas of DataLemmas.                              *)
(*                                                                         *)
(* Then the targets the kernel is called with (AlphaNotify), for every     *)
(* base, number of limbs, SCALE and difficulty, and any sequence of lines. *)
(* The carries, limbs and remainders of scale_target_for_pool_difficulty   *)
(* are the quotients and remainders of the whole product (ScaleIs).  Each  *)
(* documented layout, token by token, makes the job it means (ReadAsMeant).*)
(* On both rests NotifyInv, whose part CaptureInv is what makes targeting  *)
(* a job again harmless: the target of the notify is captured before it is *)
(* overwritten.                                                            *)
(***************************************************************************)
EXTENDS AlphaScanKernel, AlphaNotify, DataLemmas, TLAPS

-----------------------------------------------------------------------------
(* The grid and the range.                                                 *)

\* A launch has a block, and no more than the device holds.
LEMMA Grid == ASSUME NEW n \in Nat
              PROVE  /\ GridBlocks(n) \in 1..Saturation
                     /\ BlockDim * GridBlocks(n) \in Nat \ {0}
                     /\ BlockDim * GridBlocks(n) <= BlockDim * Saturation
                     /\ BlockDim * Saturation \in Nat
<1>1. PICK need \in Int : need = (n + BlockDim - 1) \div BlockDim
  BY KernelAssumption, DivMod
<1>2. PICK m \in Int : m = Min({need, Saturation}) /\ m <= Saturation
  <2>1. Saturation \in Int
    BY KernelAssumption
  <2>2. Min({need, Saturation}) \in {need, Saturation} /\ Min({need, Saturation}) <= Saturation
    BY <2>1, MinOfTwo
  <2>3. QED
    BY <2>1, <2>2
<1>3. GridBlocks(n) = Max({1, m})
  BY <1>1, <1>2 DEF GridBlocks
<1>4. GridBlocks(n) \in 1..Saturation
  <2>1. Max({1, m}) \in {1, m} /\ Max({1, m}) >= 1
    BY MaxOfTwo
  <2>2. QED
    BY <1>2, <1>3, <2>1, KernelAssumption
<1>5. PICK g \in 1..Saturation : g = GridBlocks(n)
  BY <1>4
<1>6. PICK r \in Nat : Saturation = g + r
  <2>1. Saturation - g \in Nat /\ Saturation = g + (Saturation - g)
    BY KernelAssumption
  <2>2. QED
    BY <2>1
<1>7. BlockDim * g \in Nat /\ BlockDim * r \in Nat
  BY KernelAssumption
<1>8. BlockDim * Saturation = BlockDim * g + BlockDim * r
  BY <1>6, KernelAssumption
<1>9. BlockDim * g >= BlockDim
  BY Multiple, KernelAssumption
<1>10. QED
  BY <1>4, <1>5, <1>7, <1>8, <1>9, KernelAssumption

\* The stride of the launch that runs.
LEMMA Stride == ASSUME slice \in 0..SliceMax
                PROVE  /\ stride \in Nat \ {0} /\ stride <= BlockDim * Saturation
                       /\ Threads = 0..stride - 1 /\ Threads \subseteq AllThreads
                       /\ slice \in Nat
<1>1. slice \in Nat
  BY KernelAssumption
<1>2. /\ stride \in Nat \ {0} /\ stride <= BlockDim * Saturation
      /\ BlockDim * Saturation \in Nat
  BY <1>1, Grid DEF stride
<1>3. QED
  BY <1>1, <1>2 DEF Threads, AllThreads

\* Different numbers of the range are different nonces, and all were asked for.
LEMMA Positions == ASSUME TypeInv
                   PROVE  /\ \A i \in Int : Pos(i) \in Nonces
                          /\ \A i \in 0..nonce_count - 1 : Pos(i) \in Asked
                          /\ \A i, j \in 0..nonce_count - 1 : Pos(i) = Pos(j) => i = j
                          /\ \A n \in Asked : \E i \in 0..nonce_count - 1 : n = Pos(i)
<1>1. start_nonce \in Int /\ nonce_count \in Nat /\ nonce_count <= NonceSpace
      /\ NonceSpace \in Nat \ {0}
  BY KernelAssumption DEF TypeInv, Nonces
<1>2. ASSUME NEW i \in Int PROVE Pos(i) \in Nonces
  BY <1>1, DivMod DEF Pos, Nonces
<1>3. ASSUME NEW i \in 0..nonce_count - 1, NEW j \in 0..nonce_count - 1, Pos(i) = Pos(j)
      PROVE  i = j
  <2>1. PICK a \in Int, b \in Int : a = start_nonce + i /\ b = start_nonce + j
    BY <1>1
  <2>2. a - b < NonceSpace /\ b - a < NonceSpace /\ a % NonceSpace = b % NonceSpace
    BY <1>1, <1>3, <2>1 DEF Pos
  <2>3. a = b
    BY <1>1, <2>2, Apart
  <2>4. QED
    BY <1>1, <2>1, <2>3
<1>4. QED
  BY <1>2, <1>3 DEF Asked, Pos

\* The nonce of a thread is the one its index says.
LEMMA AtItsIndex == ASSUME TypeInv, RangeInv, NEW t \in AllThreads
                    PROVE  /\ At(t) = Pos(base + idx[t])
                           /\ base \in Nat /\ slice \in Nat /\ enqueued = base + slice
                           /\ idx[t] \in Nat /\ enqueued <= nonce_count
<1>1. /\ start_nonce \in Int /\ enqueued \in Nat /\ slice \in Nat /\ slice <= enqueued
      /\ idx[t] \in Nat /\ NonceSpace \in Nat \ {0} /\ enqueued <= nonce_count
  BY KernelAssumption DEF TypeInv, RangeInv, Nonces
<1>2. base \in Nat /\ enqueued = base + slice
  BY <1>1 DEF base
<1>3. PICK b \in Int : b = idx[t] - slice
  BY <1>1
<1>4. PICK a \in Int : a = start_nonce + enqueued
  BY <1>1
<1>5. PICK p \in Int : p = a % NonceSpace /\ (p + b) % NonceSpace = (a + b) % NonceSpace
  <2>1. a % NonceSpace \in Int
    BY <1>1, DivMod
  <2>2. ((a % NonceSpace) + b) % NonceSpace = (a + b) % NonceSpace
    BY <1>1, Shift
  <2>3. QED
    BY <2>1, <2>2
<1>6. s = p
  BY <1>4, <1>5 DEF RangeInv, Pos
<1>7. s - slice + idx[t] = p + b
  BY <1>1, <1>3, <1>6
<1>8. a + b = start_nonce + (base + idx[t])
  BY <1>1, <1>2, <1>3, <1>4
<1>9. QED
  BY <1>1, <1>2, <1>5, <1>7, <1>8 DEF At, Pos

-----------------------------------------------------------------------------
(* What the steps do.                                                      *)

\* Between two launches nothing moves the range or the threads' shares of it.
LEMMA Frozen == ASSUME UNCHANGED <<args, s, enqueued, slice>>
                PROVE  /\ stride' = stride /\ Threads' = Threads /\ base' = base
                       /\ Asked' = Asked
                       /\ \A t : Own(t)' = Own(t)
                       /\ \A i : Pos(i)' = Pos(i)
<1>1. stride' = stride
  BY DEF stride
<1>2. QED
  BY <1>1 DEF args, Threads, base, Asked, Own, Pos

\* A slice takes something and no more than there is.
LEMMA Slice == ASSUME TypeInv, remaining # 0
               PROVE  NextSlice \in 1..SliceMax /\ NextSlice <= remaining
<1>1. remaining \in Nat \ {0} /\ SliceMax \in Nat \ {0}
  BY KernelAssumption DEF TypeInv
<1>2. Min({remaining, SliceMax}) \in {remaining, SliceMax}
      /\ Min({remaining, SliceMax}) <= remaining /\ Min({remaining, SliceMax}) <= SliceMax
  BY <1>1, MinOfTwo
<1>3. QED
  BY <1>1, <1>2 DEF NextSlice

\* A thread that steps stays on its own entries, below the width of the index,
\* and passes none of them.
LEMMA NextEntry ==
  ASSUME TypeInv, NEW t \in Threads, NEW i \in 0..slice - 1, i % stride = t
  PROVE  LET j == (i + stride) % Word
         IN /\ j = i + stride /\ j \in Nat /\ j % stride = t
            /\ \A k \in Own(t) : k < j => k <= i
<1>1. /\ stride \in Nat \ {0} /\ slice \in Nat /\ i \in Nat
      /\ i + stride \in Nat /\ i + stride < Word /\ Word \in Nat \ {0}
  <2>1. /\ stride \in Nat \ {0} /\ slice \in Nat /\ slice <= SliceMax
        /\ stride <= BlockDim * Saturation
    BY Stride DEF TypeInv
  <2>2. PICK w \in Nat : w = BlockDim * Saturation
    BY KernelAssumption
  <2>3. SliceMax + w <= Word /\ SliceMax \in Nat /\ Word \in Nat
    BY <2>2, KernelAssumption
  <2>4. QED
    BY <2>1, <2>2, <2>3
<1>2. (i + stride) % Word = i + stride
  BY <1>1, Wrapping
<1>3. (i + stride) % stride = i % stride
  BY <1>1, Around
<1>4. ASSUME NEW k \in Own(t), k < i + stride, k > i PROVE FALSE
  <2>1. k \in Int /\ i \in Int /\ k - i < stride /\ i - k < stride /\ k % stride = i % stride
    BY <1>1, <1>4 DEF Own
  <2>2. k = i
    BY <1>1, <2>1, Apart, Zenon
  <2>3. QED
    BY <1>1, <1>4, <2>2
<1>5. \A k \in Own(t) : k \in Int
  BY <1>1 DEF Own
<1>6. QED
  BY <1>1, <1>2, <1>3, <1>4, <1>5

\* An entry that hashes: its nonce is one of the range, and was not hashed.
LEMMA HashEffect ==
  ASSUME IInv, hpc = "kernel", NEW t \in Threads, Hash(t)
  PROVE  /\ t \in AllThreads /\ idx[t] \in Own(t) /\ idx[t] \in 0..slice - 1
         /\ base \in Nat /\ base + idx[t] \in 0..nonce_count - 1
         /\ base + idx[t] < enqueued
         /\ At(t) = Pos(base + idx[t]) /\ At(t) \in Nonces /\ At(t) \in Asked
         /\ hashed[At(t)] = 0 /\ hashed'[At(t)] = 1
         /\ \A n \in Nonces : n # At(t) => hashed'[n] = hashed[n]
         /\ \A j \in 0..nonce_count - 1 : j # base + idx[t] => Pos(j) # At(t)
         /\ hashed' \in [Nonces -> Nat]
<1>1. t \in AllThreads /\ slice \in Nat /\ stride \in Nat \ {0}
  BY Stride DEF IInv, TypeInv
<1>2. /\ At(t) = Pos(base + idx[t]) /\ base \in Nat /\ enqueued = base + slice
      /\ idx[t] \in Nat /\ enqueued <= nonce_count
  BY <1>1, AtItsIndex DEF IInv
<1>3. idx[t] \in 0..slice - 1 /\ idx[t] % stride = t /\ tpc[t] = "loop"
  BY <1>1, <1>2 DEF Hash, IInv, ThreadInv
<1>4. idx[t] \in Own(t)
  BY <1>3 DEF Own
<1>5. nonce_count \in Nat
  BY KernelAssumption DEF IInv, TypeInv
<1>6. base + idx[t] \in 0..nonce_count - 1 /\ base + idx[t] < enqueued
  BY <1>1, <1>2, <1>3, <1>5
<1>7. At(t) \in Nonces /\ At(t) \in Asked
      /\ \A j \in 0..nonce_count - 1 : j # base + idx[t] => Pos(j) # At(t)
  BY <1>2, <1>6, Positions DEF IInv
<1>8. hashed[At(t)] = 0
  BY <1>1, <1>2, <1>3, <1>4 DEF IInv, AheadInv
<1>9. hashed \in [Nonces -> Nat] /\ hashed' = [hashed EXCEPT ![At(t)] = @ + 1]
  BY DEF Hash, IInv, TypeInv
<1>10. QED
  BY <1>1, <1>2, <1>3, <1>4, <1>6, <1>7, <1>8, <1>9

-----------------------------------------------------------------------------
(* The invariant.                                                          *)

\* The arguments of a call establish it.
LEMMA InitIInv == Init => IInv
<1> SUFFICES ASSUME Init PROVE IInv
  OBVIOUS
<1> USE DEF Init
<1>1. start_nonce \in Nat /\ NonceSpace \in Nat \ {0} /\ start_nonce < NonceSpace
  BY KernelAssumption DEF Nonces
<1>2. BlockDim * Saturation \in Nat /\ 0 \in 0..SliceMax
  BY KernelAssumption
<1>3. TypeInv
  <2>1. /\ found \in BOOLEAN /\ stale \in BOOLEAN /\ cancelled \in BOOLEAN
        /\ (stale => cancelled)
    BY Zenon
  <2>2. nonce_count \in Nat /\ nonce \in Nonces /\ hash \in Nonces
    BY <1>1, KernelAssumption DEF Nonces
  <2>3. QED
    BY <1>1, <1>2, <2>1, <2>2 DEF TypeInv
<1>4. RangeInv
  <2>1. start_nonce + 0 = start_nonce
    BY <1>1
  <2>2. s = Pos(enqueued)
    BY <1>1, <2>1, Wrapping DEF Pos
  <2>3. nonce_count \in Nat
    BY KernelAssumption
  <2>4. QED
    BY <2>2, <2>3 DEF RangeInv
<1>5. ThreadInv
  BY DEF ThreadInv
<1>6. NoneDuplicated /\ AheadInv
  BY <1>3, <1>1, Positions DEF NoneDuplicated, AheadInv, TypeInv
<1>7. BehindInv
  BY DEF BehindInv, base, Own
<1>8. WinInv
  <2>1. \A n \in winners : n \in Nonces
    BY <1>3, Positions DEF TypeInv
  <2>2. \A n \in winners : hashed[n] = 0
    BY <2>1
  <2>3. ~found /\ \A t \in AllThreads : tpc[t] = "exit"
    OBVIOUS
  <2>4. QED
    BY <2>2, <2>3 DEF WinInv, Storing
<1>9. QED
  BY <1>3, <1>4, <1>5, <1>6, <1>7, <1>8 DEF IInv

\* A step keeps the types.
LEMMA TypeStep == IInv /\ [Next]_vars => TypeInv'
<1> SUFFICES ASSUME IInv, [Next]_vars PROVE TypeInv'
  OBVIOUS
<1> USE DEF IInv, TypeInv
<1>1. CASE Launch
  <2>1. NextSlice \in 1..SliceMax /\ NextSlice <= remaining
    BY <1>1, Slice DEF Launch
  <2>2. /\ enqueued' \in Nat /\ remaining' \in Nat /\ slice' \in 0..SliceMax
    BY <1>1, <2>1, KernelAssumption DEF Launch
  <2>3. AllThreads \subseteq Nat
    BY KernelAssumption DEF AllThreads
  <2>4. /\ tpc' \in [AllThreads -> {"loop", "cas", "store", "storehash", "sum", "exit"}]
        /\ idx' \in [AllThreads -> Nat]
    BY <1>1, <2>3 DEF Launch
  <2>5. UNCHANGED <<args, result, gens, hashed>> /\ hpc' = "kernel"
    BY <1>1 DEF Launch
  <2>6. QED
    BY <2>2, <2>4, <2>5 DEF args, result, gens, Asked
<1>2. CASE Peek \/ LastSlice \/ ReadResult \/ Stale
  <2>1. stale' \in BOOLEAN /\ cancelled' \in BOOLEAN /\ (stale' => cancelled')
    <3>1. CASE Stale
      <4>1. stale' = ~stale /\ cancelled'
        BY <3>1, Zenon DEF Stale
      <4>2. QED
        BY <4>1, Zenon DEF Stale
    <3>2. CASE Peek \/ LastSlice \/ ReadResult
      <4>1. stale' = stale /\ cancelled' = cancelled
        BY <3>2, Zenon DEF Peek, LastSlice, ReadResult, gens
      <4>2. QED
        BY <4>1
    <3>3. QED
      BY <1>2, <3>1, <3>2
  <2>2. QED
    BY <1>2, <2>1 DEF Peek, LastSlice, ReadResult, Stale, args, host, result, threads, Asked
<1>3. ASSUME NEW t \in Threads, Bail(t) \/ LoopEnds(t) PROVE TypeInv'
  <2>1. t \in AllThreads
    BY <1>3, Stride
  <2>2. QED
    BY <1>3, <2>1 DEF Bail, LoopEnds, args, host, result, gens, Asked
<1>4. ASSUME hpc = "kernel", NEW t \in Threads, Hash(t) PROVE TypeInv'
  <2>1. t \in AllThreads /\ idx[t] \in 0..slice - 1 /\ idx[t] \in Own(t)
        /\ hashed' \in [Nonces -> Nat]
    BY <1>4, HashEffect
  <2>2. (idx[t] + stride) % Word \in Nat
    BY <2>1, NextEntry DEF Own
  <2>3. idx' \in [AllThreads -> Nat]
    BY <1>4, <2>1, <2>2 DEF Hash, Step
  <2>4. tpc' \in [AllThreads -> {"loop", "cas", "store", "storehash", "sum", "exit"}]
    BY <1>4, <2>1 DEF Hash
  <2>5. UNCHANGED <<args, host, result, gens>>
    BY <1>4 DEF Hash
  <2>6. QED
    BY <2>1, <2>3, <2>4, <2>5 DEF args, host, result, gens, Asked
<1>5. ASSUME NEW t \in Threads, Win(t) PROVE TypeInv'
  BY <1>5, Stride DEF Win, args, host, gens, Asked
<1>6. ASSUME NEW t \in Threads, Store(t) \/ StoreHash(t) PROVE TypeInv'
  <2>1. t \in AllThreads
    BY Stride
  <2>2. At(t) \in Nonces
    BY <2>1, AtItsIndex, Positions
  <2>3. QED
    BY <1>6, <2>1, <2>2 DEF Store, StoreHash, args, host, gens, Asked
<1>7. ASSUME NEW b \in Blocks, BlockSum(b) PROVE TypeInv'
  BY <1>7 DEF BlockSum, args, host, gens, Asked
<1>8. CASE UNCHANGED vars
  BY <1>8 DEF vars, args, host, result, gens, threads, Asked
<1>9. QED
  BY <1>1, <1>2, <1>3, <1>4, <1>5, <1>6, <1>7, <1>8 DEF Next, Host, Kernel, Returned

\* A step keeps the account of the slices.
LEMMA RangeStep == IInv /\ [Next]_vars => RangeInv'
<1> SUFFICES ASSUME IInv, [Next]_vars PROVE RangeInv'
  OBVIOUS
<1> USE DEF IInv, RangeInv
<1>1. CASE Launch
  <2>1. NextSlice \in 1..SliceMax /\ NextSlice <= remaining
    BY <1>1, Slice DEF Launch
  <2>2. /\ NextSlice \in Int /\ start_nonce \in Int /\ enqueued \in Nat /\ remaining \in Nat
        /\ NonceSpace \in Nat \ {0} /\ nonce_count \in Nat /\ NextSlice >= 1
    BY <2>1, KernelAssumption DEF TypeInv, Nonces
  <2>3. /\ enqueued' = enqueued + NextSlice /\ remaining' = remaining - NextSlice
        /\ slice' = NextSlice /\ hpc' = "kernel" /\ UNCHANGED args
        /\ s' = (s + NextSlice) % NonceSpace
    BY <1>1 DEF Launch
  <2>4. s' = Pos(enqueued)'
    <3>1. PICK a \in Int : a = start_nonce + enqueued
      BY <2>2
    <3>2. ((a % NonceSpace) + NextSlice) % NonceSpace = (a + NextSlice) % NonceSpace
      BY <2>2, Shift
    <3>3. s = a % NonceSpace
      BY <3>1 DEF Pos
    <3>4. a + NextSlice = start_nonce + enqueued'
      BY <2>2, <2>3, <3>1
    <3>5. start_nonce' = start_nonce
      BY <2>3 DEF args
    <3>6. QED
      BY <2>3, <3>2, <3>3, <3>4, <3>5 DEF Pos
  <2>5. QED
    BY <2>2, <2>3, <2>4 DEF args
<1>2. CASE Peek \/ LastSlice \/ ReadResult \/ Stale
  BY <1>2 DEF Peek, LastSlice, ReadResult, Stale, args, host, result, threads, Pos
<1>3. ASSUME NEW t \in Threads, Bail(t) \/ LoopEnds(t) \/ Hash(t) \/ Win(t) \/ Store(t) \/ StoreHash(t)
      PROVE  RangeInv'
  BY <1>3 DEF Bail, LoopEnds, Hash, Win, Store, StoreHash, args, host, result, Pos
<1>4. ASSUME NEW b \in Blocks, BlockSum(b) PROVE RangeInv'
  BY <1>4 DEF BlockSum, args, host, Pos
<1>5. CASE UNCHANGED vars
  BY <1>5 DEF vars, args, host, result, Pos
<1>6. QED
  BY <1>1, <1>2, <1>3, <1>4, <1>5 DEF Next, Host, Kernel, Returned

\* A step leaves every thread on its own entries.
LEMMA ThreadStep == IInv /\ [Next]_vars => ThreadInv'
<1> SUFFICES ASSUME IInv, [Next]_vars PROVE ThreadInv'
  OBVIOUS
<1> USE DEF IInv, ThreadInv
<1>1. CASE Launch
  <2>1. NextSlice \in 1..SliceMax
    BY <1>1, Slice DEF Launch
  <2>2. PICK w \in Nat \ {0} : w = BlockDim * GridBlocks(NextSlice)
    <3>1. NextSlice \in Nat
      BY <2>1, KernelAssumption
    <3>2. QED
      BY <3>1, Grid
  <2>3. stride' = w /\ Threads' = 0..w - 1 /\ hpc' = "kernel"
    BY <1>1, <2>2 DEF Launch, stride, Threads
  <2>4. AllThreads \subseteq Nat
    BY KernelAssumption DEF AllThreads
  <2>5. /\ \A t \in AllThreads : tpc'[t] = IF t < w THEN "loop" ELSE "exit"
        /\ idx' = [t \in AllThreads |-> t]
    BY <1>1, <2>2 DEF Launch
  <2>6. \A t \in AllThreads \ Threads' : tpc'[t] = "exit"
    BY <2>3, <2>4, <2>5
  <2>7. Threads' \subseteq AllThreads
    <3>1. /\ slice' \in 0..SliceMax
      BY <1>1, <2>1 DEF Launch
    <3>2. /\ w <= BlockDim * Saturation /\ BlockDim * Saturation \in Nat
      <4>1. NextSlice \in Nat
        BY <2>1, KernelAssumption
      <4>2. QED
        BY <2>2, <4>1, Grid
    <3>3. QED
      BY <2>3, <3>2 DEF AllThreads
  <2>8. \A t \in Threads' : idx'[t] % stride' = t
    BY <2>3, <2>5, <2>7, Wrapping
  <2>9. QED
    BY <2>3, <2>5, <2>6, <2>8
<1>2. CASE Peek \/ LastSlice \/ ReadResult
  BY <1>2 DEF Peek, LastSlice, ReadResult, KernelDone, args, host, threads
<1>3. ASSUME UNCHANGED <<hpc, slice, idx>>, NEW t \in AllThreads, NEW p,
             tpc' = [tpc EXCEPT ![t] = p], p \in {"cas", "store", "storehash"} => idx[t] < slice,
             t \in Threads, hpc = "kernel"
      PROVE  ThreadInv'
  <2>1. stride' = stride /\ Threads' = Threads
    BY <1>3 DEF stride, Threads
  <2>2. QED
    BY <1>3, <2>1 DEF TypeInv
<1>4. ASSUME hpc = "kernel", NEW t \in Threads, Bail(t) \/ LoopEnds(t) \/ Win(t) \/ Store(t) \/ StoreHash(t)
      PROVE  ThreadInv'
  <2>1. t \in AllThreads
    BY Stride DEF TypeInv
  <2>2. \E p : /\ tpc' = [tpc EXCEPT ![t] = p]
               /\ p \in {"cas", "store", "storehash"} => idx[t] < slice
    BY <1>4, <2>1 DEF Bail, LoopEnds, Win, Store, StoreHash
  <2>3. UNCHANGED <<hpc, slice, idx>>
    BY <1>4 DEF Bail, LoopEnds, Win, Store, StoreHash, host
  <2>4. QED
    BY <1>3, <1>4, <2>1, <2>2, <2>3
<1>5. ASSUME hpc = "kernel", NEW t \in Threads, Hash(t) PROVE ThreadInv'
  <2>1. t \in AllThreads /\ idx[t] \in 0..slice - 1 /\ idx[t] \in Own(t)
        /\ UNCHANGED <<args, host>>
    BY <1>5, HashEffect DEF Hash
  <2>2. CASE At(t) \in winners
    <3>1. tpc' = [tpc EXCEPT ![t] = "cas"] /\ UNCHANGED <<hpc, slice, idx>>
      BY <1>5, <2>1, <2>2 DEF Hash, host
    <3>2. idx[t] < slice
      BY <1>5 DEF Hash
    <3>3. QED
      BY <1>3, <1>5, <2>1, <3>1, <3>2
  <2>3. CASE At(t) \notin winners
    <3>1. idx' = [idx EXCEPT ![t] = (@ + stride) % Word] /\ UNCHANGED <<hpc, slice, tpc>>
      BY <1>5, <2>1, <2>3 DEF Hash, Step, host
    <3>2. stride' = stride /\ Threads' = Threads
      BY <3>1 DEF stride, Threads
    <3>3. ((idx[t] + stride) % Word) % stride = t
      BY <2>1, NextEntry DEF Own
    <3>4. tpc[t] = "loop"
      BY <1>5 DEF Hash
    <3>5. QED
      BY <1>5, <2>1, <3>1, <3>2, <3>3, <3>4 DEF TypeInv
  <2>4. QED
    BY <2>2, <2>3
<1>6. ASSUME hpc = "kernel", NEW b \in Blocks, BlockSum(b) PROVE ThreadInv'
  <2>1. /\ \A t \in AllThreads : tpc'[t] = IF t \in BlockThreads(b) THEN "exit" ELSE tpc[t]
        /\ UNCHANGED <<hpc, slice, idx>>
    BY <1>6 DEF BlockSum, host
  <2>2. stride' = stride /\ Threads' = Threads
    BY <2>1 DEF stride, Threads
  <2>3. QED
    BY <1>6, <2>1, <2>2
<1>7. CASE Stale \/ UNCHANGED vars
  <2>1. UNCHANGED <<hpc, slice, idx, tpc>>
    BY <1>7 DEF Stale, vars, host, threads
  <2>2. stride' = stride /\ Threads' = Threads
    BY <2>1 DEF stride, Threads
  <2>3. QED
    BY <2>1, <2>2
<1>8. QED
  BY <1>1, <1>2, <1>4, <1>5, <1>6, <1>7 DEF Next, Host, Kernel, Returned

\* A step hashes nothing twice, and leaves what is ahead alone.
LEMMA AheadStep == IInv /\ [Next]_vars => NoneDuplicated' /\ AheadInv'
<1> SUFFICES ASSUME IInv, [Next]_vars PROVE NoneDuplicated' /\ AheadInv'
  OBVIOUS
<1> USE DEF IInv, NoneDuplicated, AheadInv
<1>1. CASE Launch
  <2>1. NextSlice \in 1..SliceMax /\ NextSlice <= remaining
    BY <1>1, Slice DEF Launch
  <2>2. /\ NextSlice \in Nat /\ enqueued \in Nat /\ remaining \in Nat /\ nonce_count \in Nat
    BY <2>1, KernelAssumption DEF TypeInv
  <2>3. /\ enqueued' = enqueued + NextSlice /\ slice' = NextSlice
        /\ UNCHANGED <<start_nonce, nonce_count, hashed>>
    BY <1>1 DEF Launch, args
  <2>4. base' = enqueued /\ Asked' = Asked /\ \A i : Pos(i)' = Pos(i)
    BY <2>2, <2>3 DEF base, Asked, Pos
  <2>5. \A t : \A i \in Own(t)' : i \in 0..NextSlice - 1
    BY <2>3 DEF Own
  <2>6. \A i \in enqueued'..nonce_count' - 1 : hashed'[Pos(i)'] = 0
    BY <2>2, <2>3, <2>4
  <2>7. \A i \in 0..NextSlice - 1 : hashed'[Pos(base + i)'] = 0
    <3>1. SUFFICES ASSUME NEW i \in 0..NextSlice - 1
                   PROVE  hashed'[Pos(base + i)'] = 0
      OBVIOUS
    <3>2. enqueued + i \in enqueued..nonce_count - 1
      BY <2>1, <2>2, <3>1 DEF RangeInv
    <3>3. hashed[Pos(enqueued + i)] = 0
      BY <3>2
    <3>4. QED
      BY <2>3, <2>4, <3>3
  <2>8. \A n \in Nonces : hashed'[n] <= (IF n \in Asked' THEN 1 ELSE 0)
    BY <2>3, <2>4
  <2>9. QED
    BY <2>5, <2>6, <2>7, <2>8
<1>2. ASSUME UNCHANGED <<args, s, enqueued, slice, hashed>>, hpc' = "kernel" => hpc = "kernel",
             \A t \in Threads : tpc'[t] = "loop" => tpc[t] = "loop" /\ idx'[t] = idx[t]
      PROVE  NoneDuplicated' /\ AheadInv'
  <2>1. /\ Threads' = Threads /\ base' = base /\ Asked' = Asked
        /\ \A t : Own(t)' = Own(t)
        /\ \A i : Pos(i)' = Pos(i)
    BY <1>2, Frozen
  <2>2. QED
    BY <1>2, <2>1 DEF args
<1>3. CASE Peek \/ LastSlice \/ ReadResult \/ Stale \/ UNCHANGED vars
  BY <1>2, <1>3 DEF Peek, LastSlice, ReadResult, Stale, vars, args, host, threads
<1>4. ASSUME hpc = "kernel", NEW t \in Threads, Bail(t) \/ LoopEnds(t) \/ Win(t) \/ Store(t) \/ StoreHash(t)
      PROVE  NoneDuplicated' /\ AheadInv'
  <2>1. Threads \subseteq AllThreads
    BY Stride DEF TypeInv
  <2>2. QED
    BY <1>2, <1>4, <2>1 DEF Bail, LoopEnds, Win, Store, StoreHash, host, TypeInv
<1>5. ASSUME hpc = "kernel", NEW b \in Blocks, BlockSum(b)
      PROVE  NoneDuplicated' /\ AheadInv'
  <2>1. Threads \subseteq AllThreads
    BY Stride DEF TypeInv
  <2>2. QED
    BY <1>2, <1>5, <2>1 DEF BlockSum, host
<1>6. ASSUME hpc = "kernel", NEW t \in Threads, Hash(t)
      PROVE  NoneDuplicated' /\ AheadInv'
  <2>1. /\ idx[t] \in Own(t) /\ idx[t] \in 0..slice - 1 /\ t \in AllThreads
        /\ base \in Nat /\ base + idx[t] \in 0..nonce_count - 1 /\ base + idx[t] < enqueued
        /\ At(t) \in Asked /\ hashed'[At(t)] = 1
        /\ \A n \in Nonces : n # At(t) => hashed'[n] = hashed[n]
        /\ \A j \in 0..nonce_count - 1 : j # base + idx[t] => Pos(j) # At(t)
    BY <1>6, HashEffect
  <2>2. /\ Threads' = Threads /\ base' = base /\ Asked' = Asked
        /\ \A u : Own(u)' = Own(u)
        /\ \A i : Pos(i)' = Pos(i)
        /\ UNCHANGED <<args, enqueued, hpc, slice>>
    BY <1>6, Frozen DEF Hash, host
  <2>3. \A n \in Nonces : hashed'[n] <= (IF n \in Asked' THEN 1 ELSE 0)
    BY <2>1, <2>2
  <2>4. \A j \in 0..nonce_count - 1 : j # base + idx[t] => hashed'[Pos(j)] = hashed[Pos(j)]
    BY <2>1, Positions DEF TypeInv
  <2>5. nonce_count \in Nat /\ enqueued \in Nat /\ slice \in Nat /\ enqueued = base + slice
        /\ enqueued <= nonce_count
    BY <2>1, AtItsIndex, KernelAssumption DEF TypeInv
  <2>6. \A i \in enqueued..nonce_count - 1 : hashed'[Pos(i)] = 0
    BY <2>1, <2>4, <2>5
  <2>7. ASSUME NEW u \in Threads, tpc'[u] = "loop", NEW i \in Own(u), i >= idx'[u]
        PROVE  hashed'[Pos(base + i)] = 0
    <3>1. i \in 0..slice - 1 /\ i % stride = u /\ idx[t] % stride = t
      BY <2>1 DEF Own
    <3>2. i # idx[t] /\ i >= idx[u] /\ tpc[u] = "loop"
      <4>1. CASE u = t
        <5>1. At(t) \notin winners
          BY <1>6, <2>1, <2>7, <4>1 DEF Hash, TypeInv
        <5>2. idx' = [idx EXCEPT ![t] = (@ + stride) % Word]
          BY <1>6, <5>1 DEF Hash, Step
        <5>3. idx'[t] = idx[t] + stride
          BY <2>1, <3>1, <5>2, NextEntry DEF TypeInv
        <5>4. stride \in Nat \ {0} /\ idx[t] \in Nat
          BY <2>1, Stride DEF TypeInv
        <5>5. QED
          BY <1>6, <2>7, <3>1, <4>1, <5>3, <5>4 DEF Hash
      <4>2. CASE u # t
        <5>1. u \in AllThreads
          BY Stride DEF TypeInv
        <5>2. idx'[u] = idx[u] /\ tpc'[u] = tpc[u]
          BY <1>6, <2>1, <4>2, <5>1 DEF Hash, Step, TypeInv
        <5>3. QED
          BY <2>7, <3>1, <4>2, <5>2
      <4>3. QED
        BY <4>1, <4>2
    <3>3. hashed[Pos(base + i)] = 0
      BY <1>6, <3>2
    <3>4. base + i \in 0..nonce_count - 1 /\ base + i # base + idx[t]
      <4>1. i \in Nat /\ i < slice /\ idx[t] \in Nat
        BY <2>1, <2>5, <3>1
      <4>2. base + i \in 0..nonce_count - 1
        BY <2>1, <2>5, <4>1
      <4>3. base + i # base + idx[t]
        BY <2>1, <3>2, <4>1
      <4>4. QED
        BY <4>2, <4>3
    <3>5. QED
      BY <2>4, <3>3, <3>4
  <2>8. QED
    BY <2>2, <2>3, <2>6, <2>7 DEF args
<1>7. QED
  BY <1>1, <1>3, <1>4, <1>5, <1>6 DEF Next, Host, Kernel, Returned

\* Between two launches everything enqueued is behind.
LEMMA AllBehind ==
  ASSUME IInv, hpc # "kernel", ~found, ~cancelled, NEW i \in 0..enqueued - 1
  PROVE  hashed[Pos(i)] = 1
<1>1. /\ base \in Nat /\ slice \in Nat /\ enqueued = base + slice /\ stride \in Nat \ {0}
      /\ Threads = 0..stride - 1 /\ Threads \subseteq AllThreads
  BY Stride DEF IInv, TypeInv, RangeInv, base
<1>2. CASE i < base
  BY <1>1, <1>2 DEF IInv, BehindInv
<1>3. CASE i >= base
  <2>1. PICK k \in 0..slice - 1 : i = base + k
    <3>1. i - base \in 0..slice - 1 /\ i = base + (i - base)
      BY <1>1, <1>3
    <3>2. QED
      BY <3>1
  <2>2. PICK t \in Threads : k % stride = t
    <3>1. k \in Int
      BY <1>1
    <3>2. k % stride \in 0..stride - 1
      BY <1>1, <3>1, DivMod
    <3>3. QED
      BY <1>1, <3>2
  <2>3. k \in Own(t) /\ tpc[t] = "exit"
    BY <1>1, <2>2 DEF Own, IInv, ThreadInv
  <2>4. QED
    BY <2>1, <2>3 DEF IInv, BehindInv
<1>4. QED
  BY <1>1, <1>2, <1>3

\* A step leaves nothing out.
LEMMA BehindStep == IInv /\ [Next]_vars => BehindInv'
<1> SUFFICES ASSUME IInv, [Next]_vars, ~found', ~cancelled'
             PROVE  /\ \A i \in 0..base' - 1 : hashed'[Pos(i)'] = 1
                    /\ \A t \in Threads' : \A i \in Own(t)' :
                         i < idx'[t] \/ tpc'[t] \in {"sum", "exit"}
                           => hashed'[Pos(base + i)'] = 1
  BY DEF BehindInv
<1>1. CASE Launch
  <2>1. NextSlice \in 1..SliceMax /\ NextSlice \in Nat
    BY <1>1, Slice, KernelAssumption DEF Launch, IInv
  <2>2. /\ enqueued' = enqueued + NextSlice /\ slice' = NextSlice /\ hpc = "launch"
        /\ UNCHANGED <<start_nonce, nonce_count, hashed, found, cancelled>>
    BY <1>1 DEF Launch, args, result, gens
  <2>3. enqueued \in Nat
    BY DEF IInv, TypeInv
  <2>4. base' = enqueued /\ \A i : Pos(i)' = Pos(i)
    BY <2>1, <2>2, <2>3 DEF base, Pos
  <2>5. \A i \in 0..base' - 1 : hashed'[Pos(i)'] = 1
    BY <2>2, <2>4, AllBehind
  <2>6. ASSUME NEW t \in Threads', NEW i \in Own(t)'
        PROVE  ~(i < idx'[t]) /\ tpc'[t] \notin {"sum", "exit"}
    <3>1. PICK w \in Nat \ {0} : /\ w = BlockDim * GridBlocks(NextSlice)
                                 /\ w <= BlockDim * Saturation
      BY <2>1, Grid
    <3>2. stride' = w /\ t \in 0..w - 1 /\ t \in AllThreads
      <4>1. stride' = w
        BY <2>2, <3>1 DEF stride
      <4>2. t \in 0..w - 1
        BY <4>1 DEF Threads
      <4>3. BlockDim * Saturation \in Nat
        BY KernelAssumption
      <4>4. QED
        BY <3>1, <4>1, <4>2, <4>3 DEF AllThreads
    <3>3. idx'[t] = t /\ tpc'[t] = "loop"
      BY <1>1, <3>1, <3>2 DEF Launch
    <3>4. i \in Nat /\ i % w = t
      BY <2>1, <2>2, <3>2 DEF Own
    <3>5. ~(i < t)
      BY <3>2, <3>4, Wrapping
    <3>6. QED
      BY <3>3, <3>5
  <2>7. QED
    BY <2>5, <2>6
<1>2. ASSUME UNCHANGED <<args, s, enqueued, slice, hashed, idx>>, ~found, ~cancelled,
             \A t \in Threads : tpc'[t] \in {"sum", "exit"} =>
               tpc[t] \in {"sum", "exit"} \/ idx[t] >= slice
      PROVE  /\ \A i \in 0..base' - 1 : hashed'[Pos(i)'] = 1
             /\ \A t \in Threads' : \A i \in Own(t)' :
                  i < idx'[t] \/ tpc'[t] \in {"sum", "exit"} => hashed'[Pos(base + i)'] = 1
  <2>1. /\ Threads' = Threads /\ base' = base
        /\ \A t : Own(t)' = Own(t)
        /\ \A i : Pos(i)' = Pos(i)
    BY <1>2, Frozen
  <2>2. \A t \in Threads : \A i \in Own(t) : idx[t] >= slice => i < idx[t]
    <3>1. \A t \in Threads : t \in AllThreads
      BY Stride DEF IInv, TypeInv
    <3>2. slice \in Nat /\ \A t \in Threads : idx[t] \in Nat
      BY <3>1, Stride DEF IInv, TypeInv
    <3>3. QED
      BY <3>2 DEF Own
  <2>3. QED
    BY <1>2, <2>1, <2>2 DEF IInv, BehindInv
<1>3. CASE Peek \/ LastSlice \/ ReadResult \/ UNCHANGED vars
  BY <1>2, <1>3 DEF Peek, LastSlice, ReadResult, vars, args, host, result, gens, threads
<1>4. CASE Stale
  BY <1>4 DEF Stale
<1>5. ASSUME NEW t \in Threads, Bail(t) \/ Win(t) \/ Store(t) \/ StoreHash(t)
      PROVE  FALSE
  <2>1. t \in AllThreads
    BY Stride DEF IInv, TypeInv
  <2>2. CASE Bail(t)
    BY <2>2 DEF Bail, Bails, result, gens, IInv, TypeInv
  <2>3. CASE Win(t)
    BY <2>3 DEF Win
  <2>4. CASE Store(t) \/ StoreHash(t)
    BY <2>1, <2>4 DEF Store, StoreHash, IInv, WinInv, Storing
  <2>5. QED
    BY <1>5, <2>2, <2>3, <2>4
<1>6. ASSUME NEW t \in Threads, LoopEnds(t)
      PROVE  /\ \A i \in 0..base' - 1 : hashed'[Pos(i)'] = 1
             /\ \A u \in Threads' : \A i \in Own(u)' :
                  i < idx'[u] \/ tpc'[u] \in {"sum", "exit"} => hashed'[Pos(base + i)'] = 1
  <2>1. Threads \subseteq AllThreads
    BY Stride DEF IInv, TypeInv
  <2>2. /\ UNCHANGED <<args, s, enqueued, slice, hashed, idx>> /\ ~found /\ ~cancelled
        /\ idx[t] >= slice /\ tpc' = [tpc EXCEPT ![t] = "sum"]
    BY <1>6 DEF LoopEnds, host, result, gens
  <2>3. \A u \in Threads : tpc'[u] \in {"sum", "exit"} =>
          tpc[u] \in {"sum", "exit"} \/ idx[u] >= slice
    BY <2>1, <2>2 DEF IInv, TypeInv
  <2>4. QED
    BY <1>2, <2>2, <2>3
<1>7. ASSUME NEW b \in Blocks, BlockSum(b)
      PROVE  /\ \A i \in 0..base' - 1 : hashed'[Pos(i)'] = 1
             /\ \A u \in Threads' : \A i \in Own(u)' :
                  i < idx'[u] \/ tpc'[u] \in {"sum", "exit"} => hashed'[Pos(base + i)'] = 1
  <2>1. Threads \subseteq AllThreads
    BY Stride DEF IInv, TypeInv
  <2>2. UNCHANGED <<args, s, enqueued, slice, hashed, idx>> /\ ~found /\ ~cancelled
    BY <1>7 DEF BlockSum, host, gens
  <2>3. \A u \in Threads : tpc'[u] \in {"sum", "exit"} => tpc[u] \in {"sum", "exit"}
    BY <1>7, <2>1 DEF BlockSum
  <2>4. QED
    BY <1>2, <2>2, <2>3
<1>8. ASSUME hpc = "kernel", NEW t \in Threads, Hash(t)
      PROVE  /\ \A i \in 0..base' - 1 : hashed'[Pos(i)'] = 1
             /\ \A u \in Threads' : \A i \in Own(u)' :
                  i < idx'[u] \/ tpc'[u] \in {"sum", "exit"} => hashed'[Pos(base + i)'] = 1
  <2>1. /\ idx[t] \in Own(t) /\ idx[t] \in 0..slice - 1 /\ t \in AllThreads
        /\ base \in Nat /\ base + idx[t] \in 0..nonce_count - 1
        /\ At(t) = Pos(base + idx[t]) /\ hashed'[At(t)] = 1
        /\ \A n \in Nonces : n # At(t) => hashed'[n] = hashed[n]
    BY <1>8, HashEffect
  <2>2. /\ Threads' = Threads /\ base' = base
        /\ \A u : Own(u)' = Own(u)
        /\ \A i : Pos(i)' = Pos(i)
        /\ ~found /\ ~cancelled
    BY <1>8, Frozen DEF Hash, host, result, gens
  <2>3. \A i \in Int : Pos(i) = At(t) \/ hashed[Pos(i)] = 1 => hashed'[Pos(i)] = 1
    BY <2>1, Positions DEF IInv
  <2>4. \A i \in 0..base - 1 : hashed'[Pos(i)] = 1
    BY <2>1, <2>2, <2>3 DEF IInv, BehindInv
  <2>5. ASSUME NEW u \in Threads, NEW i \in Own(u), i < idx'[u] \/ tpc'[u] \in {"sum", "exit"}
        PROVE  i = idx[t] \/ i < idx[u] \/ tpc[u] \in {"sum", "exit"}
    <3>1. CASE u # t
      <4>1. u \in AllThreads
        BY Stride DEF IInv, TypeInv
      <4>2. idx'[u] = idx[u] /\ tpc'[u] = tpc[u]
        BY <1>8, <2>1, <3>1, <4>1 DEF Hash, Step, IInv, TypeInv
      <4>3. QED
        BY <2>5, <4>2
    <3>2. CASE u = t
      <4>1. tpc[t] = "loop" /\ tpc'[t] \notin {"sum", "exit"}
        BY <1>8, <2>1 DEF Hash, IInv, TypeInv
      <4>2. CASE idx' = idx
        BY <2>5, <3>2, <4>1, <4>2
      <4>3. CASE idx' = [idx EXCEPT ![t] = (@ + stride) % Word]
        <5>1. idx[t] % stride = t /\ idx[t] \in Nat /\ i \in Int
          BY <2>1 DEF Own, IInv, TypeInv
        <5>2. idx'[t] = (idx[t] + stride) % Word
          BY <2>1, <4>3 DEF IInv, TypeInv
        <5>3. i <= idx[t]
          BY <2>1, <2>5, <3>2, <4>1, <5>1, <5>2, NextEntry DEF IInv
        <5>4. QED
          BY <3>2, <5>1, <5>3
      <4>4. QED
        BY <1>8, <4>2, <4>3 DEF Hash, Step
    <3>3. QED
      BY <3>1, <3>2
  <2>6. ASSUME NEW u \in Threads, NEW i \in Own(u), i < idx'[u] \/ tpc'[u] \in {"sum", "exit"}
        PROVE  hashed'[Pos(base + i)] = 1
    <3>1. base + i \in Int
      <4>1. i \in Int
        BY Stride DEF Own, IInv, TypeInv
      <4>2. QED
        BY <2>1, <4>1
    <3>2. i = idx[t] \/ i < idx[u] \/ tpc[u] \in {"sum", "exit"}
      BY <2>5, <2>6
    <3>3. Pos(base + i) = At(t) \/ hashed[Pos(base + i)] = 1
      BY <2>1, <2>2, <3>2 DEF IInv, BehindInv
    <3>4. QED
      BY <2>3, <3>1, <3>3
  <2>7. QED
    BY <2>2, <2>4, <2>6
<1>9. QED
  BY <1>1, <1>3, <1>4, <1>5, <1>6, <1>7, <1>8 DEF Next, Host, Kernel, Returned

\* A step loses no winner and invents none.
LEMMA WinStep == IInv /\ [Next]_vars => WinInv'
<1> SUFFICES ASSUME IInv, [Next]_vars PROVE WinInv'
  OBVIOUS
<1>1. CASE Launch
  <2>1. /\ \A t \in AllThreads : tpc[t] = "exit" /\ tpc'[t] \in {"loop", "exit"}
        /\ UNCHANGED <<found, nonce, hash, winners, hashed>>
    BY <1>1 DEF Launch, args, result, IInv, ThreadInv
  <2>2. found => nonce \in winners /\ hashed[nonce] = 1 /\ hash = nonce
    BY <2>1 DEF IInv, WinInv, Storing
  <2>3. ~found => \A n \in winners : hashed[n] = 0
    BY <2>1 DEF IInv, WinInv
  <2>4. QED
    BY <2>1, <2>2, <2>3 DEF WinInv, Storing
<1> DEFINE Won(p) == p \in {"cas", "store", "storehash"}
<1>2. ASSUME UNCHANGED <<s, slice, winners, hashed, found, nonce, hash>>,
             \A t \in AllThreads : /\ Won(tpc[t]) \/ Won(tpc'[t]) => tpc'[t] = tpc[t]
                                   /\ Won(tpc[t]) => idx'[t] = idx[t]
      PROVE  WinInv'
  <2>1. \A t \in AllThreads : Won(tpc[t]) => At(t)' = At(t)
    BY <1>2 DEF At
  <2>2. QED
    BY <1>2, <2>1 DEF IInv, WinInv, Storing
<1>3. CASE Peek \/ LastSlice \/ ReadResult \/ Stale \/ UNCHANGED vars
  BY <1>2, <1>3 DEF Peek, LastSlice, ReadResult, Stale, vars, args, host, result, threads
<1>4. ASSUME NEW t \in Threads, Bail(t) \/ LoopEnds(t) PROVE WinInv'
  <2>1. t \in AllThreads
    BY Stride DEF IInv, TypeInv
  <2>2. QED
    BY <1>2, <1>4, <2>1 DEF Bail, LoopEnds, args, host, result, IInv, TypeInv
<1>5. ASSUME NEW b \in Blocks, BlockSum(b) PROVE WinInv'
  <2>1. UNCHANGED <<s, slice, winners, hashed, found, nonce, hash, idx>>
    BY <1>5 DEF BlockSum, args, host
  <2>2. \A t \in AllThreads : Won(tpc[t]) \/ Won(tpc'[t]) => tpc'[t] = tpc[t]
    <3>1. Threads \subseteq AllThreads
      BY Stride DEF IInv, TypeInv
    <3>2. \A t \in BlockThreads(b) : tpc[t] = "sum"
      BY <1>5 DEF BlockSum
    <3>3. \A t \in AllThreads : tpc'[t] = IF t \in BlockThreads(b) THEN "exit" ELSE tpc[t]
      BY <1>5 DEF BlockSum
    <3>4. QED
      BY <3>2, <3>3
  <2>3. QED
    BY <1>2, <2>1, <2>2
<1>6. ASSUME hpc = "kernel", NEW t \in Threads, Hash(t) PROVE WinInv'
  <2>1. /\ t \in AllThreads /\ At(t) \in Nonces
        /\ hashed[At(t)] = 0 /\ hashed'[At(t)] = 1
        /\ \A n \in Nonces : n # At(t) => hashed'[n] = hashed[n]
    BY <1>6, HashEffect
  <2>2. UNCHANGED <<s, slice, winners, found, nonce, hash>> /\ tpc[t] = "loop"
    BY <1>6 DEF Hash, args, host, result
  <2>3. \A u \in AllThreads \ {t} : /\ tpc'[u] = tpc[u] /\ idx'[u] = idx[u]
                                    /\ At(u)' = At(u)
    <3>1. \A u \in AllThreads \ {t} : tpc'[u] = tpc[u] /\ idx'[u] = idx[u]
      BY <1>6, <2>1 DEF Hash, Step, IInv, TypeInv
    <3>2. QED
      BY <2>2, <3>1 DEF At
  <2>4. \A n \in winners : n \in Nonces
    BY Positions DEF IInv, TypeInv
  <2>5. \A n \in winners : hashed[n] = 1 => hashed'[n] = 1
    BY <2>1, <2>4
  <2>6. CASE At(t) \in winners
    <3>1. tpc'[t] = "cas" /\ At(t)' = At(t)
      <4>1. tpc'[t] = "cas" /\ idx' = idx
        BY <1>6, <2>1, <2>6 DEF Hash, IInv, TypeInv
      <4>2. QED
        BY <2>2, <4>1 DEF At
    <3>2. \A u \in AllThreads :
            /\ Won(tpc'[u]) => At(u)' \in winners' /\ hashed'[At(u)'] = 1
            /\ Storing(u)' => Storing(u) /\ found'
            /\ tpc'[u] = "storehash" => nonce' = At(u)'
            /\ Storing(u) => Storing(u)'
      BY <2>1, <2>2, <2>3, <2>5, <2>6, <3>1 DEF IInv, WinInv, Storing
    <3>3. found' => \/ nonce' \in winners' /\ hashed'[nonce'] = 1 /\ hash' = nonce'
                    \/ \E u \in AllThreads : Storing(u)'
      BY <2>2, <2>5, <3>2 DEF IInv, WinInv
    <3>4. ~found' => \A n \in winners' :
            hashed'[n] = 0 \/ \E u \in AllThreads : tpc'[u] = "cas" /\ At(u)' = n
      BY <2>1, <2>2, <2>3, <2>4, <3>1 DEF IInv, WinInv
    <3>5. \A u, v \in AllThreads : Storing(u)' /\ Storing(v)' => u = v
      BY <3>2 DEF IInv, WinInv
    <3>6. QED
      BY <3>2, <3>3, <3>4, <3>5 DEF WinInv, Storing
  <2>7. CASE At(t) \notin winners
    <3>1. tpc'[t] = "loop"
      BY <1>6, <2>1, <2>7 DEF Hash, IInv, TypeInv
    <3>2. \A n \in winners : hashed'[n] = hashed[n]
      BY <2>1, <2>4, <2>7
    <3>3. \A u \in AllThreads :
            /\ Won(tpc'[u]) => At(u)' \in winners' /\ hashed'[At(u)'] = 1
            /\ Storing(u)' => Storing(u) /\ found'
            /\ tpc'[u] = "storehash" => nonce' = At(u)'
            /\ Storing(u) => Storing(u)'
      BY <2>2, <2>3, <3>1, <3>2 DEF IInv, WinInv, Storing
    <3>4. found' => \/ nonce' \in winners' /\ hashed'[nonce'] = 1 /\ hash' = nonce'
                    \/ \E u \in AllThreads : Storing(u)'
      BY <2>2, <3>2, <3>3 DEF IInv, WinInv
    <3>5. ~found' => \A n \in winners' :
            hashed'[n] = 0 \/ \E u \in AllThreads : tpc'[u] = "cas" /\ At(u)' = n
      BY <2>2, <2>3, <3>2 DEF IInv, WinInv
    <3>6. \A u, v \in AllThreads : Storing(u)' /\ Storing(v)' => u = v
      BY <3>3 DEF IInv, WinInv
    <3>7. QED
      BY <3>3, <3>4, <3>5, <3>6 DEF WinInv, Storing
  <2>8. QED
    BY <2>6, <2>7
<1>7. ASSUME NEW t \in Threads, Win(t) \/ Store(t) \/ StoreHash(t) PROVE WinInv'
  <2>1. t \in AllThreads
    BY Stride DEF IInv, TypeInv
  <2>2. UNCHANGED <<s, slice, winners, hashed, idx>> /\ found'
    BY <1>7, <2>1 DEF Win, Store, StoreHash, args, host, IInv, WinInv, Storing
  <2>3. \A u \in AllThreads : At(u)' = At(u)
    BY <2>2 DEF At
  <2>4. \A u \in AllThreads \ {t} : tpc'[u] = tpc[u]
    BY <1>7, <2>1 DEF Win, Store, StoreHash, IInv, TypeInv
  <2>5. At(t) \in winners /\ hashed[At(t)] = 1
    BY <1>7, <2>1 DEF Win, Store, StoreHash, IInv, WinInv, Storing
  <2>6. CASE Win(t)
    <3>1. tpc[t] = "cas" /\ tpc'[t] = (IF found THEN "sum" ELSE "store")
          /\ nonce' = nonce /\ hash' = hash
      BY <2>1, <2>6 DEF Win, IInv, TypeInv
    <3>2. \/ nonce' \in winners' /\ hashed'[nonce'] = 1 /\ hash' = nonce'
          \/ \E u \in AllThreads : Storing(u)'
      BY <2>1, <2>2, <2>4, <3>1 DEF IInv, WinInv, Storing
    <3>3. \A u, v \in AllThreads : Storing(u)' /\ Storing(v)' => u = v
      BY <2>1, <2>4, <3>1 DEF IInv, WinInv, Storing
    <3>4. QED
      BY <2>1, <2>2, <2>3, <2>4, <2>5, <3>1, <3>2, <3>3 DEF IInv, WinInv, Storing
  <2>7. CASE Store(t)
    <3>1. tpc[t] = "store" /\ tpc'[t] = "storehash" /\ nonce' = At(t)
      BY <2>1, <2>7 DEF Store, IInv, TypeInv
    <3>2. \A u \in AllThreads : Storing(u)' <=> u = t
      BY <2>1, <2>4, <3>1 DEF IInv, WinInv, Storing
    <3>3. QED
      BY <2>1, <2>2, <2>3, <2>4, <2>5, <3>1, <3>2 DEF IInv, WinInv, Storing
  <2>8. CASE StoreHash(t)
    <3>1. tpc[t] = "storehash" /\ tpc'[t] = "sum" /\ nonce' = nonce /\ hash' = At(t)
      BY <2>1, <2>8 DEF StoreHash, IInv, TypeInv
    <3>2. \A u \in AllThreads : ~Storing(u)'
      BY <2>1, <2>4, <3>1 DEF IInv, WinInv, Storing
    <3>3. nonce = At(t)
      BY <2>1, <3>1 DEF IInv, WinInv
    <3>4. QED
      BY <2>1, <2>2, <2>3, <2>4, <2>5, <3>1, <3>2, <3>3 DEF IInv, WinInv, Storing
  <2>9. QED
    BY <1>7, <2>6, <2>7, <2>8
<1>8. QED
  BY <1>1, <1>3, <1>4, <1>5, <1>6, <1>7 DEF Next, Host, Kernel, Returned

-----------------------------------------------------------------------------
(* The theorems.                                                           *)

\* The invariant holds in every call.
THEOREM Invariance == Spec => []IInv
<1>1. Init => IInv
  BY InitIInv
<1>2. IInv /\ [Next]_vars => IInv'
  BY TypeStep, RangeStep, ThreadStep, AheadStep, BehindStep, WinStep DEF IInv
<1>3. QED
  BY <1>1, <1>2, PTL DEF Spec

\* For every grid, slice size and range: the threads and slices of a call never
\* hash a nonce twice, nor one outside the range
\* (alphanumeric_cuda_backend.cu:128-172, 388-410).
THEOREM NothingTwice == Spec => []NoneDuplicated
<1>1. IInv => NoneDuplicated
  BY DEF IInv
<1>2. QED
  BY <1>1, Invariance, PTL

\* A call that returns without a find and was not cancelled has hashed the whole
\* range, however it was cut into slices and strides.
THEOREM NothingSkipped == Spec => []NoneSkipped
<1>1. IInv => NoneSkipped
  <2> SUFFICES ASSUME IInv, hpc = "done", ~found, ~cancelled, NEW n \in Asked
               PROVE  hashed[n] = 1
    BY DEF NoneSkipped
  <2>1. PICK i \in 0..nonce_count - 1 : n = Pos(i)
    BY Positions DEF IInv
  <2>2. enqueued = nonce_count
    BY KernelAssumption DEF IInv, TypeInv, RangeInv
  <2>3. QED
    BY <2>1, <2>2, AllBehind
<1>2. QED
  BY <1>1, Invariance, PTL

\* A reported find is a nonce this call has hashed and that meets the target,
\* and the hash reported with it is its own, whoever else found one, and
\* whatever the result block held before (alphanumeric_cuda_backend.cu:163-169).
THEOREM RealFinds == Spec => []FindIsReal
<1>1. IInv => FindIsReal
  BY DEF IInv, ThreadInv, WinInv, Storing, FindIsReal
<1>2. QED
  BY <1>1, Invariance, PTL

-----------------------------------------------------------------------------
(* The abstract search.                                                    *)

\* At the end of a call no thread runs; the host has its answer.
LEMMA AtTheEnd ==
  ASSUME IInv, hpc \in {"read", "done"}
  PROVE  /\ found => nonce \in Tried \cap winners
         /\ ~found => Tried \cap winners = {} /\ (cancelled \/ Tried = Asked)
<1>1. \A t \in AllThreads : tpc[t] = "exit"
  BY DEF IInv, ThreadInv
<1>2. ASSUME found PROVE nonce \in Tried \cap winners
  BY <1>1, <1>2 DEF IInv, TypeInv, WinInv, Storing, Tried
<1>3. ASSUME ~found PROVE Tried \cap winners = {}
  BY <1>1, <1>3 DEF IInv, WinInv, Tried
<1>4. ASSUME ~found, ~cancelled PROVE Tried = Asked
  <2>1. enqueued = nonce_count
    BY <1>4, KernelAssumption DEF IInv, TypeInv, RangeInv
  <2>2. ASSUME NEW n \in Asked PROVE n \in Nonces /\ hashed[n] = 1
    <3>1. PICK i \in 0..nonce_count - 1 : n = Pos(i)
      BY Positions DEF IInv
    <3>2. n \in Nonces
      BY <3>1, Positions DEF IInv
    <3> QED
      BY <1>4, <2>1, <3>1, <3>2, AllBehind
  <2>3. ASSUME NEW n \in Tried PROVE n \in Asked
    BY <2>3 DEF IInv, NoneDuplicated, TypeInv, Tried
  <2> QED
    BY <2>2, <2>3 DEF Tried
<1> QED
  BY <1>2, <1>3, <1>4

\* A thread that hashes tries a nonce of the call for the first time.
LEMMA HashTries ==
  ASSUME IInv, hpc = "kernel", NEW t \in Threads, Hash(t)
  PROVE  /\ At(t) \in Asked \ Tried
         /\ Tried' = Tried \cup {At(t)}
         /\ (Tried \cap winners)' \in {Tried \cap winners, (Tried \cap winners) \cup {At(t)}}
<1>1. /\ At(t) \in Nonces /\ At(t) \in Asked
      /\ hashed[At(t)] = 0 /\ hashed'[At(t)] = 1
      /\ \A n \in Nonces : n # At(t) => hashed'[n] = hashed[n]
  BY HashEffect
<1>2. At(t) \notin Tried
  BY <1>1 DEF Tried
<1>3. Tried' = Tried \cup {At(t)}
  BY <1>1 DEF Tried
<1>4. winners' = winners
  BY DEF Hash, args
<1> QED
  BY <1>1, <1>2, <1>3, <1>4

\* Every step of the host and the threads is a try, a cancel, an answer, or
\* invisible to the search.
LEMMA SearchStep == IInv /\ [Next]_vars => [Search!Next]_(Search!search)
<1> SUFFICES ASSUME IInv, [Next]_vars PROVE Search!Next \/ UNCHANGED Search!search
  OBVIOUS
<1>1. ASSUME hpc # "done", hpc' # "done", UNCHANGED <<args, gens, hashed>>
      PROVE  UNCHANGED Search!search
  <2>1. Asked' = Asked /\ Tried' = Tried /\ winners' = winners
    BY <1>1 DEF args, Asked, Tried
  <2> QED
    BY <1>1, <2>1 DEF gens, Search!search
<1>2. CASE Launch \/ Peek \/ LastSlice
  <2>1. hpc # "done" /\ hpc' # "done" /\ UNCHANGED <<args, gens, hashed>>
    BY <1>2 DEF Launch, Peek, LastSlice, KernelDone
  <2> QED
    BY <1>1, <2>1
<1>3. CASE ReadResult
  <2>1. /\ hpc = "read" /\ hpc' = "done"
        /\ Asked' = Asked /\ Tried' = Tried /\ winners' = winners
        /\ cancelled' = cancelled /\ found' = found /\ nonce' = nonce
    BY <1>3 DEF ReadResult, args, result, gens, Asked, Tried
  <2>2. CASE found
    <3>1. nonce \in Tried \cap winners
      BY <2>1, <2>2, AtTheEnd
    <3>2. Search!AnswerFind
      BY <2>1, <2>2, <3>1 DEF Search!AnswerFind
    <3> QED
      BY <3>2 DEF Search!Next
  <2>3. CASE ~found
    <3>1. Tried \cap winners = {} /\ (cancelled \/ Tried = Asked)
      BY <2>1, <2>3, AtTheEnd
    <3>2. Search!AnswerNone
      BY <2>1, <2>3, <3>1 DEF Search!AnswerNone
    <3> QED
      BY <3>2 DEF Search!Next
  <2> QED
    BY <2>2, <2>3
<1>4. CASE Stale
  <2>1. /\ hpc # "done" /\ hpc' = hpc /\ cancelled'
        /\ Asked' = Asked /\ Tried' = Tried /\ winners' = winners
    BY <1>4 DEF Stale, args, host, Asked, Tried
  <2>2. Search!Cancel
    BY <2>1 DEF Search!Cancel
  <2> QED
    BY <2>2 DEF Search!Next
<1>5. ASSUME hpc = "kernel", NEW t \in Threads, Hash(t)
      PROVE  Search!Next
  <2>1. /\ At(t) \in Asked \ Tried /\ Tried' = Tried \cup {At(t)}
        /\ (Tried \cap winners)' \in {Tried \cap winners, (Tried \cap winners) \cup {At(t)}}
    BY <1>5, HashTries
  <2>2. hpc' = hpc /\ Asked' = Asked /\ cancelled' = cancelled
    BY <1>5 DEF Hash, args, host, gens, Asked
  <2>3. Search!Try
    BY <1>5, <2>1, <2>2 DEF Search!Try
  <2> QED
    BY <2>3 DEF Search!Next
<1>6. ASSUME hpc = "kernel", NEW t \in Threads, Bail(t) \/ LoopEnds(t) \/ Win(t) \/ Store(t) \/ StoreHash(t)
      PROVE  UNCHANGED Search!search
  <2>1. hpc' = hpc /\ UNCHANGED <<args, gens, hashed>>
    BY <1>6 DEF Bail, LoopEnds, Win, Store, StoreHash, host
  <2> QED
    BY <1>1, <1>6, <2>1
<1>7. ASSUME hpc = "kernel", NEW b \in Blocks, BlockSum(b)
      PROVE  UNCHANGED Search!search
  <2>1. hpc' = hpc /\ UNCHANGED <<args, gens, hashed>>
    BY <1>7 DEF BlockSum, host
  <2> QED
    BY <1>1, <1>7, <2>1
<1>8. CASE UNCHANGED vars
  <2>1. UNCHANGED <<hpc, args, gens, hashed, found, nonce>>
    BY <1>8 DEF vars, host, result
  <2>2. Asked' = Asked /\ Tried' = Tried /\ winners' = winners
    BY <2>1 DEF args, Asked, Tried
  <2> QED
    BY <2>1, <2>2 DEF gens, Search!search
<1> QED
  BY <1>2, <1>3, <1>4, <1>5, <1>6, <1>7, <1>8 DEF Next, Host, Kernel, Returned

\* A call of the kernel implements the abstract search, for every grid, slice
\* size, polling interval and range, whenever it is cancelled.
THEOREM SearchSafety == Spec => SearchSpec
<1>1. Init => Search!Init
  <2> SUFFICES ASSUME Init PROVE Search!Init
    OBVIOUS
  <2>1. hpc # "done" /\ ~cancelled /\ Tried = {}
    BY DEF Init, Tried
  <2> QED
    BY <2>1 DEF Search!Init, Search!NothingYet
<1> QED
  BY <1>1, SearchStep, Invariance, PTL DEF Spec, SearchSpec, Search!Spec

-----------------------------------------------------------------------------
(* The account of the work.                                                *)

\* The sums are over finite sets.
LEMMA Finite == IsFiniteSet(Nonces) /\ IsFiniteSet(AllThreads)
<1>1. /\ 0 \in Int /\ NonceSpace - 1 \in Int /\ BlockDim * Saturation - 1 \in Int
  BY KernelAssumption
<1>2. IsFiniteSet(0..NonceSpace - 1) /\ IsFiniteSet(0..BlockDim * Saturation - 1)
  BY <1>1, FS_Interval
<1> QED
  BY <1>2 DEF Nonces, AllThreads

\* Thread t's share of n entries dealt out in turn to m threads.
Share(t, n, m) == IF t < n THEN (n - 1 - t) \div m + 1 ELSE 0

\* A share is a number.
LEMMA ShareInt == ASSUME NEW m \in Nat \ {0}, NEW n \in Nat, NEW t \in Nat
                  PROVE  Share(t, n, m) \in Int
<1>1. n - 1 - t \in Int
  OBVIOUS
<1> QED
  BY <1>1, DivMod DEF Share

\* One more entry goes to one thread.
LEMMA NextShare ==
  ASSUME NEW m \in Nat \ {0}, NEW n \in Nat, NEW t \in 0..m - 1
  PROVE  Share(t, n + 1, m) = IF t = n % m THEN Share(t, n, m) + 1 ELSE Share(t, n, m)
<1>1. CASE t > n
  <2>1. n % m = n
    BY <1>1, Wrapping
  <2> QED
    BY <1>1, <2>1 DEF Share
<1>2. CASE t = n
  <2>1. n % m = n
    BY <1>2, Wrapping
  <2>2. n + 1 - 1 - t = 0 /\ 0 \div m = 0
    BY <1>2
  <2> QED
    BY <1>2, <2>1, <2>2 DEF Share
<1>3. CASE t < n
  <2>1. PICK a \in Nat : a = n - 1 - t
    BY <1>3
  <2>2. n + 1 - 1 - t = a + 1
    BY <2>1
  <2>3. (a + 1) \div m = IF (a + 1) % m = 0 THEN a \div m + 1 ELSE a \div m
    BY NextQuotient
  <2>4. (a + 1) % m = 0 <=> t = n % m
    <3>1. PICK q \in Int, r \in 0..m - 1 : r = (a + 1) % m /\ a + 1 = m * q + r
      <4> a + 1 \in Int
        OBVIOUS
      <4> QED
        BY Division
    <3>2. PICK p \in Int, k \in 0..m - 1 : k = n % m /\ n = m * p + k
      <4> n \in Int
        OBVIOUS
      <4> QED
        BY Division
    <3>3. n = m * q + r + t
      BY <2>1, <3>1
    <3>4. ASSUME r = 0 PROVE t = k
      <4>1. PICK x \in Int, y \in Int : x = m * q /\ y = m * p
        OBVIOUS
      <4>3. n = x + r + t /\ n = y + k
        BY <3>2, <3>3, <4>1, Zenon
      <4>2. x + t = y + k
        BY <3>4, <4>3
      <4> QED
        BY <4>1, <4>2, Remainder
    <3>5. ASSUME t = k PROVE r = 0
      <4>1. PICK x \in Int, y \in Int : x = m * q /\ y = m * p
        OBVIOUS
      <4>3. n = x + r + t /\ n = y + k
        BY <3>2, <3>3, <4>1, Zenon
      <4>2. x + r = y + 0 /\ 0 \in 0..m - 1
        BY <3>5, <4>3
      <4> QED
        BY <4>1, <4>2, Remainder
    <3> QED
      BY <3>1, <3>2, <3>4, <3>5
  <2>5. a \div m \in Int
    BY DivMod
  <2>6. Share(t, n + 1, m) = (a + 1) \div m + 1 /\ Share(t, n, m) = a \div m + 1
    BY <1>3, <2>1, <2>2 DEF Share
  <2> QED
    BY <2>3, <2>4, <2>5, <2>6
<1> QED
  BY <1>1, <1>2, <1>3

\* Together the threads' shares are the slice.
LEMMA Shares ==
  ASSUME NEW D, IsFiniteSet(D), D \subseteq Nat, NEW m \in Nat \ {0}, 0..m - 1 \subseteq D
  PROVE  \A n \in Nat :
           Total([t \in D |-> IF t \in 0..m - 1 THEN Share(t, n, m) ELSE 0], D) = n
<1> DEFINE F(n) == [t \in D |-> IF t \in 0..m - 1 THEN Share(t, n, m) ELSE 0]
           T == {n \in Nat : Total(F(n), D) = n}
<1>0. ASSUME NEW n \in Nat PROVE \A t \in D : F(n)[t] \in Int
  BY ShareInt
<1>1. 0 \in T
  <2>1. \A t \in D : F(0)[t] = 0
    BY DEF Share
  <2> QED
    BY <2>1, TotalZero
<1>2. \A n \in Nat : n \in T => n + 1 \in T
  <2> SUFFICES ASSUME NEW n \in Nat, Total(F(n), D) = n
               PROVE  Total(F(n + 1), D) = n + 1
    OBVIOUS
  <2> DEFINE A == F(n)
             B == F(n + 1)
             x == n % m
  <2>1. x \in 0..m - 1 /\ x \in D
    BY DivMod
  <2>2. \A t \in D : A[t] \in Int
    BY <1>0
  <2>3. \A t \in D : B[t] = IF t = x THEN A[t] + 1 ELSE A[t]
    BY <2>1, NextShare
  <2> HIDE DEF A, B, x
  <2>4. ChangedAt(A, B, D, x, 1)
    BY <2>2, <2>3 DEF ChangedAt
  <2>5. Total(B, D) = Total(A, D) + 1
    BY <2>1, <2>4, TotalChange
  <2> QED
    BY <2>5 DEF A, B
<1> HIDE DEF T
<1>3. \A n \in Nat : n \in T
  BY <1>1, <1>2, SetInduction, Zenon
<1> QED
  BY <1>3 DEF T

\* What the account says, with the sums by name.
LEMMA InTotals ==
  /\ WorkInv <=> /\ deficit \in Nat
                 /\ Total(hashed, Nonces) + deficit + Total(Undone, AllThreads) = enqueued
  /\ WorkInv' <=> /\ deficit' \in Nat
                  /\ Total(hashed', Nonces) + deficit' + Total(Undone', AllThreads) = enqueued'
<1>1. WorkInv <=> /\ deficit \in Nat
                 /\ Total(hashed, Nonces) + deficit + Total(Undone, AllThreads) = enqueued
  BY DEF WorkInv, Total
<1>2. WorkInv' <=> /\ deficit' \in Nat
                  /\ Total(hashed', Nonces) + deficit' + Total(Undone', AllThreads) = enqueued'
  BY DEF WorkInv, Total, MapThenSumSet, MapThenFoldSet
<1> QED
  BY <1>1, <1>2

\* What is left of a thread's share fits the word it is subtracted in.
LEMMA Remaining ==
  ASSUME TypeInv, DoneInv, hpc = "kernel", NEW t \in Threads
  PROVE  /\ Expected(t) \in Nat /\ Done(t) \in Nat
         /\ Expected(t) - Done(t) \in Nat /\ Expected(t) - Done(t) < Word
         /\ Expected(t) = Share(t, slice, stride)
<1>1. /\ stride \in Nat \ {0} /\ slice \in Nat /\ slice <= SliceMax /\ t \in Nat
      /\ Done(t) \in Nat /\ SliceMax < Word /\ Word \in Nat /\ SliceMax \in Nat
  <2>1. /\ stride \in Nat \ {0} /\ slice \in Nat /\ slice <= SliceMax /\ Threads = 0..stride - 1
    BY Stride DEF TypeInv
  <2>2. PICK w \in Nat \ {0} : w = BlockDim * Saturation
    BY KernelAssumption
  <2>3. SliceMax + w <= Word /\ SliceMax \in Nat /\ Word \in Nat
    BY <2>2, KernelAssumption
  <2> QED
    BY <2>1, <2>2, <2>3 DEF DoneInv
<1>2. Expected(t) = Share(t, slice, stride)
  BY DEF Expected, Share
<1>3. CASE t < slice
  <2>1. PICK a \in Nat : a = slice - 1 - t
    BY <1>1, <1>3
  <2>2. PICK q \in Int, r \in 0..stride - 1 : q = a \div stride /\ a = stride * q + r
    <3>1. /\ a % stride \in 0..stride - 1 /\ a \div stride \in Int
          /\ a = stride * (a \div stride) + (a % stride)
      BY <1>1, DivMod
    <3> QED
      BY <3>1, Zenon
  <2>3. Expected(t) = q + 1
    BY <1>3, <2>1, <2>2 DEF Expected
  <2>4. q >= 0
    BY <1>1, <2>2, Multiple
  <2>5. q <= a
    <3>1. CASE q >= 1
      <4>1. PICK k \in Nat : stride = 1 + k
        <5> stride - 1 \in Nat /\ stride = 1 + (stride - 1)
          BY <1>1
        <5> QED
          OBVIOUS
      <4>2. k * q \in Nat /\ stride * q = q + k * q
        BY <2>4, <4>1
      <4> QED
        BY <1>1, <2>2, <4>2
    <3> QED
      BY <2>4, <3>1
  <2>6. Done(t) <= q + 1
    <3>1. CASE Done(t) # 0
      <4>1. PICK d \in Nat : d = Done(t) - 1
        BY <1>1, <3>1
      <4>2. t + stride * d < slice
        BY <3>1, <4>1 DEF DoneInv
      <4>3. stride * d \in Int /\ stride * d <= a
        BY <1>1, <2>1, <4>2
      <4>4. d <= q
        <5>1. SUFFICES ASSUME d >= q + 1 PROVE FALSE
          BY <2>2
        <5>2. PICK e \in Nat : d = q + 1 + e
          <6> d - (q + 1) \in Nat /\ d = q + 1 + (d - (q + 1))
            BY <5>1, <2>2
          <6> QED
            OBVIOUS
        <5>3. stride * d = stride * q + stride + stride * e /\ stride * e \in Nat
          BY <1>1, <2>2, <5>2
        <5> QED
          BY <1>1, <2>2, <4>3, <5>3
      <4> QED
        BY <1>1, <4>1, <4>4
    <3> QED
      BY <2>4, <3>1
  <2> QED
    BY <1>1, <1>2, <2>1, <2>3, <2>4, <2>5, <2>6
<1>4. CASE t >= slice
  <2>1. Expected(t) = 0
    BY <1>1, <1>4 DEF Expected
  <2>2. Done(t) = 0
    <3>1. SUFFICES ASSUME Done(t) # 0 PROVE FALSE
      OBVIOUS
    <3>2. PICK d \in Nat : d = Done(t) - 1
      BY <1>1, <3>1
    <3>3. t + stride * d < slice
      BY <3>1, <3>2 DEF DoneInv
    <3>4. stride * d \in Nat
      BY <1>1
    <3> QED
      BY <1>1, <1>4, <3>3, <3>4
  <2> QED
    BY <1>1, <1>2, <2>1, <2>2
<1> QED
  BY <1>1, <1>3, <1>4

\* The undone work is a number for each thread.
LEMMA UndoneInt == ASSUME TypeInv, ThreadInv, DoneInv
                   PROVE  \A t \in AllThreads : Undone[t] \in Int
<1> SUFFICES ASSUME NEW t \in AllThreads PROVE Undone[t] \in Int
  OBVIOUS
<1>1. CASE tpc[t] = "exit"
  BY <1>1 DEF Undone
<1>2. CASE tpc[t] # "exit"
  <2>1. hpc = "kernel" /\ t \in Threads
    BY <1>2 DEF ThreadInv
  <2> QED
    BY <1>2, <2>1, Remaining DEF Undone
<1> QED
  BY <1>1, <1>2

-----------------------------------------------------------------------------

\* The threads' counters start with the launch and keep to their indices.
LEMMA DoneStep == IInv /\ DoneInv /\ [Next]_vars => DoneInv'
<1> SUFFICES ASSUME IInv, DoneInv, [Next]_vars PROVE DoneInv'
  OBVIOUS
<1> USE DEF IInv, DoneInv
<1>1. CASE Launch
  <2>1. poll' = [t \in AllThreads |-> 0] /\ bailed' = [t \in AllThreads |-> FALSE]
        /\ idx' = [t \in AllThreads |-> t]
    BY <1>1 DEF Launch
  <2>2. Threads' \subseteq AllThreads /\ stride' \in Nat /\ Threads' = 0..stride' - 1
    <3>1. NextSlice \in 0..SliceMax
      BY <1>1, Slice, KernelAssumption DEF Launch
    <3>2. slice' \in 0..SliceMax
      BY <1>1, <3>1 DEF Launch
    <3>3. /\ BlockDim * GridBlocks(NextSlice) \in Nat \ {0}
          /\ BlockDim * GridBlocks(NextSlice) <= BlockDim * Saturation
          /\ BlockDim * Saturation \in Nat
      <4> NextSlice \in Nat
        BY <3>1
      <4> QED
        BY Grid
    <3>4. stride' = BlockDim * GridBlocks(NextSlice)
      BY <1>1 DEF stride, Launch
    <3> QED
      BY <3>3, <3>4 DEF Threads, AllThreads
  <2>6. \A w, t \in Nat : t + w * 0 = t
    OBVIOUS
  <2>3. \A t \in Threads' : t \in AllThreads /\ t \in Nat /\ t + stride' * 0 = t
    <3>1. \A t \in Threads' : t \in AllThreads
      BY <2>2
    <3>2. AllThreads \subseteq Nat
      BY KernelAssumption DEF AllThreads
    <3> QED
      BY <2>2, <2>6, <3>1, <3>2
  <2>4. \A t \in Threads' : Done(t)' = 0
    BY <2>1, <2>3 DEF Done
  <2>5. \A t \in Threads' : idx'[t] = t + stride' * 0 /\ ~bailed'[t]
    BY <2>1, <2>3
  <2>7. poll' \in [AllThreads -> Nat] /\ bailed' \in [AllThreads -> BOOLEAN]
    BY <2>1
  <2> QED
    BY <2>4, <2>5, <2>7
<1>2. ASSUME UNCHANGED <<slice, poll, bailed>>, hpc' = "kernel" => hpc = "kernel",
             \A t \in Threads : tpc'[t] = "loop" => tpc[t] = "loop" /\ idx'[t] = idx[t]
      PROVE  DoneInv'
  <2>1. stride' = stride /\ Threads' = Threads
    BY <1>2 DEF stride, Threads
  <2>2. \A t : Done(t)' = Done(t)
    BY <1>2 DEF Done
  <2> QED
    BY <1>2, <2>1, <2>2
<1>3. CASE Peek \/ LastSlice \/ ReadResult \/ Stale \/ UNCHANGED vars
  BY <1>2, <1>3 DEF Peek, LastSlice, ReadResult, Stale, vars, host, threads
<1>4. ASSUME hpc = "kernel", NEW t \in Threads, LoopEnds(t) \/ Win(t) \/ Store(t) \/ StoreHash(t)
      PROVE  DoneInv'
  <2>1. Threads \subseteq AllThreads
    BY Stride DEF TypeInv
  <2> QED
    BY <1>2, <1>4, <2>1 DEF LoopEnds, Win, Store, StoreHash, host, TypeInv
<1>5. ASSUME hpc = "kernel", NEW b \in Blocks, BlockSum(b)
      PROVE  DoneInv'
  <2>1. Threads \subseteq AllThreads
    BY Stride DEF TypeInv
  <2> QED
    BY <1>2, <1>5, <2>1 DEF BlockSum, host
<1>6. ASSUME hpc = "kernel", NEW t \in Threads, Bail(t) PROVE DoneInv'
  <2>1. t \in AllThreads /\ tpc[t] = "loop" /\ ~bailed[t]
        /\ poll' = [poll EXCEPT ![t] = @ + 1] /\ bailed' = [bailed EXCEPT ![t] = TRUE]
        /\ tpc' = [tpc EXCEPT ![t] = "sum"] /\ UNCHANGED <<hpc, slice, idx>>
    BY <1>6, Stride DEF Bail, host, TypeInv
  <2>2. stride' = stride /\ Threads' = Threads /\ Threads \subseteq AllThreads
    BY <2>1, Stride DEF stride, Threads, TypeInv
  <2>3. \A u \in Threads : Done(u)' = Done(u)
    BY <2>1, <2>2 DEF Done
  <2>4. \A u \in Threads : tpc'[u] = "loop" => u # t /\ tpc[u] = "loop"
    BY <2>1, <2>2 DEF TypeInv
  <2>5. poll' \in [AllThreads -> Nat] /\ bailed' \in [AllThreads -> BOOLEAN]
    BY <2>1
  <2> QED
    BY <2>1, <2>2, <2>3, <2>4, <2>5
<1>7. ASSUME hpc = "kernel", NEW t \in Threads, Hash(t) PROVE DoneInv'
  <2>1. t \in AllThreads /\ tpc[t] = "loop" /\ ~bailed[t]
        /\ idx[t] = t + stride * Done(t) /\ idx[t] \in 0..slice - 1 /\ idx[t] % stride = t
        /\ poll' = [poll EXCEPT ![t] = @ + 1] /\ UNCHANGED <<hpc, slice, bailed>>
    BY <1>7, HashEffect DEF Hash, host, ThreadInv
  <2>2. stride' = stride /\ Threads' = Threads /\ Threads \subseteq AllThreads
        /\ stride \in Nat /\ Threads \subseteq Nat
    BY <2>1, Stride DEF stride, Threads, TypeInv
  <2>3. \A u \in Threads : Done(u)' = IF u = t THEN Done(u) + 1 ELSE Done(u)
    BY <2>1, <2>2 DEF Done
  <2>4. poll' \in [AllThreads -> Nat]
    BY <2>1
  <2>5. ASSUME NEW u \in Threads, u # t
        PROVE  /\ Done(u)' \in Nat
               /\ Done(u)' # 0 => u + stride' * (Done(u)' - 1) < slice'
               /\ tpc'[u] = "loop" => ~bailed'[u] /\ idx'[u] = u + stride' * Done(u)'
    <3>1. u \in AllThreads /\ tpc'[u] = tpc[u] /\ idx'[u] = idx[u]
      BY <1>7, <2>1, <2>2, <2>5 DEF Hash, Step, TypeInv
    <3>2. Done(u)' = Done(u)
      BY <2>3, <2>5
    <3> HIDE DEF Done
    <3> QED
      BY <1>7, <2>1, <2>2, <3>1, <3>2
  <2>6. PICK d \in Nat : d = Done(t) /\ Done(t)' = d + 1
    BY <1>7, <2>3
  <2>7. t + stride * d < slice
    BY <2>1, <2>2, <2>6, Stride DEF TypeInv
  <2>8. tpc'[t] = "loop" => idx'[t] = t + stride * (d + 1)
    <3>1. SUFFICES ASSUME tpc'[t] = "loop" PROVE idx'[t] = t + stride * (d + 1)
      OBVIOUS
    <3>2. At(t) \notin winners
      BY <1>7, <2>1, <3>1 DEF Hash, TypeInv
    <3>3. idx' = [idx EXCEPT ![t] = (@ + stride) % Word]
      BY <1>7, <3>2 DEF Hash, Step
    <3>4. idx'[t] = idx[t] + stride
      BY <2>1, <3>3, NextEntry DEF TypeInv
    <3>5. stride * (d + 1) = stride * d + stride
      BY <2>2
    <3> QED
      BY <2>1, <2>2, <2>6, <3>4, <3>5
  <2>9. /\ Done(t)' \in Nat
        /\ Done(t)' # 0 => t + stride' * (Done(t)' - 1) < slice'
        /\ tpc'[t] = "loop" => ~bailed'[t] /\ idx'[t] = t + stride' * Done(t)'
    <3>1. d + 1 \in Nat /\ (d + 1) - 1 = d
      OBVIOUS
    <3> QED
      BY <2>1, <2>2, <2>6, <2>7, <2>8, <3>1
  <2>10. \A u \in Threads' :
           /\ Done(u)' \in Nat
           /\ Done(u)' # 0 => u + stride' * (Done(u)' - 1) < slice'
           /\ tpc'[u] = "loop" => ~bailed'[u] /\ idx'[u] = u + stride' * Done(u)'
    BY <2>2, <2>5, <2>9, Zenon
  <2> QED
    BY <2>1, <2>4, <2>10
<1> QED
  BY <1>1, <1>3, <1>4, <1>5, <1>6, <1>7 DEF Next, Host, Kernel, Returned

-----------------------------------------------------------------------------

\* A launch takes on its slice, and nothing else was on its way.
LEMMA LaunchWork == IInv /\ DoneInv /\ WorkInv /\ Launch => WorkInv'
<1> SUFFICES ASSUME IInv, DoneInv, WorkInv, Launch PROVE WorkInv'
  OBVIOUS
<1>1. hpc = "launch" /\ remaining # 0 /\ slice' = NextSlice /\ hashed' = hashed
      /\ deficit' = deficit /\ enqueued' = enqueued + NextSlice
      /\ poll' = [t \in AllThreads |-> 0] /\ bailed' = [t \in AllThreads |-> FALSE]
      /\ tpc' = [t \in AllThreads |-> IF t < BlockDim * GridBlocks(NextSlice)
                                      THEN "loop" ELSE "exit"]
  BY DEF Launch, result
<1>2. NextSlice \in Nat /\ NextSlice \in 0..SliceMax
  BY <1>1, Slice, KernelAssumption DEF IInv
<1>3. PICK m \in Nat \ {0} : m = BlockDim * GridBlocks(NextSlice) /\ m <= BlockDim * Saturation
  BY <1>2, Grid
<1>4. stride' = m
  BY <1>1, <1>3 DEF stride
<1>5. AllThreads \subseteq Nat /\ 0..m - 1 \subseteq AllThreads
      /\ \A t \in AllThreads : t < m <=> t \in 0..m - 1
  BY <1>3, KernelAssumption DEF AllThreads
<1>6. \A t \in AllThreads : Undone[t] = 0
  BY <1>1 DEF Undone, IInv, ThreadInv
<1>7. Total(Undone, AllThreads) = 0
  BY <1>6, Finite, TotalZero
<1> DEFINE G == [t \in AllThreads |-> IF t \in 0..m - 1 THEN Share(t, NextSlice, m) ELSE 0]
<1>8. Total(G, AllThreads) = NextSlice
  BY <1>2, <1>5, Finite, Shares
<1>9. Undone' = G
  <2>1. ASSUME NEW t \in AllThreads, t < m
        PROVE  Expected(t)' - Done(t)' = Share(t, NextSlice, m)
    <3>1. Expected(t)' = Share(t, NextSlice, m)
      BY <1>1, <1>4 DEF Expected, Share
    <3>2. Done(t)' = 0
      BY <1>1 DEF Done
    <3>3. Share(t, NextSlice, m) \in Int
      BY <1>2, <1>5, ShareInt
    <3> QED
      BY <3>1, <3>2, <3>3
  <2>2. \A t \in AllThreads : tpc'[t] = IF t < m THEN "loop" ELSE "exit"
    BY <1>1, <1>3
  <2>3. Undone' = [t \in AllThreads |-> IF tpc'[t] = "exit" THEN 0 ELSE Expected(t)' - Done(t)']
    BY DEF Undone
  <2> QED
    BY <1>5, <2>1, <2>2, <2>3
<1> HIDE DEF G
<1>10. /\ deficit \in Nat /\ Total(hashed, Nonces) + deficit + 0 = enqueued
       /\ Total(hashed, Nonces) \in Nat /\ enqueued \in Nat
  <2>1. \A n \in Nonces : hashed[n] \in Nat
    BY DEF IInv, TypeInv
  <2> QED
    BY <1>7, <2>1, Finite, TotalNat, InTotals DEF IInv, TypeInv
<1>11. Total(hashed', Nonces) + deficit' + Total(Undone', AllThreads) = enqueued'
  BY <1>1, <1>2, <1>8, <1>9, <1>10
<1> QED
  BY <1>1, <1>10, <1>11, InTotals

\* An entry that hashes is one less to do.
LEMMA HashWork ==
  ASSUME IInv, DoneInv, WorkInv, hpc = "kernel", NEW t \in Threads, Hash(t)
  PROVE  WorkInv'
<1>1. /\ t \in AllThreads /\ At(t) \in Nonces
      /\ hashed[At(t)] = 0 /\ hashed'[At(t)] = 1
      /\ \A n \in Nonces : n # At(t) => hashed'[n] = hashed[n]
  BY HashEffect
<1>2. \A n \in Nonces : hashed[n] \in Int
  BY DEF IInv, TypeInv
<1>3. ChangedAt(hashed, hashed', Nonces, At(t), 1)
  BY <1>1, <1>2 DEF ChangedAt
<1>4. Total(hashed', Nonces) = Total(hashed, Nonces) + 1
  BY <1>1, <1>3, Finite, TotalChange
<1>5. UNCHANGED <<slice, deficit, enqueued, bailed>> /\ poll' = [poll EXCEPT ![t] = @ + 1]
      /\ tpc[t] = "loop"
  BY DEF Hash, host, result
<1>6. stride' = stride
  BY <1>5 DEF stride
<1>7. \A u \in AllThreads : (tpc'[u] = "exit") = (tpc[u] = "exit")
  BY <1>1, <1>5 DEF Hash, IInv, TypeInv
<1>8. ChangedAt(Undone, Undone', AllThreads, t, -1)
  <2>1. \A u \in AllThreads : Undone[u] \in Int
    BY UndoneInt DEF IInv
  <2>2. \A u \in AllThreads : Expected(u)' = Expected(u)
    BY <1>5, <1>6 DEF Expected
  <2>3. \A u \in AllThreads : u # t => Done(u)' = Done(u)
    BY <1>1, <1>5 DEF Done, DoneInv
  <2>4. Done(t)' = Done(t) + 1 /\ Done(t) \in Int /\ Expected(t) \in Int
    <3>1. Done(t) \in Int /\ Expected(t) \in Int
      BY Remaining DEF IInv
    <3>2. poll'[t] = poll[t] + 1 /\ poll[t] \in Nat /\ bailed'[t] = bailed[t]
      BY <1>1, <1>5 DEF DoneInv
    <3> QED
      BY <3>1, <3>2 DEF Done
  <2>5. Undone[t] = Expected(t) - Done(t) /\ Undone'[t] = Expected(t) - (Done(t) + 1)
    BY <1>1, <1>5, <1>7, <2>2, <2>4 DEF Undone
  <2>6. \A u \in AllThreads : u # t => Undone'[u] = Undone[u]
    BY <1>7, <2>2, <2>3 DEF Undone
  <2>7. Undone'[t] = Undone[t] + (-1)
    BY <2>4, <2>5
  <2> QED
    BY <2>1, <2>6, <2>7 DEF ChangedAt
<1>9. Total(Undone', AllThreads) = Total(Undone, AllThreads) + (-1)
  <2> -1 \in Int
    OBVIOUS
  <2> QED
    BY <1>1, <1>8, Finite, TotalChange
<1>10. Total(hashed, Nonces) \in Int /\ Total(Undone, AllThreads) \in Int /\ deficit \in Nat
       /\ Total(hashed, Nonces) + deficit + Total(Undone, AllThreads) = enqueued
  <2>1. \A u \in AllThreads : Undone[u] \in Int
    BY UndoneInt DEF IInv
  <2> QED
    BY <1>2, <2>1, Finite, TotalInt, InTotals
<1>11. Total(hashed', Nonces) + deficit' + Total(Undone', AllThreads) = enqueued'
  BY <1>4, <1>5, <1>9, <1>10
<1> QED
  BY <1>5, <1>10, <1>11, InTotals

\* What a block adds is what its threads leave undone.
LEMMA BlockWork ==
  ASSUME IInv, DoneInv, WorkInv, hpc = "kernel", NEW b \in Blocks, BlockSum(b)
  PROVE  WorkInv'
<1> DEFINE S == BlockThreads(b)
<1>1. S \subseteq Threads /\ S \subseteq AllThreads /\ IsFiniteSet(S)
  <2>1. S \subseteq Threads /\ Threads \subseteq AllThreads
    BY Stride DEF BlockThreads, IInv, TypeInv
  <2> QED
    BY <2>1, Finite, FS_Subset
<1>2. \A t \in S : tpc[t] = "sum"
  BY DEF BlockSum
<1>3. \A t \in AllThreads : Undone[t] \in Int
  BY UndoneInt DEF IInv
<1>4. \A t \in S : (Expected(t) - Done(t)) % Word = Undone[t] /\ Undone[t] \in Nat
  <2> SUFFICES ASSUME NEW t \in S
               PROVE  (Expected(t) - Done(t)) % Word = Undone[t] /\ Undone[t] \in Nat
    OBVIOUS
  <2>1. Expected(t) - Done(t) \in Nat /\ Expected(t) - Done(t) < Word
    BY <1>1, Remaining DEF IInv
  <2>2. Undone[t] = Expected(t) - Done(t)
    BY <1>1, <1>2 DEF Undone
  <2> QED
    BY <2>1, <2>2, Wrapping, KernelAssumption
<1>5. MapThenSumSet(LAMBDA t : (Expected(t) - Done(t)) % Word, S) = Total(Undone, S)
  <2> DEFINE iter[r \in SUBSET S] ==
               IF r = {} THEN 0
               ELSE LET t == CHOOSE t \in r : TRUE
                    IN ((Expected(t) - Done(t)) % Word) + iter[r \ {t}]
  <2>1. MapThenSumSet(LAMBDA t : (Expected(t) - Done(t)) % Word, S) = iter[S]
    BY DEF MapThenSumSet, MapThenFoldSet
  <2>2. PICK k : Adds(k, Undone, S)
    BY <1>1, <1>3, AddsExists
  <2> DEFINE StepOf(g, r) == IF r = {} THEN 0
                             ELSE LET t == CHOOSE t \in r : TRUE
                                IN ((Expected(t) - Done(t)) % Word) + g[r \ {t}]
             Sum(g, r) == IF r = {} THEN 0 ELSE Undone[Pick(r)] + g[r \ {Pick(r)}]
  <2>3. ASSUME NEW g, NEW r \in SUBSET S PROVE StepOf(g, r) = Sum(g, r)
    <3>1. r # {} => Pick(r) \in S
      BY PickIn
    <3> QED
      BY <1>4, <3>1 DEF Pick
  <2>4. k = [r \in SUBSET S |-> Sum(k, r)]
    BY <2>2 DEF Adds
  <2>5. k = [r \in SUBSET S |-> StepOf(k, r)]
    <3> HIDE DEF StepOf, Sum
    <3> QED
      BY <2>3, <2>4
  <2>6. iter = [r \in SUBSET S |-> StepOf(iter, r)]
    BY <2>5, Zenon
  <2> HIDE DEF iter
  <2>7. iter = [r \in SUBSET S |-> Sum(iter, r)]
    <3> HIDE DEF StepOf, Sum
    <3> QED
      BY <2>3, <2>6
  <2>8. Adds(iter, Undone, S)
    BY <2>7 DEF Adds
  <2>9. Total(Undone, S) = iter[S]
    BY <1>1, <1>3, <2>8, TotalIs
  <2> QED
    BY <2>1, <2>9
<1>6. deficit' = deficit + Total(Undone, S) /\ UNCHANGED <<enqueued, hashed>>
  BY <1>5 DEF BlockSum, host
<1>7. Undone' = [t \in AllThreads |-> IF t \in S THEN 0 ELSE Undone[t]]
  <2>1. UNCHANGED <<slice, poll, bailed>>
        /\ tpc' = [t \in AllThreads |-> IF t \in S THEN "exit" ELSE tpc[t]]
    BY DEF BlockSum, host
  <2>2. stride' = stride
    BY <2>1 DEF stride
  <2>3. \A t \in AllThreads : Expected(t)' = Expected(t) /\ Done(t)' = Done(t)
    BY <2>1, <2>2 DEF Expected, Done
  <2> QED
    BY <1>1, <2>1, <2>3 DEF Undone
<1>8. Total(Undone, AllThreads) = Total(Undone, S) + Total(Undone', AllThreads)
  BY <1>1, <1>3, <1>7, Finite, TotalSplit
<1>9. Total(Undone, S) \in Nat
  BY <1>1, <1>4, TotalNat
<1>10. Total(Undone', AllThreads) \in Int
  BY <1>3, <1>7, Finite, TotalInt
<1>11. /\ deficit \in Nat /\ Total(hashed, Nonces) \in Int
       /\ Total(hashed, Nonces) + deficit + Total(Undone, AllThreads) = enqueued
  <2>1. \A n \in Nonces : hashed[n] \in Int
    BY DEF IInv, TypeInv
  <2> QED
    BY <2>1, Finite, TotalInt, InTotals
<1> HIDE DEF S
<1>12. deficit' \in Nat
       /\ Total(hashed', Nonces) + deficit' + Total(Undone', AllThreads) = enqueued'
  BY <1>6, <1>8, <1>9, <1>10, <1>11
<1> QED
  BY <1>12, InTotals

\* A step loses no work and counts none twice.
LEMMA WorkStep == IInv /\ DoneInv /\ WorkInv /\ [Next]_vars => WorkInv'
<1> SUFFICES ASSUME IInv, DoneInv, WorkInv, [Next]_vars PROVE WorkInv'
  OBVIOUS
<1>1. CASE Launch
  BY <1>1, LaunchWork
<1>2. ASSUME UNCHANGED <<slice, poll, enqueued, deficit, hashed>>,
             \A t \in AllThreads : (tpc'[t] = "exit") = (tpc[t] = "exit"),
             \A t \in AllThreads : tpc[t] # "exit" => bailed'[t] = bailed[t]
      PROVE  WorkInv'
  <2>1. stride' = stride
    BY <1>2 DEF stride
  <2>2. \A t \in AllThreads : Expected(t)' = Expected(t)
    BY <1>2, <2>1 DEF Expected
  <2>3. \A t \in AllThreads : tpc[t] # "exit" => Done(t)' = Done(t)
    BY <1>2 DEF Done
  <2>4. Undone' = Undone
    BY <1>2, <2>2, <2>3 DEF Undone
  <2> QED
    BY <1>2, <2>4, InTotals
<1>3. CASE Peek \/ LastSlice \/ ReadResult \/ Stale \/ UNCHANGED vars
  BY <1>2, <1>3 DEF Peek, LastSlice, ReadResult, Stale, vars, host, threads, result
<1>4. ASSUME hpc = "kernel", NEW t \in Threads, LoopEnds(t) \/ Win(t) \/ Store(t) \/ StoreHash(t)
      PROVE  WorkInv'
  <2>1. Threads \subseteq AllThreads
    BY Stride DEF IInv, TypeInv
  <2> QED
    BY <1>2, <1>4, <2>1 DEF LoopEnds, Win, Store, StoreHash, host, result, IInv, TypeInv
<1>5. ASSUME hpc = "kernel", NEW t \in Threads, Bail(t) PROVE WorkInv'
  <2>1. t \in AllThreads /\ tpc[t] = "loop" /\ ~bailed[t]
        /\ poll' = [poll EXCEPT ![t] = @ + 1] /\ bailed' = [bailed EXCEPT ![t] = TRUE]
        /\ tpc' = [tpc EXCEPT ![t] = "sum"]
        /\ UNCHANGED <<slice, enqueued, deficit, hashed>>
    BY <1>5, Stride DEF Bail, host, result, IInv, TypeInv, DoneInv
  <2>2. stride' = stride
    BY <2>1 DEF stride
  <2>3. \A u \in AllThreads : Expected(u)' = Expected(u)
    BY <2>1, <2>2 DEF Expected
  <2>4. \A u \in AllThreads : Done(u)' = Done(u)
    BY <2>1 DEF Done, DoneInv
  <2>5. \A u \in AllThreads : (tpc'[u] = "exit") = (tpc[u] = "exit")
    BY <2>1 DEF IInv, TypeInv
  <2>6. Undone' = Undone
    BY <2>3, <2>4, <2>5 DEF Undone
  <2> QED
    BY <2>1, <2>6, InTotals
<1>6. ASSUME hpc = "kernel", NEW t \in Threads, Hash(t) PROVE WorkInv'
  BY <1>6, HashWork
<1>7. ASSUME hpc = "kernel", NEW b \in Blocks, BlockSum(b) PROVE WorkInv'
  BY <1>7, BlockWork
<1> QED
  BY <1>1, <1>3, <1>4, <1>5, <1>6, <1>7 DEF Next, Host, Kernel, Returned

\* What is reported is what was enqueued less what was given up.
Reported == hpc = "done" =>
              hashes_scanned = IF enqueued >= deficit THEN enqueued - deficit ELSE 0

\* The threads account for all the work of a call, whenever it stops: at every
\* moment what is hashed, what was given up and what is still on its way make up
\* what was enqueued.
THEOREM WorkInvariance == Spec => [](DoneInv /\ WorkInv)
<1>1. Init => DoneInv /\ WorkInv
  <2> SUFFICES ASSUME Init PROVE DoneInv /\ WorkInv
    OBVIOUS
  <2>1. DoneInv
    BY DEF Init, DoneInv
  <2>2. \A n \in Nonces : hashed[n] = 0
    BY DEF Init
  <2>3. \A t \in AllThreads : Undone[t] = 0
    BY DEF Init, Undone
  <2>4. Total(hashed, Nonces) = 0 /\ Total(Undone, AllThreads) = 0
    BY <2>2, <2>3, Finite, TotalZero
  <2>5. deficit = 0 /\ enqueued = 0
    BY DEF Init
  <2> QED
    BY <2>1, <2>4, <2>5, InTotals
<1>2. IInv /\ (DoneInv /\ WorkInv) /\ [Next]_vars => (DoneInv /\ WorkInv)'
  BY DoneStep, WorkStep
<1> QED
  BY <1>1, <1>2, Invariance, PTL DEF Spec

\* The work a call reports is exactly what its threads have hashed, for every
\* mix of full scans, finds and cancellations, every grid and every slice size.
THEOREM ReportIsExact == Spec => []AccountingExact
<1>1. Init => Reported
  BY DEF Init, Reported
<1>2. Reported /\ [Next]_vars => Reported'
  <2> SUFFICES ASSUME Reported, [Next]_vars PROVE Reported'
    OBVIOUS
  <2>1. CASE ReadResult
    BY <2>1 DEF ReadResult, result, Reported
  <2>2. CASE Launch \/ Peek \/ LastSlice \/ Kernel
    BY <2>2 DEF Launch, Peek, LastSlice, Kernel, Reported, Bail, Hash, LoopEnds,
                Win, Store, StoreHash, BlockSum, host
  <2>3. CASE Stale \/ UNCHANGED vars
    BY <2>3 DEF Stale, vars, host, result, Reported
  <2> QED
    BY <2>1, <2>2, <2>3 DEF Next, Host, Returned
<1>3. IInv /\ WorkInv /\ Reported => AccountingExact
  <2> SUFFICES ASSUME IInv, WorkInv, Reported, hpc = "done"
               PROVE  hashes_scanned = Total(hashed, Nonces)
    BY DEF AccountingExact, Total
  <2>1. \A t \in AllThreads : Undone[t] = 0
    BY DEF Undone, IInv, ThreadInv
  <2>2. Total(Undone, AllThreads) = 0
    BY <2>1, Finite, TotalZero
  <2>3. Total(hashed, Nonces) \in Nat
    BY Finite, TotalNat DEF IInv, TypeInv
  <2>4. deficit \in Nat /\ Total(hashed, Nonces) + deficit + 0 = enqueued
    BY <2>2, InTotals
  <2> QED
    BY <2>3, <2>4 DEF Reported
<1> QED
  BY <1>1, <1>2, <1>3, Invariance, WorkInvariance, PTL DEF Spec

-----------------------------------------------------------------------------
(* AlphaNotify: limbs.                                                     *)

\* The powers of the base are positive.
LEMMA BasePowers ==
  /\ Base \in Nat \ {0, 1} /\ Scale \in Nat \ {0} /\ Scale < Base /\ Limbs \in Nat \ {0}
  /\ \A i \in Nat : /\ Power(Base, i) \in Nat \ {0}
                    /\ Power(Base, i + 1) = Base * Power(Base, i)
  /\ Power(Base, 0) = 1 /\ MaxTarget \in Nat
<1>1. /\ Base \in Nat \ {0, 1} /\ Scale \in Nat \ {0} /\ Scale < Base
      /\ Limbs \in Nat \ {0}
  BY NotifyAssumption
<1>2. \A i \in Nat : Power(Base, i) \in Nat \ {0}
  BY <1>1, PowerPositive
<1>3. ASSUME NEW i \in Nat PROVE Power(Base, i + 1) = Base * Power(Base, i)
  BY <1>1, PowerNext
<1>4. Power(Base, 0) = 1
  BY <1>1, PowerZero
<1> QED
  BY <1>1, <1>2, <1>3, <1>4 DEF MaxTarget

\* A limb is one digit of the number.
LEMMA LimbStep ==
  ASSUME NEW v \in Nat, NEW i \in Nat
  PROVE  /\ Limb(v, i) \in 0..Base - 1
         /\ v \div Power(Base, i) = Base * (v \div Power(Base, i + 1)) + Limb(v, i)
         /\ v % Power(Base, i + 1) = Limb(v, i) * Power(Base, i) + (v % Power(Base, i))
<1>1. PICK p \in Nat \ {0} : p = Power(Base, i) /\ Power(Base, i + 1) = Base * p
  BY BasePowers
<1>2. PICK q \in Int, r \in 0..p - 1 : q = v \div p /\ r = v % p /\ v = p * q + r
  BY DivMod
<1>3. Base \in Nat \ {0}
  BY BasePowers
<1>4. PICK j \in Int, l \in 0..Base - 1 : j = q \div Base /\ l = q % Base /\ q = Base * j + l
  BY <1>3, DivMod
<1>5. v \div (Base * p) = j
  BY <1>2, <1>3, <1>4, DivDiv
<1>6. v % (Base * p) = l * p + r
  <2>1. PICK k \in Nat \ {0} : k = Base * p
    BY <1>3
  <2>2. PICK y \in Int, t \in 0..k - 1 : y = v \div k /\ t = v % k /\ v = k * y + t
    <3>1. v % k \in 0..k - 1 /\ v \div k \in Int /\ v = k * (v \div k) + (v % k)
      <4> v \in Int
        OBVIOUS
      <4> HIDE <1>1, <1>2
      <4> QED
        BY DivMod
    <3> QED
      BY <3>1, Zenon
  <2>3. y = j
    BY <1>5, <2>1, <2>2
  <2>4. p * q = p * (Base * j) + p * l
    BY <1>3, <1>4
  <2>5. p * (Base * j) = k * j
    BY <1>3, <2>1
  <2>6. p * l = l * p
    OBVIOUS
  <2>7. PICK a \in Int, b \in Int, c \in Int : a = p * q /\ b = k * j /\ c = l * p
    OBVIOUS
  <2>8. k * y = b
    BY <2>3, <2>7
  <2>9. a = b + c /\ v = a + r /\ v = b + t
    BY <1>2, <2>2, <2>4, <2>5, <2>6, <2>7, <2>8
  <2>10. t = c + r
    BY <2>7, <2>9
  <2> QED
    BY <2>1, <2>2, <2>7, <2>10
<1> QED
  BY <1>1, <1>2, <1>4, <1>5, <1>6 DEF Limb

\* The carry of a schoolbook multiplication.
LEMMA CarryStep ==
  ASSUME NEW v \in Nat, NEW i \in Nat, NEW c, c = ((v % Power(Base, i)) * Scale) \div Power(Base, i)
  PROVE  /\ c \in Nat
         /\ ((v % Power(Base, i + 1)) * Scale) \div Power(Base, i + 1)
              = (Limb(v, i) * Scale + c) \div Base
         /\ ((v * Scale) \div Power(Base, i)) % Base = (Limb(v, i) * Scale + c) % Base
<1>1. PICK p \in Nat \ {0} : p = Power(Base, i) /\ Power(Base, i + 1) = Base * p
  BY BasePowers
<1>2. PICK l \in Nat, r \in Nat, j \in Nat, B \in Nat \ {0}, S \in Nat :
        /\ l = Limb(v, i) /\ r = v % p /\ B = Base /\ S = Scale
        /\ v % (B * p) = l * p + r /\ v \div p = B * j + l /\ v = p * (v \div p) + r
  <2>1. Base \in Nat \ {0} /\ Scale \in Nat
    BY BasePowers
  <2>2. v % p \in Nat /\ v = p * (v \div p) + (v % p)
    BY DivMod
  <2>3. v \div Power(Base, i + 1) \in Nat
    <3> Power(Base, i + 1) \in Nat \ {0}
      BY BasePowers
    <3> QED
      BY DivNat
  <2>4. Limb(v, i) \in Nat
    BY <2>1, LimbStep
  <2>5. /\ v % (Base * p) = Limb(v, i) * p + (v % p)
        /\ v \div p = Base * (v \div Power(Base, i + 1)) + Limb(v, i)
    BY <1>1, LimbStep
  <2> QED
    BY <2>1, <2>2, <2>3, <2>4, <2>5, Zenon
<1>3. c \in Nat /\ c = (r * S) \div p
  <2> r * S \in Nat
    OBVIOUS
  <2> QED
    BY <1>1, <1>2, DivNat
<1>4. ((l * p + r) * S) \div p = l * S + c
  <2>1. (l * p + r) * S = (l * S) * p + r * S
    OBVIOUS
  <2>2. l * S \in Int /\ r * S \in Int
    OBVIOUS
  <2> QED
    BY <1>3, <2>1, <2>2, AddDiv
<1>5. ((l * p + r) * S) \div (B * p) = (l * S + c) \div B
  <2>1. PICK y \in Nat : y = (l * p + r) * S
    OBVIOUS
  <2>2. y \div (B * p) = (y \div p) \div B
    BY DivDiv
  <2> QED
    BY <1>4, <2>1, <2>2
<1>6. ((v * S) \div p) % B = (l * S + c) % B
  <2>1. v * S = ((B * j + l) * S) * p + r * S
    <3>1. v = (B * j + l) * p + r
      BY <1>2
    <3>2. PICK k \in Int : k = B * j + l
      OBVIOUS
    <3>3. (k * p + r) * S = (k * S) * p + r * S
      OBVIOUS
    <3> QED
      BY <3>1, <3>2, <3>3
  <2>2. (v * S) \div p = (B * j + l) * S + c
    <3> (B * j + l) * S \in Int /\ r * S \in Int
      OBVIOUS
    <3> QED
      BY <1>3, <2>1, AddDiv
  <2>3. (B * j + l) * S + c = (j * S) * B + (l * S + c)
    BY <1>3
  <2>4. PICK x \in Int, y \in Int : x = j * S /\ y = l * S + c
    BY <1>3
  <2>5. (x * B + y) % B = y % B
    BY AddDiv
  <2> QED
    BY <2>2, <2>3, <2>4, <2>5
<1> QED
  BY <1>1, <1>2, <1>3, <1>5, <1>6

\* The denominator fits a limb, and grows with the difficulty.
LEMMA DenominatorIs ==
  ASSUME NEW d \in Nat
  PROVE  Denominator(d) \in 1..Base - 1
<1>1. Base \in Nat \ {0, 1} /\ Scale \in Nat \ {0}
  BY BasePowers
<1>2. PICK e \in Nat : e = (IF d > 0 THEN d ELSE 2 * Scale)
  BY <1>1
<1>3. PICK l \in Nat : l = (IF e < 2 THEN 2 ELSE e) /\ l >= 2
  OBVIOUS
<1>4. PICK h \in Nat : h = (IF l > 2 * (Base - 1) THEN 2 * (Base - 1) ELSE l)
                       /\ h >= 2 /\ h <= 2 * (Base - 1)
  BY <1>1, <1>3
<1>5. Denominator(d) = (h + 1) \div 2
  BY <1>2, <1>3, <1>4 DEF Denominator
<1> QED
  BY <1>1, <1>4, <1>5

\* A larger difficulty has no smaller denominator.
LEMMA DenominatorGrows ==
  ASSUME NEW d \in Nat, NEW e \in Nat, d > 0, e >= d
  PROVE  Denominator(e) >= Denominator(d)
<1>1. Base \in Nat \ {0, 1} /\ Scale \in Nat \ {0}
  BY BasePowers
<1> DEFINE Low(x)  == IF x < 2 THEN 2 ELSE x
           High(x) == IF Low(x) > 2 * (Base - 1) THEN 2 * (Base - 1) ELSE Low(x)
<1>2. Denominator(d) = (High(d) + 1) \div 2 /\ Denominator(e) = (High(e) + 1) \div 2
  BY DEF Denominator
<1>3. High(d) \in Nat /\ High(e) \in Nat /\ High(d) <= High(e)
  BY <1>1
<1> HIDE DEF High, Low
<1> QED
  BY <1>2, <1>3

\* The limb-by-limb computation is the plain one: base_target * SCALE divided
\* by the denominator, at most the largest target.
LEMMA ScaleIs ==
  ASSUME NEW b \in 0..MaxTarget, NEW d \in Nat
  PROVE  scale_target_for_pool_difficulty(b, d)
           = IF (b * Scale) \div Denominator(d) > MaxTarget THEN MaxTarget
             ELSE (b * Scale) \div Denominator(d)
<1> DEFINE
      den == Denominator(d)
      P == b * Scale
      V == P \div den
      IsCarry(f) == f = [i \in 0..Limbs |->
                           IF i = 0 THEN 0
                           ELSE (Limb(b, i - 1) * Scale + f[i - 1]) \div Base]
      carry == CHOOSE f : IsCarry(f)
      wide == [i \in 0..Limbs |->
                 IF i = Limbs THEN carry[Limbs]
                 ELSE (Limb(b, i) * Scale + carry[i]) % Base]
      IsRemainder(f) == f = [i \in 0..Limbs + 1 |->
                               IF i = Limbs + 1 THEN 0
                               ELSE (f[i + 1] * Base + wide[i]) % den]
      remainder == CHOOSE f : IsRemainder(f)
      quotient == [i \in 0..Limbs |->
                     ((remainder[i + 1] * Base + wide[i]) \div den) % Base]
      IsValue(f) == f = [i \in 0..Limbs |->
                           IF i = 0 THEN 0
                           ELSE f[i - 1] + quotient[i - 1] * Power(Base, i - 1)]
      value == CHOOSE f : IsValue(f)
<1>1. scale_target_for_pool_difficulty(b, d)
        = IF quotient[Limbs] # 0 THEN MaxTarget ELSE value[Limbs]
  BY Zenon DEF scale_target_for_pool_difficulty
<1>2. /\ Base \in Nat \ {0, 1} /\ Scale \in Nat \ {0} /\ Scale < Base
      /\ Limbs \in Nat \ {0} /\ MaxTarget \in Nat /\ b \in Nat /\ P \in Nat
      /\ Power(Base, Limbs) = MaxTarget + 1
  <2>1. Power(Base, Limbs) \in Nat /\ MaxTarget \in Nat
    BY BasePowers
  <2>2. b \in Nat
    BY <2>1
  <2>3. P \in Nat
    BY <2>2, BasePowers
  <2> QED
    BY <2>1, <2>2, <2>3, BasePowers DEF MaxTarget
<1>3. den \in Nat \ {0} /\ den < Base
  BY <1>2, DenominatorIs
<1>4. V \in Nat
  BY <1>2, <1>3, DivNat
<1> HIDE DEF den, P, V
\* The carry into limb i is what the limbs below it amount to.
<1> DEFINE c == [i \in 0..Limbs |-> ((b % Power(Base, i)) * Scale) \div Power(Base, i)]
<1>5. IsCarry(c)
  <2>1. ASSUME NEW i \in 0..Limbs, i # 0
        PROVE  c[i] = (Limb(b, i - 1) * Scale + c[i - 1]) \div Base
    <3>1. PICK j \in Nat : j = i - 1 /\ i = j + 1 /\ j \in 0..Limbs
      BY <1>2, <2>1
    <3>2. PICK x : x = ((b % Power(Base, j)) * Scale) \div Power(Base, j)
      OBVIOUS
    <3>3. ((b % Power(Base, j + 1)) * Scale) \div Power(Base, j + 1)
            = (Limb(b, j) * Scale + x) \div Base
      BY <1>2, <3>2, CarryStep
    <3>4. c[j] = x
      BY <3>1, <3>2
    <3>5. c[i] = ((b % Power(Base, j + 1)) * Scale) \div Power(Base, j + 1)
      BY <3>1
    <3> QED
      BY <3>1, <3>3, <3>4, <3>5
  <2>2. c[0] = 0
    <3>1. 0 \in 0..Limbs
      BY <1>2
    <3>2. (b % 1) * Scale = 0
      BY <1>2
    <3>3. (0 \div 1) = 0
      OBVIOUS
    <3> QED
      BY <3>1, <3>2, <3>3, BasePowers
  <2> HIDE DEF c
  <2>3. \A i \in 0..Limbs : c[i] = IF i = 0 THEN 0
                                   ELSE (Limb(b, i - 1) * Scale + c[i - 1]) \div Base
    BY <2>1, <2>2
  <2>4. c = [i \in 0..Limbs |-> c[i]]
    BY DEF c
  <2> QED
    BY <2>3, <2>4
<1>6. IsCarry(carry)
  <2> HIDE DEF IsCarry, c
  <2> QED
    BY <1>5, Zenon
<1> HIDE DEF carry
<1>7. \A i \in 0..Limbs : carry[i] = c[i]
  <2> DEFINE T == {i \in Nat : i <= Limbs => carry[i] = c[i]}
  <2> HIDE DEF c
  <2>1. 0 \in T
    <3> 0 \in 0..Limbs
      BY <1>2
    <3> QED
      BY <1>5, <1>6
  <2>2. \A i \in Nat : i \in T => i + 1 \in T
    <3> SUFFICES ASSUME NEW i \in Nat, i + 1 <= Limbs, carry[i] = c[i]
                 PROVE  carry[i + 1] = c[i + 1]
      BY <1>2
    <3>1. i + 1 \in 0..Limbs /\ i + 1 # 0 /\ (i + 1) - 1 = i
      BY <1>2
    <3>2. /\ carry[i + 1] = (Limb(b, (i + 1) - 1) * Scale + carry[(i + 1) - 1]) \div Base
          /\ c[i + 1] = (Limb(b, (i + 1) - 1) * Scale + c[(i + 1) - 1]) \div Base
      BY <1>5, <1>6, <3>1, Zenon
    <3> QED
      BY <3>1, <3>2
  <2> HIDE DEF T
  <2>3. \A i \in Nat : i \in T
    BY <2>1, <2>2, SetInduction, Zenon
  <2> QED
    BY <1>2, <2>3 DEF T
\* The limbs of the product.
<1> DEFINE Q(i) == P \div Power(Base, i)
<1>8. \A i \in 0..Limbs + 1 : Q(i) \in Nat
  <2> SUFFICES ASSUME NEW i \in 0..Limbs + 1 PROVE Q(i) \in Nat
    OBVIOUS
  <2> Power(Base, i) \in Nat \ {0}
    BY <1>2, BasePowers
  <2> QED
    BY <1>2, DivNat
<1>9. Q(Limbs) < Base /\ Q(Limbs + 1) = 0
  <2>1. PICK p \in Nat \ {0} : p = Power(Base, Limbs) /\ Power(Base, Limbs + 1) = Base * p
    BY <1>2, BasePowers
  <2>2. P < Base * p
    <3>1. PICK e \in Nat \ {0}, gap \in Nat \ {0} : e = p - b /\ gap = Base - Scale
      BY <1>2, <2>1
    <3>2. Base * p = b * Scale + b * gap + e * Base
      <4>1. p = b + e /\ Base = Scale + gap
        BY <1>2, <3>1
      <4>2. Base * p = Base * b + Base * e
        BY <1>2, <4>1
      <4>3. Base * b = Scale * b + gap * b
        BY <1>2, <4>1
      <4>4. Scale * b = b * Scale /\ gap * b = b * gap /\ Base * e = e * Base
        BY <1>2
      <4> QED
        BY <4>2, <4>3, <4>4
    <3>3. PICK x \in Nat, y \in Nat, z \in Nat \ {0} :
            x = b * Scale /\ y = b * gap /\ z = e * Base
      BY <1>2
    <3> QED
      BY <3>2, <3>3 DEF P
  <2>3. P \div p < Base
    BY <1>2, <2>1, <2>2, DivLess
  <2>4. PICK k \in Nat \ {0} : k = Base * p
    BY <1>2
  <2>5. P \div k = 0
    BY <1>2, <2>2, <2>4, DivNat
  <2> QED
    BY <2>1, <2>3, <2>4, <2>5
<1>10. \A i \in 0..Limbs : wide[i] = Q(i) % Base
  <2> SUFFICES ASSUME NEW i \in 0..Limbs PROVE wide[i] = Q(i) % Base
    OBVIOUS
  <2>1. i \in Nat
    BY <1>2
  <2>2. PICK x : x = ((b % Power(Base, i)) * Scale) \div Power(Base, i)
    OBVIOUS
  <2>3. carry[i] = x
    BY <1>7, <2>2
  <2>4. CASE i # Limbs
    <3>1. wide[i] = (Limb(b, i) * Scale + x) % Base
      BY <2>3, <2>4
    <3>2. ((b * Scale) \div Power(Base, i)) % Base = (Limb(b, i) * Scale + x) % Base
      BY <1>2, <2>1, <2>2, CarryStep
    <3> QED
      BY <3>1, <3>2 DEF P
  <2>5. CASE i = Limbs
    <3>1. wide[i] = x
      BY <1>7, <2>2, <2>5
    <3>2. b % Power(Base, Limbs) = b
      BY <1>2, Wrapping
    <3>3. x = Q(Limbs)
      BY <2>2, <2>5, <3>2 DEF P
    <3>4. Q(Limbs) \in Nat
      BY <1>2, <1>8
    <3>5. Q(Limbs) % Base = Q(Limbs)
      BY <1>2, <1>9, <3>4, Wrapping
    <3> QED
      BY <2>5, <3>1, <3>3, <3>5
  <2> QED
    BY <2>4, <2>5
<1>11. wide = [i \in 0..Limbs |-> wide[i]]
  OBVIOUS
<1> HIDE DEF wide, c
<1>12. \A i \in 0..Limbs :
         /\ Q(i) = Q(i + 1) * Base + wide[i] /\ wide[i] \in 0..Base - 1
         /\ i + 1 \in 0..Limbs + 1 /\ i \in 0..Limbs + 1 /\ i # Limbs + 1
         /\ Q(i) \in Nat /\ Q(i + 1) \in Nat
  <2> SUFFICES ASSUME NEW i \in 0..Limbs
               PROVE  /\ Q(i) = Q(i + 1) * Base + wide[i] /\ wide[i] \in 0..Base - 1
                      /\ i + 1 \in 0..Limbs + 1 /\ i \in 0..Limbs + 1 /\ i # Limbs + 1
                      /\ Q(i) \in Nat /\ Q(i + 1) \in Nat
    OBVIOUS
  <2>1. i + 1 \in 0..Limbs + 1 /\ i \in 0..Limbs + 1 /\ i # Limbs + 1 /\ i \in Nat
    BY <1>2
  <2>2. Q(i) \in Nat /\ Q(i + 1) \in Nat
    BY <1>8, <2>1
  <2>3. Q(i) = Base * Q(i + 1) + Limb(P, i) /\ Limb(P, i) \in 0..Base - 1
    BY <1>2, <2>1, LimbStep
  <2>4. wide[i] = Limb(P, i)
    BY <1>10 DEF Limb
  <2>5. Base * Q(i + 1) = Q(i + 1) * Base
    BY <1>2, <2>2
  <2> QED
    BY <2>1, <2>2, <2>3, <2>4, <2>5
<1> HIDE DEF Q
\* The remainder of the limbs from i upwards.
<1> DEFINE r == [i \in 0..Limbs + 1 |-> Q(i) % den]
<1>13. \A i \in 0..Limbs :
         /\ (r[i + 1] * Base + wide[i]) % den = Q(i) % den
         /\ ((r[i + 1] * Base + wide[i]) \div den) % Base = (Q(i) \div den) % Base
  <2> SUFFICES ASSUME NEW i \in 0..Limbs
               PROVE  /\ (r[i + 1] * Base + wide[i]) % den = Q(i) % den
                      /\ ((r[i + 1] * Base + wide[i]) \div den) % Base
                           = (Q(i) \div den) % Base
    OBVIOUS
  <2>1. PICK q \in Nat, w \in 0..Base - 1 : q = Q(i + 1) /\ w = wide[i] /\ Q(i) = q * Base + w
    BY <1>12
  <2>2. r[i + 1] = q % den
    BY <1>12, <2>1
  <2>3. /\ ((q % den) * Base + w) % den = (q * Base + w) % den
        /\ (((q % den) * Base + w) \div den) % Base = ((q * Base + w) \div den) % Base
    <3> Base \in Nat \ {0}
      BY <1>2
    <3> QED
      BY <1>3, LongDivision
  <2> QED
    BY <2>1, <2>2, <2>3
<1>14. IsRemainder(r)
  <2>1. r[Limbs + 1] = 0
    <3>1. Limbs + 1 \in 0..Limbs + 1
      BY <1>2
    <3>2. 0 % den = 0
      BY <1>3
    <3> QED
      BY <1>9, <3>1, <3>2 DEF Q
  <2>2. \A i \in 0..Limbs + 1 : i # Limbs + 1 => r[i] = (r[i + 1] * Base + wide[i]) % den
    <3> SUFFICES ASSUME NEW i \in 0..Limbs + 1, i # Limbs + 1
                 PROVE  r[i] = (r[i + 1] * Base + wide[i]) % den
      OBVIOUS
    <3>1. i \in 0..Limbs
      BY <1>2
    <3>2. r[i] = Q(i) % den
      OBVIOUS
    <3> QED
      BY <1>13, <3>1, <3>2
  <2>3. r = [i \in 0..Limbs + 1 |-> r[i]]
    OBVIOUS
  <2> HIDE DEF r
  <2> QED
    BY <2>1, <2>2, <2>3
<1>15. IsRemainder(remainder)
  <2> HIDE DEF IsRemainder, r
  <2> QED
    BY <1>14, Zenon
<1> HIDE DEF remainder
<1>16. \A i \in 0..Limbs + 1 : remainder[i] = r[i]
  <2> DEFINE T == {k \in Nat : k <= Limbs + 1 => remainder[Limbs + 1 - k] = r[Limbs + 1 - k]}
  <2> HIDE DEF r
  <2>1. 0 \in T
    <3>1. Limbs + 1 \in 0..Limbs + 1 /\ Limbs + 1 - 0 = Limbs + 1
      BY <1>2
    <3> QED
      BY <1>14, <1>15, <3>1
  <2>2. \A k \in Nat : k \in T => k + 1 \in T
    <3> SUFFICES ASSUME NEW k \in Nat, k + 1 <= Limbs + 1,
                        remainder[Limbs + 1 - k] = r[Limbs + 1 - k]
                 PROVE  remainder[Limbs + 1 - (k + 1)] = r[Limbs + 1 - (k + 1)]
      BY <1>2
    <3>1. PICK i \in 0..Limbs + 1 : /\ i = Limbs + 1 - (k + 1) /\ i # Limbs + 1
                                    /\ i + 1 = Limbs + 1 - k
      BY <1>2
    <3>2. /\ remainder[i] = (remainder[i + 1] * Base + wide[i]) % den
          /\ r[i] = (r[i + 1] * Base + wide[i]) % den
      BY <1>14, <1>15, <3>1, Zenon
    <3> QED
      BY <3>1, <3>2
  <2> HIDE DEF T
  <2>3. \A k \in Nat : k \in T
    BY <2>1, <2>2, SetInduction, Zenon
  <2>4. ASSUME NEW i \in 0..Limbs + 1 PROVE remainder[i] = r[i]
    <3>1. PICK k \in Nat : k = Limbs + 1 - i /\ k <= Limbs + 1 /\ Limbs + 1 - k = i
      BY <1>2
    <3> QED
      BY <2>3, <3>1 DEF T
  <2> QED
    BY <2>4
\* The limbs of the quotient.
<1>17. \A i \in 0..Limbs : quotient[i] = Limb(V, i)
  <2> SUFFICES ASSUME NEW i \in 0..Limbs PROVE quotient[i] = Limb(V, i)
    OBVIOUS
  <2>1. quotient[i] = (Q(i) \div den) % Base
    <3>1. remainder[i + 1] = r[i + 1]
      BY <1>12, <1>16
    <3> HIDE DEF r
    <3> QED
      BY <1>13, <3>1
  <2>2. PICK p \in Nat \ {0} : p = Power(Base, i)
    <3> i \in Nat
      BY <1>2
    <3> QED
      BY BasePowers
  <2>3. P \div (den * p) = (P \div p) \div den /\ P \div (p * den) = (P \div den) \div p
    BY <1>2, <1>3, <2>2, DivDiv
  <2>4. den * p = p * den
    BY <1>3
  <2>5. Q(i) \div den = V \div p
    BY <2>2, <2>3, <2>4 DEF Q, V
  <2> QED
    BY <2>1, <2>2, <2>5 DEF Limb
<1>18. Limbs \in 0..Limbs
  BY <1>2
<1>19. V \div Power(Base, Limbs) < Base /\ V \div Power(Base, Limbs) \in Nat
  <2>1. PICK p \in Nat \ {0} : p = Power(Base, Limbs)
    BY <1>2, BasePowers
  <2>2. PICK q \in Nat : q = Q(Limbs) /\ q < Base
    BY <1>9, <1>12, <1>18 DEF Q
  <2>3. P \div (den * p) = (P \div p) \div den /\ P \div (p * den) = (P \div den) \div p
    <3> P \in Nat /\ p \in Nat \ {0} /\ den \in Nat \ {0}
      BY <1>2, <1>3
    <3> HIDE <2>1, <2>2
    <3> QED
      BY DivDiv
  <2>4. den * p = p * den
    BY <1>3
  <2>5. V \div p = q \div den
    BY <2>1, <2>2, <2>3, <2>4 DEF Q, V
  <2>6. q \div den <= q \div 1 /\ q \div 1 = q /\ q \div den \in Nat
    <3>1. q \div den <= q \div 1
      BY <1>3, DivSmaller
    <3>2. q \div den \in Nat
      BY <1>3, DivNat
    <3> QED
      BY <3>1, <3>2
  <2> QED
    BY <1>2, <2>1, <2>2, <2>5, <2>6
<1>20. quotient[Limbs] = V \div Power(Base, Limbs)
  BY <1>2, <1>17, <1>18, <1>19, Wrapping DEF Limb
<1> HIDE DEF quotient
<1> DEFINE v == [i \in 0..Limbs |-> V % Power(Base, i)]
<1>21. IsValue(v)
  <2>1. v[0] = 0
    <3>1. 0 \in 0..Limbs /\ V % 1 = 0
      BY <1>2, <1>4
    <3> QED
      BY <3>1, BasePowers
  <2>2. ASSUME NEW i \in 0..Limbs, i # 0
        PROVE  v[i] = v[i - 1] + quotient[i - 1] * Power(Base, i - 1)
    <3>1. PICK j \in Nat : j = i - 1 /\ i = j + 1 /\ j \in 0..Limbs
      BY <1>2, <2>2
    <3>2. /\ Limb(V, j) \in 0..Base - 1
          /\ V % Power(Base, j + 1) = Limb(V, j) * Power(Base, j) + (V % Power(Base, j))
      BY <1>4, LimbStep
    <3>3. v[i] = V % Power(Base, j + 1) /\ v[j] = V % Power(Base, j)
      BY <3>1
    <3>4. quotient[j] = Limb(V, j)
      BY <1>17, <3>1
    <3>5. PICK p \in Nat \ {0} : p = Power(Base, j)
      BY BasePowers
    <3>6. Limb(V, j) * p \in Int /\ V % p \in Int
      BY <1>2, <1>4, <3>2
    <3> QED
      BY <3>1, <3>2, <3>3, <3>4, <3>5, <3>6
  <2>3. v = [i \in 0..Limbs |-> v[i]]
    OBVIOUS
  <2> HIDE DEF v
  <2> QED
    BY <2>1, <2>2, <2>3
<1>22. IsValue(value)
  <2> HIDE DEF IsValue, v
  <2> QED
    BY <1>21, Zenon
<1> HIDE DEF value
<1>23. value[Limbs] = v[Limbs]
  <2> DEFINE T == {i \in Nat : i <= Limbs => value[i] = v[i]}
  <2> HIDE DEF v
  <2>1. 0 \in T
    <3> 0 \in 0..Limbs
      BY <1>2
    <3> QED
      BY <1>21, <1>22
  <2>2. \A i \in Nat : i \in T => i + 1 \in T
    <3> SUFFICES ASSUME NEW i \in Nat, i + 1 <= Limbs, value[i] = v[i]
                 PROVE  value[i + 1] = v[i + 1]
      BY <1>2
    <3>1. i + 1 \in 0..Limbs /\ i + 1 # 0 /\ (i + 1) - 1 = i
      BY <1>2
    <3>2. /\ value[i + 1] = value[(i + 1) - 1]
                            + quotient[(i + 1) - 1] * Power(Base, (i + 1) - 1)
          /\ v[i + 1] = v[(i + 1) - 1] + quotient[(i + 1) - 1] * Power(Base, (i + 1) - 1)
      BY <1>21, <1>22, <3>1, Zenon
    <3> QED
      BY <3>1, <3>2
  <2> HIDE DEF T
  <2>3. \A i \in Nat : i \in T
    BY <2>1, <2>2, SetInduction, Zenon
  <2> QED
    BY <1>2, <2>3 DEF T
<1>24. v[Limbs] = V % (MaxTarget + 1) /\ quotient[Limbs] = V \div (MaxTarget + 1)
  BY <1>2, <1>18, <1>20
<1> HIDE DEF v
<1>25. CASE V > MaxTarget
  <2>1. 1 <= V \div (MaxTarget + 1) <=> 1 * (MaxTarget + 1) <= V
    <3>1. 1 \in Int /\ V \in Int /\ MaxTarget + 1 \in Nat \ {0}
      BY <1>2, <1>4
    <3> QED
      BY <3>1, LeqDiv
  <2>2. quotient[Limbs] # 0
    BY <1>2, <1>4, <1>24, <1>25, <2>1
  <2> QED
    BY <1>1, <1>25, <2>2 DEF V, P, den
<1>26. CASE ~(V > MaxTarget)
  <2>1. V < MaxTarget + 1 /\ MaxTarget + 1 \in Nat \ {0}
    BY <1>2, <1>4, <1>26
  <2>2. V % (MaxTarget + 1) = V /\ V \div (MaxTarget + 1) = 0
    BY <1>4, <2>1, Wrapping, DivNat
  <2>3. quotient[Limbs] = 0 /\ value[Limbs] = V
    BY <1>23, <1>24, <2>2
  <2> QED
    BY <1>1, <1>26, <2>3 DEF V, P, den
<1> QED
  BY <1>25, <1>26

-----------------------------------------------------------------------------
(* AlphaNotify: the layouts.                                               *)

Token    == [kind : {"num", "quoted", "hex", "bool", "null", "empty", "text"}, val : Nat,
             lead : Int]
Gathered == [merkle : Int, time : Int, diff : Int, target : Int, clean : BOOLEAN]

\* One token more is gathered.
LEMMA GatherType == ASSUME NEW acc \in Gathered, NEW t \in Token
                    PROVE  Gather(acc, t) \in Gathered
<1>1. BoolValue(t) \in BOOLEAN /\ t.val \in Int /\ U64(t) \in Int
  BY DEF Token, BoolValue, U64
<1> QED
  BY <1>1 DEF Gather, Gathered

\* The flexible parser sees four tokens from the first to the last.
LEMMA GatherFour ==
  ASSUME NEW q \in [1..4 -> Token]
  PROVE  FoldLeft(Gather, Nothing, q)
           = Gather(Gather(Gather(Gather(Nothing, q[1]), q[2]), q[3]), q[4])
<1> DEFINE k == [z \in (1..4) \X Gathered |-> Gather(z[2], q[z[1]])]
<1>1. \A i \in 1..4 : \A v \in Gathered :
        k[<<i, v>>] = Gather(v, q[i]) /\ Gather(v, q[i]) \in Gathered
  <2> SUFFICES ASSUME NEW i \in 1..4, NEW v \in Gathered
               PROVE  k[<<i, v>>] = Gather(v, q[i]) /\ Gather(v, q[i]) \in Gathered
    OBVIOUS
  <2>1. <<i, v>> \in (1..4) \X Gathered /\ <<i, v>>[1] = i /\ <<i, v>>[2] = v
    OBVIOUS
  <2>2. k[<<i, v>>] = Gather(v, q[i])
    BY <2>1, Zenon
  <2>3. q[i] \in Token
    OBVIOUS
  <2> QED
    BY <2>2, <2>3, GatherType
<1> HIDE DEF k
<1>2. Closed(k, 1..4, Gathered)
  BY <1>1 DEF Closed
<1>3. PICK acc \in [SUBSET (1..4) -> Gathered], f \in [0..4 -> Gathered] :
        FoldsInOrder(acc, f, Nothing, k, 4)
  <2>1. Nothing \in Gathered /\ 4 \in Nat
    BY DEF Nothing, Gathered, NoNumber
  <2> QED
    BY <1>2, <2>1, FoldInOrder
<1>4. DOMAIN q = 1..4
  OBVIOUS
<1> DEFINE Is(x) == x = [u \in SUBSET (DOMAIN q) |->
                           IF u = {} THEN Nothing ELSE Gather(x[u \ {Max(u)}], q[Max(u)])]
<1>5. ASSUME NEW u \in SUBSET (1..4), u # {}
      PROVE  k[<<Max(u), acc[u \ {Max(u)}]>>] = Gather(acc[u \ {Max(u)}], q[Max(u)])
  <2>1. Max(u) \in u /\ u \ {Max(u)} \in SUBSET (1..4)
    <3> 4 \in Nat
      OBVIOUS
    <3> QED
      BY <1>5, MaxOf
  <2>2. Max(u) \in 1..4 /\ acc[u \ {Max(u)}] \in Gathered
    BY <2>1
  <2> QED
    BY <1>1, <2>2
<1>6. Is(acc)
  <2>1. acc = [u \in SUBSET (1..4) |-> IF u = {} THEN Nothing
                                     ELSE k[<<Max(u), acc[u \ {Max(u)}]>>]]
    BY <1>3 DEF FoldsInOrder
  <2>2. ASSUME NEW u \in SUBSET (1..4)
        PROVE  acc[u] = IF u = {} THEN Nothing ELSE Gather(acc[u \ {Max(u)}], q[Max(u)])
    BY <1>5, <2>1
  <2>3. acc = [u \in SUBSET (1..4) |->
               IF u = {} THEN Nothing ELSE Gather(acc[u \ {Max(u)}], q[Max(u)])]
    BY <2>2
  <2> QED
    BY <1>4, <2>3
<1> DEFINE x == CHOOSE x : Is(x)
<1>7. Is(x)
  <2> HIDE DEF Is
  <2> QED
    BY <1>6, Zenon
<1>8. FoldLeft(Gather, Nothing, q) = x[DOMAIN q]
  BY Zenon DEF FoldLeft, MapThenFoldSet
<1> HIDE DEF x
<1>9. x[1..4] = acc[1..4]
  <2>1. x[{}] = acc[{}]
    BY <1>4, <1>6, <1>7
  <2>2. \A u \in SUBSET (1..4) :
          u # {} => (x[u \ {Max(u)}] = acc[u \ {Max(u)}] => x[u] = acc[u])
    BY <1>4, <1>6, <1>7
  <2>3. 4 \in Nat
    OBVIOUS
  <2> QED
    BY <2>1, <2>2, <2>3, FoldIsOne
<1>10. /\ f[0] = Nothing /\ \A i \in 0..4 - 1 : f[i + 1] = k[<<i + 1, f[i]>>]
       /\ acc[1..4] = f[4]
  BY <1>3 DEF FoldsInOrder
<1>11. \A i \in 0..3 : f[i + 1] = Gather(f[i], q[i + 1])
  BY <1>1, <1>10
<1>12. /\ f[1] = Gather(f[0], q[1]) /\ f[2] = Gather(f[1], q[2])
       /\ f[3] = Gather(f[2], q[3]) /\ f[4] = Gather(f[3], q[4])
  BY <1>11
<1> QED
  BY <1>4, <1>8, <1>9, <1>10, <1>12

\* The head of a line and the tokens behind it.
Line(p, f, a, n) ==
  /\ Len(p) = 3 + n /\ p \in [1..3 + n -> Token]
  /\ p[1] = Text /\ p[2] = Num(f.block) /\ p[3] = Hex(f.prev, f.lead)
  /\ \A i \in 1..n : p[3 + i] = a[i]

\* What the fields of a line can be.
LEMMA FieldsAre ==
  ASSUME NEW f \in Fields
  PROVE  /\ Sayable(f) /\ f.lead \in Int /\ f.time >= TimeFloor /\ f.diff # 0
         /\ f.block \in Nat /\ f.prev \in Nat /\ f.merkle \in Nat
         /\ f.block # NoNumber /\ f.time # NoNumber /\ f.diff # NoNumber
         /\ f.merkle # NoNumber /\ f.diff < TimeFloor
         /\ f.time # 0 /\ f.time # 1 /\ f.time \in Nat /\ f.diff \in Nat /\ f.clean \in BOOLEAN
         /\ f.target # NoNumber => f.target \in Nat
         /\ TimeFloor \in Nat
<1>1. /\ f.merkle \in Nat /\ f.time \in Nat /\ f.clean \in BOOLEAN /\ f.lead \in Int
      /\ f.diff \in 1..TimeFloor - 1 /\ f.target \in OwnTargets \cup {NoNumber}
      /\ f.time >= TimeFloor /\ f.block \in 0..Base - 1 /\ f.prev \in Nat
  <2>1. /\ f.merkle \in Merkles /\ f.time \in Times /\ f.clean \in BOOLEAN
        /\ f.lead \in {NoNumber, 3} /\ f.diff \in HeaderDiffs
        /\ f.target \in OwnTargets \cup {NoNumber}
        /\ f.block \in BlockNumbers /\ f.prev \in PrevHashes
    BY DEF Fields
  <2>2. NoNumber \in Int
    BY DEF NoNumber
  <2>3. f.diff \in 1..TimeFloor - 1 /\ f.block \in 0..Base - 1
    BY <2>1, NotifyAssumption, Zenon
  <2>4. f.time \in Nat /\ f.time >= TimeFloor /\ f.merkle \in Nat /\ f.prev \in Nat
    BY <2>1, NotifyAssumption
  <2> QED
    BY <2>1, <2>2, <2>3, <2>4
<1>2. TimeFloor \in Nat /\ Base \in Nat /\ OwnTargets \subseteq Nat
  BY NotifyAssumption
<1>3. f.diff \in Nat /\ f.diff # 0 /\ f.diff < TimeFloor /\ f.block \in Nat /\ f.time >= 2
  BY <1>1, <1>2
<1>4. f.target # NoNumber => f.target \in Nat
  BY <1>1, <1>2
<1> QED
  BY <1>1, <1>2, <1>3, <1>4 DEF Sayable, NoNumber

\* A head and tokens make a line.
LEMMA LineIs ==
  ASSUME NEW f \in Fields, NEW n \in Nat, NEW a \in [1..n -> Token]
  PROVE  Line(Head3(f) \o a, f, a, n)
<1>1. f.lead \in Int /\ f.block \in Nat /\ f.prev \in Nat
  BY FieldsAre DEF Sayable
<1>2. Text \in Token /\ Num(f.block) \in Token /\ Hex(f.prev, f.lead) \in Token
  BY <1>1 DEF Text, Num, Hex, Token, NoNumber
<1>3. Head3(f) \in [1..3 -> Token]
  BY <1>2 DEF Head3
<1>4. /\ Head3(f)[1] = Text /\ Head3(f)[2] = Num(f.block)
      /\ Head3(f)[3] = Hex(f.prev, f.lead)
  BY DEF Head3
<1>5. PICK h \in [1..3 -> Token], m \in Nat : h = Head3(f) /\ m = 3
  BY <1>3
<1>6. h \o a \in [1..m + n -> Token] /\ Holds(h \o a, 0, h, m) /\ Holds(h \o a, m, a, n)
  <2> h \in [1..m -> Token]
    BY <1>5
  <2> HIDE <1>5
  <2> QED
    BY Concat
<1>7. Len(h \o a) = 3 + n
  <2> m + n \in Nat
    BY <1>5
  <2> QED
    BY <1>5, <1>6, IsSeq
<1>8. (h \o a)[1] = h[1] /\ (h \o a)[2] = h[2] /\ (h \o a)[3] = h[3]
  <2>1. \A i \in 1..3 : (h \o a)[0 + i] = h[i]
    BY <1>5, <1>6 DEF Holds
  <2>2. 1 \in 1..3 /\ 2 \in 1..3 /\ 3 \in 1..3 /\ 0 + 1 = 1 /\ 0 + 2 = 2 /\ 0 + 3 = 3
    OBVIOUS
  <2>3. (h \o a)[0 + 1] = h[1] /\ (h \o a)[0 + 2] = h[2] /\ (h \o a)[0 + 3] = h[3]
    BY <2>1, <2>2, Zenon
  <2> QED
    BY <2>2, <2>3
<1> QED
  BY <1>4, <1>5, <1>6, <1>7, <1>8 DEF Line, Holds

\* The job that carries the fields of a line.
JobOf(m) == ParsedJob(m.block, m.prev, m.merkle, m.time, m.diff, m.target # NoNumber,
                      m.target, m.clean)

\* The layout with a timestamp, a difficulty and an optional target.
LEMMA OrderedIs == ASSUME NEW f \in Fields PROVE parse_array_job(Ordered(f)) = JobOf(f)
<1> DEFINE a == <<Num(f.time), Num(f.diff), Hex(f.merkle, f.lead), TargetToken(f),
                  Flag(f.clean)>>
           p == Ordered(f)
<1>1. a \in [1..5 -> Token]
  BY FieldsAre DEF Sayable, Num, Hex, TargetToken, EmptyToken, Flag, Token, NoNumber
<1>2. Line(p, f, a, 5)
  <2> 5 \in Nat
    OBVIOUS
  <2> HIDE DEF a
  <2> p = Head3(f) \o a
    BY DEF Ordered, a
  <2> QED
    BY <1>1, LineIs
<1>3. /\ Len(p) = 8 /\ p[1] = Text /\ p[2] = Num(f.block) /\ p[3] = Hex(f.prev, f.lead)
      /\ p[4] = Num(f.time) /\ p[5] = Num(f.diff) /\ p[6] = Hex(f.merkle, f.lead)
      /\ p[7] = TargetToken(f) /\ p[8] = Flag(f.clean)
  <2>1. \A i \in 1..5 : p[3 + i] = a[i]
    BY <1>2 DEF Line
  <2>2. p[3 + 1] = a[1] /\ p[3 + 2] = a[2] /\ p[3 + 3] = a[3] /\ p[3 + 4] = a[4]
        /\ p[3 + 5] = a[5]
    BY <2>1
  <2> QED
    BY <1>2, <2>2 DEF Line
<1> HIDE DEF p, a
<1>4. ~IsCompact(p) /\ IsOrdered(p)
  BY <1>3, FieldsAre DEF IsCompact, IsOrdered, IsHex, IsU64, Num, Hex, NoNumber
<1>5. parse_array_job(p) = ParseOrdered(p)
  BY <1>3, <1>4, FieldsAre DEF parse_array_job, IsU64, IsHex, Text, Num, Hex, NoNumber
<1>6. BoolValue(p[8]) = f.clean
  BY <1>3, FieldsAre DEF BoolValue, Flag, Sayable
<1>7. /\ U64(p[4]) = f.time /\ U64(p[5]) = f.diff /\ p[6].val = f.merkle
      /\ U64(p[2]) = f.block /\ p[3].val = f.prev
  BY <1>3 DEF U64, Num, Hex
<1>8. /\ Absent(p[7]) <=> f.target = NoNumber
      /\ ~Absent(p[7]) => ~Boolish(p[7]) /\ IsHex(p[7]) /\ p[7].val = f.target
  BY <1>3 DEF Absent, Boolish, IsHex, TargetToken, EmptyToken, Hex
<1>9. ParseOrdered(p)
        = ParsedJob(f.block, f.prev, f.merkle, f.time, f.diff, f.target # NoNumber,
                    IF f.target # NoNumber THEN f.target ELSE 0, f.clean)
  BY <1>3, <1>6, <1>7, <1>8, FieldsAre DEF ParseOrdered
<1> QED
  BY <1>5, <1>9 DEF JobOf, ParsedJob, p

\* A line that only the flexible parser takes, with four tokens behind the head.
LEMMA FlexibleIs ==
  ASSUME NEW f \in Fields, NEW p, NEW a \in [1..4 -> Token], Line(p, f, a, 4),
         ~IsCompact(p), ~IsOrdered(p),
         NEW acc, acc = Gather(Gather(Gather(Gather(Nothing, a[1]), a[2]), a[3]), a[4])
  PROVE  parse_array_job(p)
           = IF acc.merkle = NoNumber \/ acc.diff \in {NoNumber, 0} THEN Rejected
             ELSE ParsedJob(f.block, f.prev, acc.merkle,
                            IF acc.time = NoNumber THEN Now ELSE acc.time, acc.diff,
                            acc.target # NoNumber, acc.target, acc.clean)
<1>1. p \in [1..7 -> Token] /\ Len(p) = 7 /\ p[1] = Text /\ p[2] = Num(f.block)
      /\ p[3] = Hex(f.prev, f.lead)
  BY DEF Line
<1>2. \A i \in 1..4 : p[3 + i] = a[i]
  BY DEF Line
<1>3. SubSeq(p, 4, 7) = a
  <2>1. PICK o \in Nat, n \in Nat : o = 3 /\ n = 4
    OBVIOUS
  <2>2. p \in Seq(Token) /\ o + n <= Len(p)
    <3>1. PICK m \in Nat : m = 7
      OBVIOUS
    <3>2. p \in [1..m -> Token]
      BY <1>1, <3>1
    <3>3. p \in Seq(Token)
      <4> HIDE <1>1, <3>1
      <4> QED
        BY <3>2, IsSeq
    <3> QED
      BY <1>1, <2>1, <3>3
  <2>3. /\ SubSeq(p, o + 1, o + n) \in [1..n -> Token]
        /\ \A i \in 1..n : SubSeq(p, o + 1, o + n)[i] = p[o + i]
    <3> HIDE <1>1, <2>1
    <3>1. PICK t \in Seq(Token) : t = p
      BY <2>2
    <3>2. o + n <= Len(t)
      BY <2>2, <3>1
    <3>3. /\ SubSeq(t, o + 1, o + n) \in [1..n -> Token]
          /\ \A i \in 1..n : SubSeq(t, o + 1, o + n)[i] = t[o + i]
      BY <3>2, SubSeqIs
    <3> QED
      BY <3>1, <3>3
  <2>4. PICK q : q = SubSeq(p, 4, 7)
    OBVIOUS
  <2>5. q \in [1..4 -> Token] /\ \A i \in 1..4 : q[i] = a[i]
    BY <1>2, <2>1, <2>3, <2>4
  <2>6. q = a
    BY <2>5
  <2> QED
    BY <2>4, <2>6
<1>4. FoldLeft(Gather, Nothing, SubSeq(p, 4, Len(p))) = acc
  BY <1>1, <1>3, GatherFour
<1>5. parse_array_job(p) = ParseFlexible(p)
  BY <1>1, FieldsAre DEF parse_array_job, IsU64, IsHex, Text, Num, Hex, NoNumber
<1>6. ParseFlexible(p)
        = IF acc.merkle = NoNumber \/ acc.diff \in {NoNumber, 0} THEN Rejected
          ELSE ParsedJob(U64(p[2]), p[3].val, acc.merkle,
                         IF acc.time = NoNumber THEN Now ELSE acc.time, acc.diff,
                         acc.target # NoNumber, acc.target, acc.clean)
  BY <1>4, Zenon DEF ParseFlexible
<1>7. U64(p[2]) = f.block /\ p[3].val = f.prev
  BY <1>1 DEF U64, Num, Hex
<1> QED
  BY <1>5, <1>6, <1>7

\* What the flexible parser does with the tokens of the documented layouts.
LEMMA GatherMerkle ==
  ASSUME NEW acc \in Gathered, NEW v \in Nat, NEW n \in Int, acc.merkle = NoNumber
  PROVE  Gather(acc, Hex(v, n)) = [merkle |-> v, time |-> acc.time, diff |-> acc.diff,
                                 target |-> acc.target, clean |-> acc.clean]
BY DEF Gather, Absent, Boolish, IsHex, Hex, Gathered

\* The first number that can be one is the timestamp.
LEMMA GatherTime ==
  ASSUME NEW acc \in Gathered, NEW t \in Nat, t >= TimeFloor, t \notin {0, 1},
         acc.time = NoNumber
  PROVE  Gather(acc, Num(t)) = [merkle |-> acc.merkle, time |-> t, diff |-> acc.diff,
                              target |-> acc.target, clean |-> acc.clean]
<1> TimeFloor \in Nat
  BY NotifyAssumption
<1> QED
  BY DEF Gather, Absent, Boolish, IsHex, IsU64, U64, Num, NoNumber, Gathered

\* What the flexible parser takes for the difficulty where d stands.
Shown(d) == IF d = 1 THEN NoNumber ELSE d

\* A smaller one is the difficulty, unless it is 1, which looks like a flag.
LEMMA GatherDiff ==
  ASSUME NEW acc \in Gathered, NEW d \in Nat, d < TimeFloor, d # 0,
         acc.diff = NoNumber
  PROVE  Gather(acc, Num(d)) = [merkle |-> acc.merkle, time |-> acc.time, diff |-> Shown(d),
                              target |-> acc.target,
                              clean |-> IF d = 1 THEN TRUE ELSE acc.clean]
<1>1. TimeFloor \in Nat
  BY NotifyAssumption
<1>2. CASE d = 1
  <2>1. ~Absent(Num(d)) /\ Boolish(Num(d)) /\ BoolValue(Num(d)) = TRUE
    BY <1>2 DEF Absent, Boolish, BoolValue, Num
  <2>2. Gather(acc, Num(d)) = [acc EXCEPT !.clean = TRUE]
    BY <2>1 DEF Gather
  <2> QED
    BY <1>2, <2>2 DEF Gathered, Shown
<1>3. CASE d # 1
  BY <1>1, <1>3 DEF Gather, Absent, Boolish, IsHex, IsU64, U64, Num, NoNumber, Gathered,
     Shown
<1> QED
  BY <1>2, <1>3

\* An empty token says nothing, a flag whether the job is clean.
LEMMA GatherRest ==
  ASSUME NEW acc \in Gathered, NEW b \in BOOLEAN
  PROVE  /\ Gather(acc, EmptyToken) = acc
         /\ Gather(acc, Flag(b)) = [merkle |-> acc.merkle, time |-> acc.time, diff |-> acc.diff,
                                  target |-> acc.target, clean |-> b]
<1>1. Gather(acc, EmptyToken) = acc
  BY DEF Gather, Absent, EmptyToken
<1>2. Gather(acc, Flag(b)) = [merkle |-> acc.merkle, time |-> acc.time, diff |-> acc.diff,
                            target |-> acc.target, clean |-> b]
  BY DEF Gather, Absent, Boolish, BoolValue, Flag, Gathered
<1> QED
  BY <1>1, <1>2

\* The compact layout, whose timestamp is the clock, with a target or without.
LEMMA CompactIs ==
  ASSUME NEW f \in Fields
  PROVE  parse_array_job(Compact(f))
           = IF f.target = NoNumber /\ f.diff = 1 THEN Rejected ELSE JobOf(Untimed(f))
<1> DEFINE a == <<Hex(f.merkle, f.lead), Num(f.diff), TargetToken(f), Flag(f.clean)>>
           p == Compact(f)
<1>1. a \in [1..4 -> Token]
  BY FieldsAre DEF Sayable, Num, Hex, TargetToken, EmptyToken, Flag, Token, NoNumber
<1>2. Line(p, f, a, 4)
  <2> 4 \in Nat
    OBVIOUS
  <2> HIDE DEF a
  <2> p = Head3(f) \o a
    BY DEF Compact, a
  <2> QED
    BY <1>1, LineIs
<1>3. /\ a[1] = Hex(f.merkle, f.lead) /\ a[2] = Num(f.diff) /\ a[3] = TargetToken(f)
      /\ a[4] = Flag(f.clean)
  OBVIOUS
<1> HIDE DEF p, a
<1>4. /\ Len(p) = 7 /\ p[1] = Text /\ p[2] = Num(f.block) /\ p[3] = Hex(f.prev, f.lead)
      /\ p[4] = a[1] /\ p[5] = a[2] /\ p[6] = a[3] /\ p[7] = a[4]
  <2>1. \A i \in 1..4 : p[3 + i] = a[i]
    BY <1>2 DEF Line
  <2>2. p[3 + 1] = a[1] /\ p[3 + 2] = a[2] /\ p[3 + 3] = a[3] /\ p[3 + 4] = a[4]
    BY <2>1
  <2> QED
    BY <1>2, <2>2 DEF Line
<1>5. Untimed(f) = [f EXCEPT !.time = Now] /\ Now \in Nat /\ Now # NoNumber
  BY NotifyAssumption DEF Untimed, NoNumber
<1>6. JobOf(Untimed(f)) = ParsedJob(f.block, f.prev, f.merkle, Now, f.diff,
                                    f.target # NoNumber, f.target, f.clean)
  BY <1>5 DEF JobOf, Fields
<1>7. CASE f.target # NoNumber
  <2>1. IsCompact(p)
    BY <1>3, <1>4, <1>7, FieldsAre DEF IsCompact, IsHex, IsU64, Num, Hex, TargetToken, NoNumber
  <2>2. parse_array_job(p) = ParseCompact(p)
    BY <1>4, <2>1, FieldsAre DEF parse_array_job, IsU64, IsHex, Text, Num, Hex, NoNumber
  <2>3. BoolValue(p[7]) = f.clean
    BY <1>3, <1>4, FieldsAre DEF BoolValue, Flag, Sayable
  <2>4. /\ U64(p[5]) = f.diff /\ p[4].val = f.merkle /\ p[6].val = f.target
        /\ U64(p[2]) = f.block /\ p[3].val = f.prev
    BY <1>3, <1>4, <1>7 DEF U64, Num, Hex, TargetToken
  <2> QED
    BY <1>6, <1>7, <2>2, <2>3, <2>4, FieldsAre DEF ParseCompact, p
<1>8. CASE f.target = NoNumber
  <2>1. a[3] = EmptyToken
    BY <1>3, <1>8 DEF TargetToken
  <2>2. ~IsCompact(p) /\ ~IsOrdered(p)
    BY <1>3, <1>4, <2>1 DEF IsCompact, IsOrdered, IsHex, EmptyToken
  <2> DEFINE g1 == [merkle |-> f.merkle, time |-> NoNumber, diff |-> NoNumber,
                    target |-> NoNumber, clean |-> FALSE]
             g2 == [merkle |-> f.merkle, time |-> NoNumber, diff |-> Shown(f.diff),
                    target |-> NoNumber, clean |-> IF f.diff = 1 THEN TRUE ELSE FALSE]
             g4 == [merkle |-> f.merkle, time |-> NoNumber, diff |-> Shown(f.diff),
                    target |-> NoNumber, clean |-> f.clean]
  <2>3. f.merkle \in Nat /\ f.diff \in Nat /\ f.clean \in BOOLEAN /\ f.lead \in Int
    BY FieldsAre DEF Sayable
  <2>4. Nothing \in Gathered /\ g1 \in Gathered /\ g2 \in Gathered
    BY <2>3 DEF Nothing, Gathered, NoNumber, Shown
  <2>5. Gather(Nothing, a[1]) = g1
    <3>1. Nothing.merkle = NoNumber
      BY DEF Nothing
    <3>2. Gather(Nothing, Hex(f.merkle, f.lead))
      = [merkle |-> f.merkle, time |-> Nothing.time, diff |-> Nothing.diff,
          target |-> Nothing.target, clean |-> Nothing.clean]
      <4> HIDE DEF g1
      <4> QED
        BY <1>3, <2>3, <2>4, <3>1, FieldsAre, GatherMerkle
    <3> QED
      BY <1>3, <3>2 DEF Nothing
  <2>6. Gather(g1, a[2]) = g2
    BY <1>3, <2>3, <2>4, FieldsAre, GatherDiff DEF Nothing
  <2>7. Gather(g2, a[3]) = g2 /\ Gather(g2, a[4]) = g4
    BY <1>3, <2>1, <2>3, <2>4, GatherRest
  <2>8. g4 = [merkle |-> f.merkle, time |-> NoNumber, diff |-> Shown(f.diff),
              target |-> NoNumber, clean |-> f.clean]
    OBVIOUS
  <2> HIDE DEF g1, g2, g4
  <2>9. parse_array_job(p)
          = IF g4.merkle = NoNumber \/ g4.diff \in {NoNumber, 0} THEN Rejected
            ELSE ParsedJob(f.block, f.prev, g4.merkle,
                           IF g4.time = NoNumber THEN Now ELSE g4.time, g4.diff,
                           g4.target # NoNumber, g4.target, g4.clean)
    <3>1. g4 = Gather(Gather(Gather(Gather(Nothing, a[1]), a[2]), a[3]), a[4])
      BY <2>5, <2>6, <2>7
    <3> QED
      BY <1>1, <1>2, <2>2, <3>1, FlexibleIs
  <2>10. g4.merkle # NoNumber /\ (g4.diff \in {NoNumber, 0} <=> f.diff = 1)
    BY <2>8, FieldsAre DEF Shown
  <2> QED
    BY <1>6, <1>8, <2>8, <2>9, <2>10 DEF p, Shown
<1> QED
  BY <1>7, <1>8

\* The merkle root before timestamp and difficulty.
LEMMA MerkleFirstIs ==
  ASSUME NEW f \in Fields
  PROVE  parse_array_job(MerkleFirst(f))
           = IF f.diff = 1 THEN Rejected ELSE JobOf(NoTarget(f))
<1> DEFINE a == <<Hex(f.merkle, f.lead), Num(f.time), Num(f.diff), Flag(f.clean)>>
           p == MerkleFirst(f)
<1>1. a \in [1..4 -> Token]
  BY FieldsAre DEF Sayable, Num, Hex, Flag, Token, NoNumber
<1>2. Line(p, f, a, 4)
  <2> 4 \in Nat
    OBVIOUS
  <2> HIDE DEF a
  <2> p = Head3(f) \o a
    BY DEF MerkleFirst, a
  <2> QED
    BY <1>1, LineIs
<1>3. /\ a[1] = Hex(f.merkle, f.lead) /\ a[2] = Num(f.time) /\ a[3] = Num(f.diff)
      /\ a[4] = Flag(f.clean)
  OBVIOUS
<1> HIDE DEF p, a
<1>4. p[6] = Num(f.diff)
  <2>1. \A i \in 1..4 : p[3 + i] = a[i]
    BY <1>2 DEF Line
  <2>2. p[3 + 3] = a[3]
    BY <2>1
  <2> QED
    BY <1>3, <2>2
<1>5. ~IsCompact(p) /\ ~IsOrdered(p)
  BY <1>4 DEF IsCompact, IsOrdered, IsHex, Num
<1> DEFINE g1 == [merkle |-> f.merkle, time |-> NoNumber, diff |-> NoNumber,
                  target |-> NoNumber, clean |-> FALSE]
           g2 == [merkle |-> f.merkle, time |-> f.time, diff |-> NoNumber,
                  target |-> NoNumber, clean |-> FALSE]
           g3 == [merkle |-> f.merkle, time |-> f.time, diff |-> Shown(f.diff),
                  target |-> NoNumber, clean |-> IF f.diff = 1 THEN TRUE ELSE FALSE]
           g4 == [merkle |-> f.merkle, time |-> f.time, diff |-> Shown(f.diff),
                  target |-> NoNumber, clean |-> f.clean]
<1>6. /\ f.merkle \in Nat /\ f.time \in Nat /\ f.diff \in Nat /\ f.clean \in BOOLEAN
      /\ f.lead \in Int
  BY FieldsAre DEF Sayable
<1>7. Nothing \in Gathered /\ g1 \in Gathered /\ g2 \in Gathered /\ g3 \in Gathered
  BY <1>6 DEF Nothing, Gathered, NoNumber, Shown
<1>8. Gather(Nothing, a[1]) = g1
  <2>1. Nothing.merkle = NoNumber
    BY DEF Nothing
  <2>2. Gather(Nothing, Hex(f.merkle, f.lead))
    = [merkle |-> f.merkle, time |-> Nothing.time, diff |-> Nothing.diff,
        target |-> Nothing.target, clean |-> Nothing.clean]
    <3> HIDE DEF g1
    <3> QED
      BY <1>3, <1>6, <1>7, <2>1, FieldsAre, GatherMerkle
  <2> QED
    BY <1>3, <2>2 DEF Nothing
<1>9. Gather(g1, a[2]) = g2
  <2>1. g1.time = NoNumber
    OBVIOUS
  <2>2. Gather(g1, Num(f.time))
    = [merkle |-> g1.merkle, time |-> f.time, diff |-> g1.diff,
        target |-> g1.target, clean |-> g1.clean]
    <3> HIDE DEF g1
    <3> QED
      BY <1>6, <1>7, <2>1, FieldsAre, GatherTime
  <2> QED
    BY <1>3, <2>2
<1>10. Gather(g2, a[3]) = g3
  <2>1. g2.diff = NoNumber
    OBVIOUS
  <2>2. Gather(g2, Num(f.diff))
    = [merkle |-> g2.merkle, time |-> g2.time, diff |-> Shown(f.diff),
        target |-> g2.target, clean |-> IF f.diff = 1 THEN TRUE ELSE g2.clean]
    <3> HIDE DEF g2
    <3> QED
      BY <1>6, <1>7, <2>1, FieldsAre, GatherDiff
  <2> QED
    BY <1>3, <2>2
<1>11. Gather(g3, a[4]) = g4
  BY <1>3, <1>6, <1>7, GatherRest
<1>12. g4 = [merkle |-> f.merkle, time |-> f.time, diff |-> Shown(f.diff),
             target |-> NoNumber, clean |-> f.clean]
  OBVIOUS
<1> HIDE DEF g1, g2, g3, g4
<1>13. parse_array_job(p)
         = IF g4.merkle = NoNumber \/ g4.diff \in {NoNumber, 0} THEN Rejected
           ELSE ParsedJob(f.block, f.prev, g4.merkle,
                          IF g4.time = NoNumber THEN Now ELSE g4.time, g4.diff,
                          g4.target # NoNumber, g4.target, g4.clean)
  <2>1. g4 = Gather(Gather(Gather(Gather(Nothing, a[1]), a[2]), a[3]), a[4])
    BY <1>8, <1>9, <1>10, <1>11
  <2> QED
    BY <1>1, <1>2, <1>5, <2>1, FlexibleIs
<1>14. JobOf(NoTarget(f))
         = ParsedJob(f.block, f.prev, f.merkle, f.time, f.diff, FALSE, NoNumber, f.clean)
  BY DEF JobOf, NoTarget, Fields
<1>15. g4.merkle # NoNumber /\ (g4.diff \in {NoNumber, 0} <=> f.diff = 1)
  BY <1>12, FieldsAre DEF Shown
<1> QED
  BY <1>12, <1>13, <1>14, <1>15, FieldsAre DEF p, Shown

\* The merkle root between timestamp and difficulty.
LEMMA MerkleSecondIs ==
  ASSUME NEW f \in Fields
  PROVE  parse_array_job(MerkleSecond(f))
           = IF f.diff = 1 THEN Rejected ELSE JobOf(NoTarget(f))
<1> DEFINE a == <<Num(f.time), Hex(f.merkle, f.lead), Num(f.diff), Flag(f.clean)>>
           p == MerkleSecond(f)
<1>1. a \in [1..4 -> Token]
  BY FieldsAre DEF Sayable, Num, Hex, Flag, Token, NoNumber
<1>2. Line(p, f, a, 4)
  <2> 4 \in Nat
    OBVIOUS
  <2> HIDE DEF a
  <2> p = Head3(f) \o a
    BY DEF MerkleSecond, a
  <2> QED
    BY <1>1, LineIs
<1>3. /\ a[1] = Num(f.time) /\ a[2] = Hex(f.merkle, f.lead) /\ a[3] = Num(f.diff)
      /\ a[4] = Flag(f.clean)
  OBVIOUS
<1> HIDE DEF p, a
<1>4. p[6] = Num(f.diff)
  <2>1. \A i \in 1..4 : p[3 + i] = a[i]
    BY <1>2 DEF Line
  <2>2. p[3 + 3] = a[3]
    BY <2>1
  <2> QED
    BY <1>3, <2>2
<1>5. ~IsCompact(p) /\ ~IsOrdered(p)
  BY <1>4 DEF IsCompact, IsOrdered, IsHex, Num
<1> DEFINE g1 == [merkle |-> NoNumber, time |-> f.time, diff |-> NoNumber,
                  target |-> NoNumber, clean |-> FALSE]
           g2 == [merkle |-> f.merkle, time |-> f.time, diff |-> NoNumber,
                  target |-> NoNumber, clean |-> FALSE]
           g3 == [merkle |-> f.merkle, time |-> f.time, diff |-> Shown(f.diff),
                  target |-> NoNumber, clean |-> IF f.diff = 1 THEN TRUE ELSE FALSE]
           g4 == [merkle |-> f.merkle, time |-> f.time, diff |-> Shown(f.diff),
                  target |-> NoNumber, clean |-> f.clean]
<1>6. /\ f.merkle \in Nat /\ f.time \in Nat /\ f.diff \in Nat /\ f.clean \in BOOLEAN
      /\ f.lead \in Int
  BY FieldsAre DEF Sayable
<1>7. Nothing \in Gathered /\ g1 \in Gathered /\ g2 \in Gathered /\ g3 \in Gathered
  BY <1>6 DEF Nothing, Gathered, NoNumber, Shown
<1>8. Gather(Nothing, a[1]) = g1
  <2>1. Nothing.time = NoNumber
    BY DEF Nothing
  <2>2. Gather(Nothing, Num(f.time))
    = [merkle |-> Nothing.merkle, time |-> f.time, diff |-> Nothing.diff,
        target |-> Nothing.target, clean |-> Nothing.clean]
    <3> HIDE DEF g1
    <3> QED
      BY <1>3, <1>6, <1>7, <2>1, FieldsAre, GatherTime
  <2> QED
    BY <1>3, <2>2 DEF Nothing
<1>9. Gather(g1, a[2]) = g2
  <2>1. g1.merkle = NoNumber
    OBVIOUS
  <2>2. Gather(g1, Hex(f.merkle, f.lead))
    = [merkle |-> f.merkle, time |-> g1.time, diff |-> g1.diff,
        target |-> g1.target, clean |-> g1.clean]
    <3> HIDE DEF g1
    <3> QED
      BY <1>3, <1>6, <1>7, <2>1, FieldsAre, GatherMerkle
  <2> QED
    BY <1>3, <2>2
<1>10. Gather(g2, a[3]) = g3
  <2>1. g2.diff = NoNumber
    OBVIOUS
  <2>2. Gather(g2, Num(f.diff))
    = [merkle |-> g2.merkle, time |-> g2.time, diff |-> Shown(f.diff),
        target |-> g2.target, clean |-> IF f.diff = 1 THEN TRUE ELSE g2.clean]
    <3> HIDE DEF g2
    <3> QED
      BY <1>6, <1>7, <2>1, FieldsAre, GatherDiff
  <2> QED
    BY <1>3, <2>2
<1>11. Gather(g3, a[4]) = g4
  BY <1>3, <1>6, <1>7, GatherRest
<1>12. g4 = [merkle |-> f.merkle, time |-> f.time, diff |-> Shown(f.diff),
             target |-> NoNumber, clean |-> f.clean]
  OBVIOUS
<1> HIDE DEF g1, g2, g3, g4
<1>13. parse_array_job(p)
         = IF g4.merkle = NoNumber \/ g4.diff \in {NoNumber, 0} THEN Rejected
           ELSE ParsedJob(f.block, f.prev, g4.merkle,
                          IF g4.time = NoNumber THEN Now ELSE g4.time, g4.diff,
                          g4.target # NoNumber, g4.target, g4.clean)
  <2>1. g4 = Gather(Gather(Gather(Gather(Nothing, a[1]), a[2]), a[3]), a[4])
    BY <1>8, <1>9, <1>10, <1>11
  <2> QED
    BY <1>1, <1>2, <1>5, <2>1, FlexibleIs
<1>14. JobOf(NoTarget(f))
         = ParsedJob(f.block, f.prev, f.merkle, f.time, f.diff, FALSE, NoNumber, f.clean)
  BY DEF JobOf, NoTarget, Fields
<1>15. g4.merkle # NoNumber /\ (g4.diff \in {NoNumber, 0} <=> f.diff = 1)
  BY <1>12, FieldsAre DEF Shown
<1> QED
  BY <1>12, <1>13, <1>14, <1>15, FieldsAre DEF p, Shown

\* What a parser makes of a line: the job the pool meant, or of an illegible
\* line none.
Outcome(job, meant, fixed) ==
  Specified(meant) => /\ Sayable(meant)
                      /\ job = IF Legible(meant, fixed) THEN JobOf(meant) ELSE Rejected

\* Whatever layout a pool uses, the parser makes the job it means.
LEMMA ReadAsMeant ==
  ASSUME NEW r \in Readings
  PROVE  Outcome(r.job, r.meant, r.fixed)
<1> SUFFICES ASSUME Specified(r.meant)
             PROVE  /\ Sayable(r.meant)
                    /\ r.job = IF Legible(r.meant, r.fixed) THEN JobOf(r.meant) ELSE Rejected
  BY DEF Outcome
<1>1. PICK l \in Lines :
        r = [job |-> parse_array_job(l.array), meant |-> l.meant, fixed |-> l.fixed]
  BY DEF Readings
<1>2. ~Specified(Unspecified)
  BY DEF Specified, Unspecified
<1>3. PICK f \in Fields :
        \/ l = [array |-> Ordered(f), meant |-> f, fixed |-> TRUE]
        \/ l = [array |-> MerkleFirst(f), meant |-> NoTarget(f), fixed |-> FALSE]
        \/ l = [array |-> MerkleSecond(f), meant |-> NoTarget(f), fixed |-> FALSE]
        \/ l = [array |-> Compact(f), meant |-> Untimed(f), fixed |-> f.target # NoNumber]
  BY <1>1, <1>2 DEF Lines
<1>4. Sayable(f)
  BY FieldsAre
<1>5. Now \in Nat
  BY NotifyAssumption
<1>6. Sayable(NoTarget(f)) /\ Sayable(Untimed(f))
  BY <1>4, <1>5 DEF Sayable, NoTarget, Untimed, Fields
<1>7. /\ NoTarget(f).diff = f.diff /\ Untimed(f).diff = f.diff
      /\ f.diff # 0 /\ Legible(f, TRUE)
      /\ Legible(NoTarget(f), FALSE) <=> f.diff # 1
      /\ Legible(Untimed(f), f.target # NoNumber) <=> ~(f.target = NoNumber /\ f.diff = 1)
  BY FieldsAre DEF Legible, Specified, NoTarget, Untimed, Fields
<1>8. CASE l = [array |-> Ordered(f), meant |-> f, fixed |-> TRUE]
  BY <1>1, <1>4, <1>7, <1>8, OrderedIs
<1>9. CASE l = [array |-> MerkleFirst(f), meant |-> NoTarget(f), fixed |-> FALSE]
  BY <1>1, <1>6, <1>7, <1>9, MerkleFirstIs
<1>10. CASE l = [array |-> MerkleSecond(f), meant |-> NoTarget(f), fixed |-> FALSE]
  BY <1>1, <1>6, <1>7, <1>10, MerkleSecondIs
<1>11. CASE l = [array |-> Compact(f), meant |-> Untimed(f), fixed |-> f.target # NoNumber]
  <2>1. r.fixed = (f.target # NoNumber) /\ r.meant = Untimed(f)
        /\ r.job = parse_array_job(Compact(f))
    BY <1>1, <1>11
  <2>2. Legible(r.meant, r.fixed) <=> ~(f.target = NoNumber /\ f.diff = 1)
    BY <1>7, <2>1
  <2> QED
    BY <1>6, <2>1, <2>2, CompactIs
<1> QED
  BY <1>3, <1>8, <1>9, <1>10, <1>11

\* An object is read by its names.
LEMMA ObjectAsMeant ==
  ASSUME NEW f \in Fields
  PROVE  Outcome(parse_object_job(f), f, TRUE)
<1>1. f.time # 0 /\ f.diff # 0
  BY FieldsAre
<1>2. Sayable(f) /\ parse_object_job(f) = JobOf(f)
  BY <1>1, FieldsAre DEF parse_object_job, JobOf
<1>3. Legible(f, TRUE)
  BY <1>1 DEF Legible, Specified
<1> QED
  BY <1>2, <1>3 DEF Outcome

-----------------------------------------------------------------------------
(* AlphaNotify: targets.                                                   *)

\* The consensus target of a difficulty that a parser accepts.
LEMMA ConsensusTarget ==
  ASSUME NEW d \in Nat \ {0}
  PROVE  /\ alpha_target_from_difficulty(d) = MaxTarget \div Power(2, d \div ShiftStep)
         /\ alpha_target_from_difficulty(d) \in 0..MaxTarget
<1>1. /\ ShiftStep \in Nat \ {0} /\ Bits \in Nat /\ MaxTarget \in Nat
      /\ Power(2, Bits) = MaxTarget + 1
  BY NotifyAssumption, BasePowers DEF MaxTarget
<1>2. PICK u \in Nat : u = d \div ShiftStep
  BY <1>1, DivNat
<1>3. 2 \in Nat \ {0}
  OBVIOUS
<1>4. PICK p \in Nat \ {0} : p = Power(2, u)
  BY <1>3, PowerPositive
<1>5. MaxTarget \div p \in 0..MaxTarget
  <2>1. MaxTarget \div p <= MaxTarget \div 1 /\ MaxTarget \div 1 = MaxTarget
    <3>1. MaxTarget \in Nat /\ 1 \in Nat \ {0} /\ 1 <= p
      BY <1>1
    <3>2. MaxTarget \div p <= MaxTarget \div 1
      <4> HIDE <1>4
      <4> QED
        BY <3>1, DivSmaller
    <3> QED
      BY <3>1, <3>2
  <2>2. MaxTarget \div p \in Nat
    BY <1>1, DivNat
  <2> QED
    BY <1>1, <2>1, <2>2
<1>6. CASE u >= Bits
  <2>1. Power(2, Bits) <= Power(2, u)
    BY <1>1, <1>3, <1>6, PowerLeq
  <2>2. MaxTarget < p
    BY <1>1, <1>4, <2>1
  <2>3. MaxTarget \div p = 0
    BY <1>1, <2>2, DivNat
  <2> QED
    BY <1>1, <1>2, <1>4, <1>6, <2>3 DEF alpha_target_from_difficulty
<1>7. CASE ~(u >= Bits)
  BY <1>2, <1>4, <1>5, <1>7 DEF alpha_target_from_difficulty
<1> QED
  BY <1>6, <1>7

\* The target a job of the current line gets: what TargetFromScratch says.
Wanted(m, a) ==
  LET network == MaxTarget \div Power(2, m.diff \div ShiftStep)
      scaled  == (network * Scale) \div Denominator(a.d)
  IN IF m.target # NoNumber /\ (a.off \/ m.target # network) THEN m.target
     ELSE IF a.off THEN network
     ELSE IF scaled > MaxTarget THEN MaxTarget ELSE scaled

\* Sayable lines have a difficulty, and it is not 0.
LEMMA SayableIs ==
  ASSUME NEW m, Sayable(m)
  PROVE  /\ m.merkle \in Nat /\ m.time \in Nat /\ m.clean \in BOOLEAN
         /\ m.block % Base = m.block /\ m.block \in Nat /\ m.prev \in Nat
         /\ m.diff \in Nat \ {0} /\ (m.target # NoNumber => m.target \in Nat)
<1>1. /\ m.diff \in 1..TimeFloor - 1 /\ TimeFloor \in Nat
      /\ m.block \in 0..Base - 1 /\ Base \in Nat
  BY NotifyAssumption DEF Sayable
<1>2. m.diff \in Nat \ {0} /\ m.block % Base = m.block /\ m.block \in Nat
  BY <1>1
<1>3. OwnTargets \subseteq Nat
  BY NotifyAssumption
<1>4. m.target # NoNumber => m.target \in Nat
  BY <1>3 DEF Sayable
<1> QED
  BY <1>2, <1>4 DEF Sayable

\* A job that knows the target of its notify is targeted from scratch, whatever
\* targets it had before.
LEMMA TargetIsWanted ==
  ASSUME NEW m, Sayable(m), NEW job \in AlphaJob, NEW d \in Nat, NEW off \in BOOLEAN,
         job.difficulty = m.diff, job.has_target <=> m.target # NoNumber,
         NotifyTarget(job) = IF m.target # NoNumber THEN m.target
                             ELSE alpha_target_from_difficulty(m.diff),
         NEW new, new = apply_pool_share_target(job, d, off)
  PROVE  /\ new \in AlphaJob /\ new.targets_initialized
         /\ new.block_number = job.block_number /\ new.previous_hash = job.previous_hash
         /\ new.merkle_root = job.merkle_root /\ new.timestamp = job.timestamp
         /\ new.difficulty = job.difficulty /\ new.has_target = job.has_target
         /\ new.clean_jobs = job.clean_jobs
         /\ new.notify_target_be = NotifyTarget(job)
         /\ new.target_be = Wanted(m, [d |-> d, off |-> off])
<1>1. PICK network \in 0..MaxTarget :
        /\ network = alpha_target_from_difficulty(m.diff)
        /\ network = MaxTarget \div Power(2, m.diff \div ShiftStep)
  BY SayableIs, ConsensusTarget
<1>2. PICK den \in Nat \ {0} : den = Denominator(d)
  <2> Base \in Nat
    BY BasePowers
  <2> QED
    BY DenominatorIs
<1>3. PICK scaled \in Nat :
        /\ scaled = scale_target_for_pool_difficulty(network, d)
        /\ scaled = IF (network * Scale) \div den > MaxTarget THEN MaxTarget
                    ELSE (network * Scale) \div den
  <2>1. network \in Nat /\ Scale \in Nat /\ MaxTarget \in Nat
    BY BasePowers
  <2>2. network * Scale \in Nat
    BY <2>1
  <2>3. (network * Scale) \div den \in Nat
    BY <2>2, DivNat
  <2> QED
    BY <1>2, <2>1, <2>3, ScaleIs
<1>4. PICK notify \in Nat : notify = NotifyTarget(job)
  <2> network \in Nat
    BY BasePowers
  <2> QED
    BY <1>1, SayableIs
<1>5. PICK t : t = IF off THEN IF job.has_target THEN notify ELSE network
                   ELSE IF Explicit(job) THEN notify ELSE scaled
  OBVIOUS
<1>6. t \in Nat /\ network \in Nat /\ Explicit(job) \in BOOLEAN
  <2>1. network \in Nat
    BY BasePowers
  <2>2. job.has_target \in BOOLEAN
    BY DEF AlphaJob
  <2>3. Explicit(job) \in BOOLEAN
    BY <2>2 DEF Explicit
  <2> QED
    BY <1>5, <2>1, <2>3
<1>7. new = [job EXCEPT !.network_target_be = network, !.notify_target_be = notify,
                        !.targets_initialized = TRUE, !.explicit_share_target = Explicit(job),
                        !.local_scaling_disabled = off, !.target_be = t]
  BY <1>1, <1>3, <1>4, <1>5, Zenon DEF apply_pool_share_target
<1>8. t = Wanted(m, [d |-> d, off |-> off])
  <2>1. Explicit(job) <=> m.target # NoNumber /\ m.target # network
    BY <1>1 DEF Explicit
  <2>2. m.target # NoNumber => notify = m.target
    BY <1>4
  <2>3. Wanted(m, [d |-> d, off |-> off])
          = IF m.target # NoNumber /\ (off \/ m.target # network) THEN m.target
            ELSE IF off THEN network ELSE scaled
    BY <1>1, <1>2, <1>3 DEF Wanted
  <2> QED
    BY <1>4, <1>5, <2>1, <2>2, <2>3
<1> QED
  BY <1>4, <1>6, <1>7, <1>8 DEF AlphaJob

\* A job as the parser leaves it.
LEMMA FreshJob ==
  ASSUME NEW m, Sayable(m)
  PROVE  /\ JobOf(m) \in AlphaJob /\ JobOf(m).difficulty = m.diff
         /\ JobOf(m).has_target <=> m.target # NoNumber
         /\ JobOf(m).block_number = m.block /\ JobOf(m).previous_hash = m.prev
         /\ JobOf(m).merkle_root = m.merkle /\ JobOf(m).timestamp = m.time
         /\ JobOf(m).clean_jobs = m.clean
         /\ NotifyTarget(JobOf(m)) = IF m.target # NoNumber THEN m.target
                                     ELSE alpha_target_from_difficulty(m.diff)
<1>1. alpha_target_from_difficulty(m.diff) \in Nat
  BY SayableIs, ConsensusTarget, BasePowers
<1>2. PICK j : j = JobOf(m)
  OBVIOUS
<1>3. j = [block_number |-> m.block, previous_hash |-> m.prev,
           merkle_root |-> m.merkle, timestamp |-> m.time, difficulty |-> m.diff,
           has_target |-> m.target # NoNumber,
           target_be |-> IF m.target # NoNumber THEN m.target
                         ELSE alpha_target_from_difficulty(m.diff),
           clean_jobs |-> m.clean,
           network_target_be |-> 0, notify_target_be |-> 0, targets_initialized |-> FALSE,
           explicit_share_target |-> FALSE, local_scaling_disabled |-> FALSE]
  BY <1>2, SayableIs DEF JobOf, ParsedJob
<1>4. j \in AlphaJob
  BY <1>1, <1>3, SayableIs DEF AlphaJob
<1>5. NotifyTarget(j) = IF m.target # NoNumber THEN m.target
                        ELSE alpha_target_from_difficulty(m.diff)
  BY <1>3 DEF NotifyTarget
<1>6. /\ j.difficulty = m.diff /\ (j.has_target <=> m.target # NoNumber)
      /\ j.merkle_root = m.merkle /\ j.timestamp = m.time /\ j.clean_jobs = m.clean
      /\ j.block_number = m.block /\ j.previous_hash = m.prev
  BY <1>3
<1> QED
  BY <1>2, <1>4, <1>5, <1>6

-----------------------------------------------------------------------------
(* AlphaNotify: the invariant.                                             *)

\* The invariant holds initially.
LEMMA NotifyInitially == NotifyInit => NotifyInv
<1> SUFFICES ASSUME NotifyInit PROVE NotifyInv
  OBVIOUS
<1>1. 2 * Scale \in Nat
  BY BasePowers
<1>2. /\ pool_difficulty \in Nat /\ disable_local_target_scaling \in BOOLEAN
      /\ refused = FALSE
      /\ applied \in [d : Nat, off : BOOLEAN]
  BY <1>1 DEF NotifyInit
<1>3. ~Specified(said)
  BY DEF NotifyInit, Specified, Unspecified
<1> QED
  BY <1>2, <1>3 DEF NotifyInv, CaptureInv, FieldsAsMeant, TargetFromScratch

\* A job gets its targets, and with them everything the invariant says.
LEMMA Targeted ==
  ASSUME NEW d \in Nat, NEW off \in BOOLEAN, NEW job \in AlphaJob,
         Specified(said') => /\ Sayable(said') /\ job.difficulty = said'.diff
                             /\ job.has_target <=> said'.target # NoNumber
                             /\ job.block_number = said'.block
                             /\ job.previous_hash = said'.prev
                             /\ job.merkle_root = said'.merkle
                             /\ job.timestamp = said'.time /\ job.clean_jobs = said'.clean
                             /\ NotifyTarget(job) = IF said'.target # NoNumber THEN said'.target
                                                    ELSE alpha_target_from_difficulty(said'.diff),
         current_job' = apply_pool_share_target(job, d, off),
         applied' = [d |-> d, off |-> off], refused' = FALSE
  PROVE  CaptureInv' /\ FieldsAsMeant' /\ TargetFromScratch'
<1> SUFFICES ASSUME Specified(said')
             PROVE  CaptureInv' /\ FieldsAsMeant' /\ TargetFromScratch'
  BY DEF CaptureInv, FieldsAsMeant, TargetFromScratch
<1>1. PICK m : m = said'
  OBVIOUS
<1>2. PICK j : j = current_job'
  OBVIOUS
<1>3. /\ j \in AlphaJob /\ j.targets_initialized
      /\ j.block_number = job.block_number /\ j.previous_hash = job.previous_hash
      /\ j.merkle_root = job.merkle_root /\ j.timestamp = job.timestamp
      /\ j.difficulty = job.difficulty /\ j.has_target = job.has_target
      /\ j.clean_jobs = job.clean_jobs
      /\ j.notify_target_be = NotifyTarget(job)
      /\ j.target_be = Wanted(m, [d |-> d, off |-> off])
  BY <1>1, <1>2, TargetIsWanted
<1>4. Sayable(m) /\ m.diff # 0
  BY <1>1, SayableIs
<1>5. CaptureInv'
  BY <1>1, <1>2, <1>3, <1>4 DEF CaptureInv, have_job, Sayable
<1>6. FieldsAsMeant'
  BY <1>1, <1>2, <1>3 DEF FieldsAsMeant
<1>7. TargetFromScratch'
  BY <1>1, <1>2, <1>3 DEF TargetFromScratch, Wanted
<1> QED
  BY <1>5, <1>6, <1>7

\* A legible line of a documented layout is not refused.
LEMMA NotifyStep ==
  ASSUME NotifyInv, NEW job, NEW meant, NEW fixed, Outcome(job, meant, fixed),
         Notify(job, meant, fixed)
  PROVE  NotifyInv'
<1>1. ASSUME job.difficulty = 0, Refuse(meant, fixed) PROVE NotifyInv'
  <2>1. ~Legible(meant, fixed)
    <3> SUFFICES ASSUME Legible(meant, fixed) PROVE FALSE
      OBVIOUS
    <3>1. Sayable(meant) /\ job = JobOf(meant)
      BY DEF Outcome, Legible
    <3> QED
      BY <1>1, <3>1, FreshJob, SayableIs
  <2>2. UNCHANGED notifyVars
    <3>1. refused = FALSE /\ refused' = (refused \/ Legible(meant, fixed))
      BY <1>1, Zenon DEF Refuse, NotifyInv, FieldsAsMeant
    <3>2. refused' = FALSE
      BY <2>1, <3>1, Zenon
    <3>3. refused' = refused
      BY <3>1, <3>2
    <3> QED
      BY <1>1, <3>3 DEF Refuse, notifyVars
  <2> QED
    BY <2>2 DEF notifyVars, NotifyInv, CaptureInv, FieldsAsMeant, TargetFromScratch, have_job
<1>2. ASSUME job.difficulty # 0, Publish(job, meant) PROVE NotifyInv'
  <2>1. /\ current_job' = apply_pool_share_target(job, pool_difficulty,
                                                  disable_local_target_scaling)
        /\ said' = meant
        /\ applied' = [d |-> pool_difficulty, off |-> disable_local_target_scaling]
        /\ UNCHANGED <<pool_difficulty, disable_local_target_scaling, refused>>
    BY <1>2 DEF Publish
  <2>2. pool_difficulty \in Nat /\ disable_local_target_scaling \in BOOLEAN /\ refused = FALSE
    BY DEF NotifyInv, FieldsAsMeant
  <2>3. CaptureInv' /\ FieldsAsMeant' /\ TargetFromScratch'
    <3>1. CASE Specified(meant)
      <4>1. Rejected.difficulty = 0
        BY DEF Rejected, NoJob, ParsedJob
      <4>2. Sayable(meant) /\ job = JobOf(meant)
        BY <1>2, <3>1, <4>1 DEF Outcome
      <4> QED
        BY <2>1, <2>2, <3>1, <4>2, FreshJob, Targeted
    <3>2. CASE ~Specified(meant)
      BY <2>1, <2>2, <3>2 DEF CaptureInv, FieldsAsMeant, TargetFromScratch
    <3> QED
      BY <3>1, <3>2
  <2> QED
    BY <2>1, <2>2, <2>3 DEF NotifyInv
<1> QED
  BY <1>1, <1>2 DEF Notify

\* Every step keeps the invariant.
LEMMA NotifyNextStep == NotifyInv /\ [NotifyNext]_notifyVars => NotifyInv'
<1> SUFFICES ASSUME NotifyInv, [NotifyNext]_notifyVars PROVE NotifyInv'
  OBVIOUS
<1>1. CASE NotifyArray
  <2> PICK r \in Readings : Notify(r.job, r.meant, r.fixed)
    BY <1>1 DEF NotifyArray
  <2> QED
    BY ReadAsMeant, NotifyStep
<1>2. CASE NotifyObject
  <2> PICK f \in Fields : Notify(parse_object_job(f), f, TRUE)
    BY <1>2 DEF NotifyObject
  <2> QED
    BY ObjectAsMeant, NotifyStep
<1>3. ASSUME NEW d \in PoolDiffs, SetDifficulty(d) PROVE NotifyInv'
  <2>1. d \in Nat
    BY NotifyAssumption
  <2>2. /\ pool_difficulty' = d
        /\ UNCHANGED <<disable_local_target_scaling, said, refused>>
    BY <1>3 DEF SetDifficulty
  <2>3. disable_local_target_scaling \in BOOLEAN /\ refused = FALSE
    BY DEF NotifyInv, FieldsAsMeant
  <2>4. CASE ~have_job
    <3>1. UNCHANGED <<current_job, applied>>
      BY <1>3, <2>4 DEF SetDifficulty
    <3> QED
      BY <2>1, <2>2, <3>1 DEF NotifyInv, CaptureInv, FieldsAsMeant, TargetFromScratch, have_job
  <2>5. CASE have_job
    <3>1. /\ current_job' = apply_pool_share_target(current_job, d,
                                                    disable_local_target_scaling)
          /\ applied' = [d |-> d, off |-> disable_local_target_scaling]
      BY <1>3, <2>5 DEF SetDifficulty
    <3>2. CASE Specified(said)
      <4>1. /\ Sayable(said) /\ current_job \in AlphaJob
            /\ current_job.targets_initialized
            /\ current_job.notify_target_be =
                 IF said.target # NoNumber THEN said.target
                 ELSE alpha_target_from_difficulty(said.diff)
            /\ current_job.block_number = said.block
            /\ current_job.previous_hash = said.prev
            /\ current_job.merkle_root = said.merkle /\ current_job.timestamp = said.time
            /\ current_job.difficulty = said.diff /\ current_job.clean_jobs = said.clean
            /\ current_job.has_target <=> said.target # NoNumber
        BY <2>5, <3>2 DEF NotifyInv, CaptureInv, FieldsAsMeant
      <4>2. NotifyTarget(current_job) = IF said.target # NoNumber THEN said.target
                                        ELSE alpha_target_from_difficulty(said.diff)
        BY <4>1 DEF NotifyTarget
      <4>3. CaptureInv' /\ FieldsAsMeant' /\ TargetFromScratch'
        BY <2>1, <2>2, <2>3, <3>1, <4>1, <4>2, Targeted
      <4> QED
        BY <2>1, <2>2, <2>3, <3>1, <4>3 DEF NotifyInv
    <3>3. CASE ~Specified(said)
      BY <2>1, <2>2, <2>3, <3>1, <3>3 DEF NotifyInv, CaptureInv, FieldsAsMeant,
         TargetFromScratch
    <3> QED
      BY <3>2, <3>3
  <2> QED
    BY <2>4, <2>5
<1>4. CASE LowDifficulty
  BY <1>4 DEF LowDifficulty, NotifyInv, CaptureInv, FieldsAsMeant, TargetFromScratch, have_job
<1>5. CASE UNCHANGED notifyVars
  BY <1>5 DEF notifyVars, NotifyInv, CaptureInv, FieldsAsMeant, TargetFromScratch, have_job
<1> QED
  BY <1>1, <1>2, <1>3, <1>4, <1>5 DEF NotifyNext

-----------------------------------------------------------------------------
(* AlphaNotify: the theorems.                                              *)

\* The invariant holds through any sequence of lines, difficulties and rejections.
THEOREM NotifyInvariance == NotifySpec => []NotifyInv
<1> QED
  BY NotifyInitially, NotifyNextStep, PTL DEF NotifySpec

\* Whatever documented layout a pool uses, for any digits its hashes start with
\* and any numbers its fields hold, no line is refused but one with a difficulty
\* of 1 in a layout without fixed places, and every field of the job of a line
\* that is not refused is the one the pool meant (alphanumeric_runner.cpp,
\* parse_array_job and parse_object_job).
THEOREM LinesReadAsMeant == NotifySpec => []FieldsAsMeant
<1>1. NotifyInv => FieldsAsMeant
  BY DEF NotifyInv
<1> QED
  BY <1>1, NotifyInvariance, PTL

\* The target searched with is what the last notify and the last difficulty
\* say, however often it was targeted before; the schoolbook multiplication and
\* division of the code compute the plain quotient for every number of limbs,
\* every base and every SCALE.
THEOREM TargetsFromScratch == NotifySpec => []TargetFromScratch
<1>1. NotifyInv => TargetFromScratch
  BY DEF NotifyInv
<1> QED
  BY <1>1, NotifyInvariance, PTL

\* A harder difficulty never gives an easier target.
LEMMA WantedFalls ==
  ASSUME NEW m, Sayable(m), NEW a \in [d : Nat, off : BOOLEAN],
         NEW b \in [d : Nat, off : BOOLEAN], a.off = b.off, b.d >= a.d, a.d > 0
  PROVE  Wanted(m, b) <= Wanted(m, a)
<1>1. PICK network \in Nat : network = MaxTarget \div Power(2, m.diff \div ShiftStep)
  <2>1. m.diff \in Nat \ {0}
    BY SayableIs
  <2>2. MaxTarget \div Power(2, m.diff \div ShiftStep) \in 0..MaxTarget
    BY <2>1, ConsensusTarget
  <2>3. MaxTarget \in Nat
    BY BasePowers
  <2> QED
    BY <2>2, <2>3
<1>2. PICK x \in Nat \ {0}, y \in Nat \ {0} :
        x = Denominator(a.d) /\ y = Denominator(b.d) /\ x <= y
  <2> a.d \in Nat /\ b.d \in Nat /\ Base \in Nat
    BY BasePowers
  <2> QED
    BY DenominatorIs, DenominatorGrows
<1>3. PICK P \in Nat : P = network * Scale
  <2> Scale \in Nat
    BY BasePowers
  <2> QED
    OBVIOUS
<1>4. P \div y <= P \div x /\ P \div y \in Nat /\ P \div x \in Nat /\ MaxTarget \in Nat
  BY <1>2, DivSmaller, DivNat, BasePowers
<1>5. m.target # NoNumber => m.target \in Nat
  BY SayableIs
<1> QED
  BY <1>1, <1>2, <1>3, <1>4, <1>5 DEF Wanted

\* A harder pool difficulty never makes the target of a job easier, whichever
\* way saturation, rounding and clamping go.
THEOREM HarderDifficulties == NotifySpec => HarderIsNotEasier
<1>1. ASSUME NotifyInv, NotifyInv', Specified(said), said' = said,
             applied'.off = applied.off, applied'.d >= applied.d, applied.d > 0
      PROVE  current_job'.target_be <= current_job.target_be
  <2>1. /\ Sayable(said) /\ applied \in [d : Nat, off : BOOLEAN]
        /\ applied' \in [d : Nat, off : BOOLEAN]
    BY <1>1 DEF NotifyInv, CaptureInv
  <2>2. have_job /\ have_job' /\ Specified(said')
    BY <1>1 DEF NotifyInv, CaptureInv, Specified
  <2>3. current_job.target_be = Wanted(said, applied)
    BY <1>1, <2>2 DEF NotifyInv, TargetFromScratch, Wanted
  <2>4. current_job'.target_be = Wanted(said, applied')
    BY <1>1, <2>2 DEF NotifyInv, TargetFromScratch, Wanted
  <2> QED
    BY <1>1, <2>1, <2>3, <2>4, WantedFalls
<1>2. NotifyInv /\ NotifyInv' /\ [NotifyNext]_notifyVars =>
        [ Specified(said) /\ said' = said /\ applied'.off = applied.off
            /\ applied'.d >= applied.d /\ applied.d > 0
          => current_job'.target_be <= current_job.target_be ]_notifyVars
  BY <1>1
<1> QED
  BY <1>2, NotifyInvariance, PTL DEF NotifySpec, HarderIsNotEasier

=============================================================================
