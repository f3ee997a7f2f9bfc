----------------------------- MODULE DataPaths -----------------------------
(***************************************************************************)
(* The parts of the miner that turn data into data, side by side: the      *)
(* lines of the socket, the notify parser with its targets, the two        *)
(* computations of BLAKE3, the streaming hash object, Whirlpool on the CPU *)
(* and Whirlpool on the GPU.  None shares state with another, so one       *)
(* behaviour follows one part; main.cpp picks the engine and with it the   *)
(* parts that run.  The engines themselves are CapStashMiner and           *)
(* AlphaMiner.                                                             *)
(***************************************************************************)
EXTENDS StratumLines, AlphaNotify, AlphaBlake3, HashStream, CpuWhirlpool,
        CudaWhirlpool

VARIABLE path   \* the part that runs

vars == <<path, linesVars, notifyVars, blakeVars, streamVars, cpu, cudaVars>>

Init ==
  /\ path \in {"lines", "notify", "blake3", "stream", "cpu", "gpu"}
  /\ LinesInit /\ NotifyInit /\ BlakeInit /\ StreamInit /\ CpuInit /\ CudaInit

ExchangeLines ==
  /\ path = "lines" /\ LinesNext
  /\ UNCHANGED <<path, notifyVars, blakeVars, streamVars, cpu, cudaVars>>

ParseNotify ==
  /\ path = "notify" /\ NotifyNext
  /\ UNCHANGED <<path, linesVars, blakeVars, streamVars, cpu, cudaVars>>

HashHeader92 ==
  /\ path = "blake3" /\ BlakeNext
  /\ UNCHANGED <<path, linesVars, notifyVars, streamVars, cpu, cudaVars>>

UseHashObject ==
  /\ path = "stream" /\ StreamNext
  /\ UNCHANGED <<path, linesVars, notifyVars, blakeVars, cpu, cudaVars>>

HashOnCpu ==
  /\ path = "cpu" /\ CpuNext
  /\ UNCHANGED <<path, linesVars, notifyVars, blakeVars, streamVars, cudaVars>>

HashOnGpu ==
  /\ path = "gpu" /\ CudaNext
  /\ UNCHANGED <<path, linesVars, notifyVars, blakeVars, streamVars, cpu>>

Next ==
  \/ ExchangeLines \/ ParseNotify \/ HashHeader92 \/ UseHashObject \/ HashOnCpu
  \/ HashOnGpu

Spec == Init /\ [][Next]_vars

-----------------------------------------------------------------------------
(* Properties; those of one part are stated where the part is.             *)

\* Whatever is hashed on the GPU, by the prepared path of the miner or by the
\* plain one, for any nonce and not just the verified 0, in whatever order the
\* lanes of a block run, is what the CPU computes for the same 80 bytes.
KernelHashesLikeVerifier ==
  computed.header # NoHeader =>
    computed.hash = Sph!cap_pow_hash_header80(computed.header)

=============================================================================
