--------------------------- MODULE AlphaGpuContext ---------------------------
(***************************************************************************)
(* The host side of src/alphanumeric/alphanumeric_cuda_backend.cu: one     *)
(* context, g_ctx, used by the mining thread (ensure_ready, scan92, reset) *)
(* and by whoever calls request_cancel.                                    *)
(*                                                                         *)
(* A cancel bumps g_job_gen, stages the number in pinned memory and queues *)
(* an asynchronous copy of it to the device, where a running kernel        *)
(* compares it with the generation it was launched with.  g_cancel_mu      *)
(* keeps callers apart; nothing keeps them apart from the mining thread.   *)
(* The CUDA runtime is external: a queued copy reads its pinned source     *)
(* when it executes, copies of one stream execute in order, calls may fail.*)
(***************************************************************************)
EXTENDS Integers

CONSTANTS
  Callers,      \* the threads that call request_cancel
  None,         \* nobody
  GpuFails,     \* whether a scan or a set-up may fail, which resets the device
  LosesWrites,  \* whether the copy of a generation may fail unnoticed
  MaxGen        \* bound: request_cancel calls per behaviour

ASSUME GpuAssumption ==
  /\ None \notin Callers
  /\ GpuFails \in BOOLEAN /\ LosesWrites \in BOOLEAN
  /\ MaxGen \in Nat

VARIABLES
  g_job_gen,     \* host generation, atomic
  ready,         \* g_ctx.ready, a plain bool
  allocated,     \* whether the memory and streams of g_ctx exist
  h_gen_src,     \* pinned staging word
  d_live_gen,    \* device copy the kernel polls
  queued,        \* copies queued on cancel_stream
  holder,        \* who holds g_cancel_mu
  cpc, gen,      \* each caller inside request_cancel: where, with which number
  spc,           \* the mining thread
  job_gen,       \* generation of the current launch
  gen_now,       \* generation ensure_ready read before seeding
  \* history, for the properties only
  outcome,       \* how the last batch ended
  lost,          \* the last write to the device was lost
  misused,       \* request_cancel touched a context that was freed
  overlapped     \* a request_cancel straddled the rebuild of the context

word   == <<h_gen_src, d_live_gen, queued>>
caller == <<holder, cpc, gen>>
history == <<lost, misused, overlapped>>
vars   == <<g_job_gen, ready, allocated, word, caller, spc, job_gen, gen_now,
            outcome, history>>

Gens == 0..MaxGen

\* The runner starts its threads after the self-test, which has made the
\* context ready.
Init ==
  /\ g_job_gen = 0
  /\ ready = TRUE /\ allocated = TRUE
  /\ h_gen_src = 0 /\ d_live_gen = 0 /\ queued = 0
  /\ holder = None
  /\ cpc = [c \in Callers |-> "idle"] /\ gen = [c \in Callers |-> 0]
  /\ spc = "ensure" /\ job_gen = 0 /\ gen_now = 0
  /\ outcome = "none"
  /\ lost = FALSE /\ misused = FALSE /\ overlapped = FALSE

-----------------------------------------------------------------------------
(* request_cancel.                                                         *)

\* Mutation: the lock is not taken, so a second caller may enter.
LockIgnored == TRUE

LockFree == holder = None

Unlock(c) == holder' = None /\ cpc' = [cpc EXCEPT ![c] = "idle"]

\* Under the lock: take the next generation.
Bump(c) ==
  /\ cpc[c] = "idle"
  /\ LockFree
  /\ g_job_gen < MaxGen
  /\ holder' = c
  /\ g_job_gen' = g_job_gen + 1
  /\ gen' = [gen EXCEPT ![c] = g_job_gen + 1]
  /\ cpc' = [cpc EXCEPT ![c] = "check"]
  /\ UNCHANGED <<ready, allocated, word, spc, job_gen, gen_now, outcome,
                 history>>

\* Without a context the call ends here: whoever makes one seeds it.
NotReady(c) ==
  /\ cpc[c] = "check"
  /\ ~ready
  /\ Unlock(c)
  /\ overlapped' = \/ overlapped
                   \/ spc \in {"seed", "publish"} /\ gen[c] > gen_now
  /\ UNCHANGED <<g_job_gen, ready, allocated, word, gen, spc, job_gen, gen_now,
                 outcome, lost, misused>>

\* cudaSetDevice fails: the number never reaches the device.
SetDeviceFails(c) ==
  /\ cpc[c] = "check"
  /\ ready /\ LosesWrites
  /\ lost' = TRUE
  /\ Unlock(c)
  /\ UNCHANGED <<g_job_gen, ready, allocated, word, gen, spc, job_gen, gen_now,
                 outcome, misused, overlapped>>

Ready(c) ==
  /\ cpc[c] = "check"
  /\ ready
  /\ cpc' = [cpc EXCEPT ![c] = "stage"]
  /\ UNCHANGED <<g_job_gen, ready, allocated, word, holder, gen, spc, job_gen,
                 gen_now, outcome, history>>

\* Mutation: the number before the bump is staged.
StageOld(c) ==
  /\ cpc[c] = "stage"
  /\ h_gen_src' = IF allocated THEN gen[c] - 1 ELSE h_gen_src
  /\ misused' = (misused \/ ~allocated)
  /\ cpc' = [cpc EXCEPT ![c] = "push"]
  /\ UNCHANGED <<g_job_gen, ready, allocated, d_live_gen, queued, holder, gen,
                 spc, job_gen, gen_now, outcome, lost, overlapped>>

\* Mutation: fetch_add's result, one already added, is incremented again.
StageNext(c) ==
  /\ cpc[c] = "stage"
  /\ h_gen_src' = IF allocated THEN gen[c] + 1 ELSE h_gen_src
  /\ misused' = (misused \/ ~allocated)
  /\ cpc' = [cpc EXCEPT ![c] = "push"]
  /\ UNCHANGED <<g_job_gen, ready, allocated, d_live_gen, queued, holder, gen,
                 spc, job_gen, gen_now, outcome, lost, overlapped>>

Stage(c) ==
  /\ cpc[c] = "stage"
  /\ h_gen_src' = IF allocated THEN gen[c] ELSE h_gen_src
  /\ misused' = (misused \/ ~allocated)
  /\ cpc' = [cpc EXCEPT ![c] = "push"]
  /\ UNCHANGED <<g_job_gen, ready, allocated, d_live_gen, queued, holder, gen,
                 spc, job_gen, gen_now, outcome, lost, overlapped>>

Push(c) ==
  /\ cpc[c] = "push"
  /\ \/ queued' = (IF allocated THEN queued + 1 ELSE queued) /\ lost' = FALSE
     \/ LosesWrites /\ queued' = queued /\ lost' = TRUE
  /\ misused' = (misused \/ ~allocated)
  /\ Unlock(c)
  /\ UNCHANGED <<g_job_gen, ready, allocated, h_gen_src, d_live_gen, gen, spc,
                 job_gen, gen_now, outcome, overlapped>>

\* The device executes the oldest queued copy.
Copy ==
  /\ queued > 0
  /\ d_live_gen' = h_gen_src
  /\ queued' = queued - 1
  /\ UNCHANGED <<g_job_gen, ready, allocated, h_gen_src, caller, spc, job_gen,
                 gen_now, outcome,
                 history>>

-----------------------------------------------------------------------------
(* The mining thread.                                                      *)

\* ensure_ready finds the context.
Reuse ==
  /\ spc = "ensure"
  /\ ready
  /\ spc' = "load"
  /\ UNCHANGED <<g_job_gen, ready, allocated, word, caller, job_gen, gen_now,
                 outcome, history>>

\* ensure_ready makes one: memory and streams first, then the seed is read,
\* then written, then the context is declared ready.
Allocate ==
  /\ spc = "ensure"
  /\ ~ready
  /\ allocated' = TRUE
  /\ spc' = "readgen"
  /\ UNCHANGED <<g_job_gen, ready, word, caller, job_gen, gen_now, outcome,
                 history>>

ReadGen ==
  /\ spc = "readgen"
  /\ gen_now' = g_job_gen
  /\ spc' = "seed"
  /\ UNCHANGED <<g_job_gen, ready, allocated, word, caller, job_gen, outcome,
                 history>>

Seed ==
  /\ spc = "seed"
  /\ d_live_gen' = gen_now
  /\ spc' = "publish"
  /\ UNCHANGED <<g_job_gen, ready, allocated, h_gen_src, queued, caller,
                 job_gen, gen_now, outcome,
                 history>>

Publish ==
  /\ spc = "publish"
  /\ ready' = TRUE
  /\ lost' = FALSE
  /\ spc' = "load"
  /\ UNCHANGED <<g_job_gen, allocated, word, caller, job_gen, gen_now, outcome,
                 misused, overlapped>>

\* scan92 reads the generation, clears the result block and launches.
Load ==
  /\ spc = "load"
  /\ job_gen' = g_job_gen
  /\ outcome' = "none"
  /\ spc' = "running"
  /\ UNCHANGED <<g_job_gen, ready, allocated, word, caller, gen_now,
                 history>>

\* The kernel ends: it has scanned everything, it has found a share, or its
\* poll saw another generation.
BatchEnds(o) ==
  /\ spc = "running"
  /\ o = "drained" => d_live_gen # job_gen
  /\ outcome' = o
  /\ spc' = "ensure"
  /\ UNCHANGED <<g_job_gen, ready, allocated, word, caller, job_gen, gen_now,
                 history>>

\* A CUDA call fails inside scan92 or ensure_ready and the runner resets; when
\* it was the ensure_ready of a reset that failed, the runner goes on with what
\* is allocated left behind.
GpuError ==
  /\ GpuFails
  /\ spc \in {"ensure", "readgen", "seed", "load", "running"}
  /\ \/ spc' = "reset"
     \/ spc \in {"readgen", "seed"} /\ spc' = "ensure"
  /\ UNCHANGED <<g_job_gen, ready, allocated, word, caller, job_gen, gen_now,
                 outcome, history>>

\* destroy_ctx_nothrow: wait for both streams (what a broken device has not
\* copied by then is gone), free everything, and only then forget the context,
\* ready flag included.
Free ==
  /\ spc = "reset"
  /\ queued' = 0
  /\ allocated' = FALSE
  /\ spc' = "forget"
  /\ UNCHANGED <<g_job_gen, ready, h_gen_src, d_live_gen, caller, job_gen, gen_now, outcome,
                 history>>

\* The device is reset too; whether or not that works, the next thing the
\* mining thread does with the GPU is ensure_ready.
Forget ==
  /\ spc = "forget"
  /\ ready' = FALSE
  /\ overlapped' = (overlapped \/ \E c \in Callers : cpc[c] \in {"stage", "push"})
  /\ spc' = "ensure"
  /\ UNCHANGED <<g_job_gen, allocated, word, caller, job_gen, gen_now, outcome,
                 lost, misused>>

-----------------------------------------------------------------------------

\* What a caller that holds the lock still has to do.
InCancel(c) == NotReady(c) \/ SetDeviceFails(c) \/ Ready(c) \/ Stage(c) \/ Push(c)

Miner == \/ Reuse \/ Allocate \/ ReadGen \/ Seed \/ Publish \/ Load
         \/ \E o \in {"full", "found", "drained"} : BatchEnds(o)
         \/ GpuError \/ Free \/ Forget

Next == (\E c \in Callers : Bump(c) \/ InCancel(c)) \/ Copy \/ Miner

\* A call of request_cancel is finished and the device works its queue off.
\* No batch is promised to end, no cancel to be asked for.
Fairness == (\A c \in Callers : WF_vars(InCancel(c))) /\ WF_vars(Copy)

SafetySpec == Init /\ [][Next]_vars

Spec == SafetySpec /\ Fairness

-----------------------------------------------------------------------------
(* Properties.                                                             *)

CallerPcs == {"idle", "check", "stage", "push"}
MinerPcs  == {"ensure", "readgen", "seed", "publish", "load", "running", "reset",
              "forget"}
Outcomes  == {"none", "full", "found", "drained"}

Flags ==
  /\ ready \in BOOLEAN /\ allocated \in BOOLEAN
  /\ lost \in BOOLEAN /\ misused \in BOOLEAN /\ overlapped \in BOOLEAN
  /\ cpc \in [Callers -> CallerPcs] /\ holder \in Callers \cup {None}
  /\ spc \in MinerPcs /\ outcome \in Outcomes

\* No generation outruns g_job_gen.
Numbers ==
  /\ g_job_gen \in Gens
  /\ gen \in [Callers -> 0..g_job_gen]
  /\ job_gen \in 0..g_job_gen /\ gen_now \in 0..g_job_gen
  /\ h_gen_src \in 0..g_job_gen /\ d_live_gen \in 0..g_job_gen
  /\ queued \in Nat

\* Every variable keeps its type; in particular the device, the staging word
\* and the launches never carry a generation that was not given out.
TypeOK == Flags /\ Numbers

Quiet == queued = 0 /\ \A c \in Callers : cpc[c] = "idle"

Clean == ~misused /\ ~overlapped

\* Once no cancel is under way and the last write was not lost, the device
\* compares with the generation the next launch will carry: a fresh batch is
\* not drained for an old reason.  This survives failures and rebuilds of the
\* context as long as no request_cancel straddles a rebuild.
InSync == Quiet /\ ready /\ allocated /\ ~lost /\ Clean => d_live_gen = g_job_gen

\* The device copy never goes back, although a later caller overwrites the
\* staging word while an earlier copy is still queued: a drained kernel cannot
\* come to see its own generation again.
LiveGenMonotone == [][Clean => d_live_gen' >= d_live_gen]_vars

\* alphanumeric_cuda_backend.hpp:74: request_cancel is "Safe to call from any
\* thread at any time", so also while the mining thread resets the device: it
\* never touches a staging word or a stream that has been freed.
SafeAnyTime == ~misused

\* A cancel reaches the batch it is meant for: a running kernel of an older
\* generation ends or gets to see that it is stale, unless the write was lost
\* or the context was rebuilt under the call.
CancelReachesKernel ==
  spc = "running" /\ job_gen < g_job_gen
    ~> (spc # "running" \/ d_live_gen # job_gen \/ lost \/ ~Clean)

-----------------------------------------------------------------------------
(* The inductive invariant behind the theorems of AlphaGpuProofs.          *)

\* At most the lock holder is inside request_cancel, with the newest number.
LockInv ==
  /\ \A c \in Callers : cpc[c] # "idle" <=> holder = c
  /\ \A c \in Callers : holder = c => gen[c] = g_job_gen /\ g_job_gen > 0

Writing == \E c \in Callers : cpc[c] \in {"stage", "push"}

\* Where the mining thread stands with the context.
ContextInv ==
  /\ spc \in {"readgen", "seed", "publish"} => ~ready
  /\ spc \in {"load", "running"} => ready
  /\ spc \in {"readgen", "seed", "publish"} => allocated
  /\ ready /\ spc # "forget" => allocated
  /\ spc = "forget" => ~allocated
  /\ Clean /\ spc = "forget" => queued = 0
  /\ Clean /\ ~ready => queued = 0 /\ ~Writing

\* A cancel that came after the seed was read has not been turned away.
SeedInv ==
  Clean /\ spc \in {"seed", "publish"} =>
    /\ \/ gen_now = g_job_gen
       \/ gen_now = g_job_gen - 1 /\ \E c \in Callers : cpc[c] = "check"
    /\ d_live_gen <= gen_now
    /\ spc = "publish" => d_live_gen = gen_now

\* Where the newest number is: on the device, or in the staging word with a
\* copy to come, unless a caller still carries it.
ChainInv ==
  /\ Clean => \A c \in Callers : cpc[c] = "push" => h_gen_src = g_job_gen
  /\ Clean /\ queued > 0 => d_live_gen <= h_gen_src
  /\ Clean /\ ready /\ spc # "forget" /\ ~lost /\ (\A c \in Callers : cpc[c] = "idle")
        => IF queued = 0 THEN d_live_gen = g_job_gen ELSE h_gen_src = g_job_gen

IInv == TypeOK /\ LockInv /\ ContextInv /\ SeedInv /\ ChainInv

=============================================================================
