----------------------------- MODULE AlphaMiner -----------------------------
(***************************************************************************)
(* The Alphanumeric engine: run of src/alphanumeric/alphanumeric_runner.cpp*)
(* with its network thread and its mining thread.                          *)
(*                                                                         *)
(* Unlike the CapStash engine, this one publishes the current job again,   *)
(* re-targeted, when the pool changes the difficulty, and reaches into a   *)
(* running batch with request_cancel.  Every access to a variable the      *)
(* other thread writes is a step of its own.                               *)
(*                                                                         *)
(* The GPU context is reduced to what AlphaGpuContext shows of it: the     *)
(* generation on the device follows the one of the host at its own pace,   *)
(* writes may be skipped or late, and it never goes back.  The submission  *)
(* itself is StratumClient's.  A share target is abstracted to the         *)
(* difficulty the network target was scaled by, or to Unscaled for the     *)
(* target as the notify gave it.                                           *)
(***************************************************************************)
EXTENDS Integers, FiniteSets

CONSTANTS
  Diffs,        \* the difficulties the pool sets, 1 among them
  Chunks,       \* the batch sizes auto-sizing may choose
  Span,         \* nonces (2^64 in the code)
  GpuFails,     \* whether scan92 may return false
  MaxPub        \* bound: publications of a job per behaviour

ASSUME AlphaAssumption ==
  /\ Diffs \subseteq Nat \ {0} /\ 1 \in Diffs
  /\ Span \in Nat \ {0}
  /\ Chunks \subseteq 1..Span /\ Chunks # {}
  /\ GpuFails \in BOOLEAN
  /\ MaxPub \in Nat

VARIABLES
  \* the GPU context: host generation, device copy, generation of the launch
  g_job_gen, d_live_gen, job_gen,
  \* shared by the two threads
  current_job,        \* guarded by job_mu; pub numbers the publications
  job_seq, cancel, running, pool_difficulty, disable_local_target_scaling,
  \* the network thread
  npc,
  \* the mining thread
  mpc, job, local_have, next_nonce, my_seq, count, r_nonce,
  \* history, for the properties only
  vetted,             \* publications finished when a share passed its checks
  drained,            \* the last batch was drained
  sent,               \* nonces sent since the last pick-up
  wrapped,            \* next_nonce wrapped since the last pick-up
  any_sent            \* a share was sent

gpu     == <<g_job_gen, d_live_gen, job_gen>>
flags   == <<running, pool_difficulty, disable_local_target_scaling>>
shared  == <<current_job, job_seq, cancel, flags>>
batch   == <<my_seq, count, r_nonce>>
mining  == <<job, local_have, next_nonce, batch>>
history == <<vetted, drained, sent, wrapped, any_sent>>
vars    == <<gpu, shared, npc, mpc, mining, history>>

Unscaled == 0
NoNonce  == -1

\* serial numbers the notifies, pub the publications; explicit says that the
\* notify brought a share target of its own.
Job   == [serial : 0..MaxPub, pub : 0..MaxPub, explicit : BOOLEAN,
          target : Diffs \cup {Unscaled}]
NoJob == [serial |-> 0, pub |-> 0, explicit |-> FALSE, target |-> Unscaled]

have_job == current_job.pub > 0

\* Mutation: job_mu is released right after the copy of current_job.
JobMuReleasedEarly == FALSE

\* The mining thread holds job_mu from the copy of current_job to the end of
\* the pick-up block.
MinerHoldsJobMu == mpc = "uncancel"

\* apply_pool_share_target: which target a job gets, given the difficulty.
ShareTarget(explicit, d) ==
  IF disable_local_target_scaling \/ explicit THEN Unscaled ELSE d

\* The locals of the mining thread.
MinerInit ==
  /\ job = NoJob /\ local_have = FALSE /\ next_nonce = 0
  /\ my_seq = 0 /\ count = 0 /\ r_nonce = NoNonce

Init ==
  /\ g_job_gen = 0 /\ d_live_gen = 0 /\ job_gen = 0
  /\ current_job = NoJob
  /\ job_seq = 0
  /\ cancel = FALSE
  /\ running = TRUE
  /\ pool_difficulty = 1
  /\ disable_local_target_scaling = FALSE
  /\ npc = "recv"
  /\ mpc = "top"
  /\ MinerInit
  /\ vetted = 0 /\ drained = FALSE /\ sent = {} /\ wrapped = FALSE /\ any_sent = FALSE

-----------------------------------------------------------------------------
(* The network thread.                                                     *)

\* A mining.notify parses; its job is published under job_mu.
NetNotify(explicit) ==
  /\ npc = "recv"
  /\ current_job.pub < MaxPub
  /\ ~MinerHoldsJobMu
  /\ current_job' = [serial |-> current_job.serial + 1,
                     pub |-> current_job.pub + 1,
                     explicit |-> explicit,
                     target |-> ShareTarget(explicit, pool_difficulty)]
  /\ npc' = "seq"
  /\ UNCHANGED <<gpu, job_seq, cancel, flags, mpc, mining, history>>

\* A mining.set_difficulty: the new multiplier is stored first.
NetSetDifficulty(d) ==
  /\ npc = "recv"
  /\ have_job => current_job.pub < MaxPub
  /\ pool_difficulty' = d
  /\ npc' = "retarget"
  /\ UNCHANGED <<gpu, current_job, job_seq, cancel, running,
                 disable_local_target_scaling, mpc, mining, history>>

\* Mutation: the job keeps the target it has until the next notify.
NetRetargetSkipped ==
  /\ npc = "retarget"
  /\ npc' = "recv"
  /\ UNCHANGED <<gpu, shared, mpc, mining, history>>

\* Mutation: the handler goes on when there was no job to re-target.
NetRetargetAlways ==
  /\ npc = "retarget"
  /\ ~MinerHoldsJobMu
  /\ current_job' = IF have_job
                    THEN [current_job EXCEPT
                            !.pub = @ + 1,
                            !.target = ShareTarget(current_job.explicit,
                                                   pool_difficulty)]
                    ELSE current_job
  /\ npc' = "seq"
  /\ UNCHANGED <<gpu, job_seq, cancel, flags, mpc, mining, history>>

\* The current job, if there is one, gets its new target under job_mu.
NetRetarget ==
  /\ npc = "retarget"
  /\ ~MinerHoldsJobMu
  /\ IF have_job
     THEN /\ current_job' =
               [current_job EXCEPT
                  !.pub = @ + 1,
                  !.target = ShareTarget(current_job.explicit, pool_difficulty)]
          /\ npc' = "seq"
     ELSE UNCHANGED current_job /\ npc' = "recv"
  /\ UNCHANGED <<gpu, job_seq, cancel, flags, mpc, mining, history>>

NetBumpSeq ==
  /\ npc = "seq"
  /\ job_seq' = job_seq + 1
  /\ npc' = "cancel"
  /\ UNCHANGED <<gpu, current_job, cancel, flags, mpc, mining, history>>

NetCancel ==
  /\ npc = "cancel"
  /\ cancel' = TRUE
  /\ npc' = "gpu"
  /\ UNCHANGED <<gpu, current_job, job_seq, flags, mpc, mining, history>>

\* request_cancel: the host generation moves on; the device's follows.
NetRequestCancel ==
  /\ npc = "gpu"
  /\ g_job_gen' = g_job_gen + 1
  /\ npc' = "recv"
  /\ UNCHANGED <<d_live_gen, job_gen, shared, mpc, mining, history>>

\* The pool rejects a share as of low difficulty: later targets are not scaled.
NetLowDifficulty ==
  /\ npc = "recv"
  /\ any_sent
  /\ disable_local_target_scaling' = TRUE
  /\ UNCHANGED <<gpu, current_job, job_seq, cancel, running, pool_difficulty,
                 npc, mpc, mining, history>>

\* read_loop returns: the connection is gone.
NetEof ==
  /\ npc = "recv"
  /\ running' = FALSE
  /\ npc' = "done"
  /\ UNCHANGED <<gpu, current_job, job_seq, cancel, pool_difficulty,
                 disable_local_target_scaling, mpc, mining, history>>

-----------------------------------------------------------------------------
(* The mining thread.                                                      *)

\* Mutation: running is read before the loop only.
LoopForever ==
  /\ mpc = "top"
  /\ mpc' = IF cancel \/ ~local_have THEN "pick" ELSE "readseq"
  /\ UNCHANGED <<gpu, shared, npc, mining, history>>

LoopTop ==
  /\ mpc = "top"
  /\ mpc' = IF ~running THEN "join"
            ELSE IF cancel \/ ~local_have THEN "pick" ELSE "readseq"
  /\ UNCHANGED <<gpu, shared, npc, mining, history>>

\* Under job_mu: copy the job, start at nonce 0.
PickUp ==
  /\ mpc = "pick"
  /\ have_job
  /\ job' = current_job
  /\ local_have' = TRUE
  /\ next_nonce' = 0
  /\ sent' = {} /\ wrapped' = FALSE
  /\ mpc' = "uncancel"
  /\ UNCHANGED <<gpu, shared, npc, batch, vetted, drained, any_sent>>

NoJobYet ==
  /\ mpc = "pick"
  /\ ~have_job
  /\ mpc' = "top"
  /\ UNCHANGED <<gpu, shared, npc, mining, history>>

\* Still under job_mu: take the cancel flag back.
ClearCancel ==
  /\ mpc = "uncancel"
  /\ cancel' = FALSE
  /\ mpc' = "readseq"
  /\ UNCHANGED <<gpu, current_job, job_seq, flags, npc, mining, history>>

\* The generation this batch will be judged by.
ReadSeq(c) ==
  /\ mpc = "readseq"
  /\ my_seq' = job_seq
  /\ count' = c
  /\ r_nonce' = NoNonce
  /\ mpc' = "launch"
  /\ UNCHANGED <<gpu, shared, npc, job, local_have, next_nonce, history>>

\* scan92 reads the generation its kernel will compare with.
Launch ==
  /\ mpc = "launch"
  /\ job_gen' = g_job_gen
  /\ drained' = FALSE
  /\ mpc' = "scan"
  /\ UNCHANGED <<g_job_gen, d_live_gen, shared, npc, mining, vetted, sent, wrapped,
                 any_sent>>

\* scan92 returns with a nonce of its range.
ScanFinds(i) ==
  /\ mpc = "scan"
  /\ i < count
  /\ r_nonce' = (next_nonce + i) % Span
  /\ wrapped' = (wrapped \/ next_nonce + i >= Span)
  /\ mpc' = "checkseq"
  /\ UNCHANGED <<gpu, shared, npc, job, local_have, next_nonce, my_seq, count,
                 vetted, drained, sent, any_sent>>

\* scan92 returns without a find: the kernel saw the whole range, or its poll
\* saw another generation.
ScanFindsNothing ==
  /\ mpc = "scan"
  /\ drained' \in {FALSE, d_live_gen # job_gen}
  /\ mpc' = "advance"
  /\ UNCHANGED <<gpu, shared, npc, mining, vetted, sent, wrapped, any_sent>>

\* Either way the range counts as scanned.
Advance ==
  /\ mpc = "advance"
  /\ next_nonce' = (next_nonce + count) % Span
  /\ wrapped' = (wrapped \/ next_nonce + count >= Span)
  /\ mpc' = "top"
  /\ UNCHANGED <<gpu, shared, npc, job, local_have, batch, vetted, drained, sent,
                 any_sent>>

\* scan92 fails, before or after its launch; the device is reset and the loop
\* goes on with the range it had.
ScanFails ==
  /\ GpuFails
  /\ mpc \in {"launch", "scan"}
  /\ mpc' = "top"
  /\ UNCHANGED <<gpu, shared, npc, mining, history>>

\* Mutation: the search goes on with the nonce that was found.
AfterFindRepeats == next_nonce' = r_nonce /\ wrapped' = wrapped

\* The search goes on behind the nonce that was found.
AfterFind ==
  /\ next_nonce' = (r_nonce + 1) % Span
  /\ wrapped' = (wrapped \/ r_nonce + 1 >= Span)

\* First half of the stale check.
CheckSeq ==
  /\ mpc = "checkseq"
  /\ my_seq = job_seq
  /\ mpc' = "checkcancel"
  /\ UNCHANGED <<gpu, shared, npc, mining, history>>

\* Either half of it drops the share.
DropShare ==
  /\ \/ mpc = "checkseq" /\ my_seq # job_seq
     \/ mpc = "checkcancel" /\ cancel
  /\ AfterFind
  /\ mpc' = "top"
  /\ UNCHANGED <<gpu, shared, npc, job, local_have, batch, vetted, drained, sent,
                 any_sent>>

Published == IF npc \in {"seq", "cancel"}
             THEN current_job.pub - 1 ELSE current_job.pub

\* Mutation: the generation is compared, the cancel flag is not.
PassShareUnchecked ==
  /\ mpc = "checkcancel"
  /\ vetted' = Published
  /\ mpc' = "submit"
  /\ UNCHANGED <<gpu, shared, npc, mining, drained, sent, wrapped, any_sent>>

\* Second half of the check.
PassShare ==
  /\ mpc = "checkcancel"
  /\ ~cancel
  /\ vetted' = Published
  /\ mpc' = "submit"
  /\ UNCHANGED <<gpu, shared, npc, mining, drained, sent, wrapped, any_sent>>

\* The share goes out in every configured format, or every send fails.
Submit ==
  /\ mpc = "submit"
  /\ sent' = sent \cup {r_nonce}
  /\ any_sent' = TRUE
  /\ AfterFind
  /\ mpc' = "top"
  /\ UNCHANGED <<gpu, shared, npc, job, local_have, batch, vetted, drained>>

\* The loop is left: the socket is closed, the network thread joined.
Join ==
  /\ mpc = "join"
  /\ npc = "done"
  /\ mpc' = "done"
  /\ UNCHANGED <<gpu, shared, npc, mining, history>>

-----------------------------------------------------------------------------

\* What the network thread does without waiting for the pool.
NetHandler == NetRetarget \/ NetBumpSeq \/ NetCancel \/ NetRequestCancel

NetThread ==
  \/ \E e \in BOOLEAN : NetNotify(e)
  \/ \E d \in Diffs : NetSetDifficulty(d)
  \/ NetHandler \/ NetLowDifficulty \/ NetEof

Miner ==
  \/ LoopTop \/ PickUp \/ NoJobYet \/ ClearCancel \/ \E c \in Chunks : ReadSeq(c)
  \/ Launch \/ \E i \in 0..Span - 1 : ScanFinds(i)
  \/ ScanFindsNothing \/ Advance \/ ScanFails
  \/ CheckSeq \/ DropShare \/ PassShare \/ Submit \/ Join

\* A queued write, or the seed of a rebuilt context, reaches the device; the
\* writes before it are overtaken.
Device ==
  /\ d_live_gen' \in d_live_gen + 1..g_job_gen
  /\ UNCHANGED <<g_job_gen, job_gen, shared, npc, mpc, mining, history>>

Terminated == mpc = "done" /\ npc = "done" /\ UNCHANGED vars

Next == NetThread \/ Miner \/ Device \/ Terminated

\* The operating system runs both threads, and a launched kernel ends by
\* itself: its loop is finite.  No pool line and no device write is promised.
Fairness == WF_vars(NetHandler) /\ WF_vars(Miner)

SafetySpec == Init /\ [][Next]_vars

Spec == SafetySpec /\ Fairness

-----------------------------------------------------------------------------
(* Properties.                                                             *)

NetPcs   == {"recv", "retarget", "seq", "cancel", "gpu", "done"}
MinerPcs == {"top", "pick", "uncancel", "readseq", "launch", "scan", "advance",
             "checkseq", "checkcancel", "submit", "join", "done"}

\* Every variable keeps its type; in particular request_cancel is called at
\* most once for each publication.
TypeOK ==
  /\ g_job_gen \in 0..current_job.pub
  /\ d_live_gen \in 0..g_job_gen /\ job_gen \in 0..g_job_gen
  /\ current_job \in Job /\ job \in Job
  /\ job_seq \in 0..MaxPub /\ my_seq \in 0..MaxPub /\ vetted \in 0..MaxPub
  /\ cancel \in BOOLEAN /\ running \in BOOLEAN /\ local_have \in BOOLEAN
  /\ pool_difficulty \in Diffs /\ disable_local_target_scaling \in BOOLEAN
  /\ npc \in NetPcs /\ mpc \in MinerPcs
  /\ next_nonce \in 0..Span - 1 /\ count \in 0..Span
  /\ r_nonce \in 0..Span - 1 \cup {NoNonce}
  /\ sent \subseteq 0..Span - 1
  /\ drained \in BOOLEAN /\ wrapped \in BOOLEAN /\ any_sent \in BOOLEAN

\* A share that passes the stale check belongs to a publication at least as new
\* as every one whose handler had raised the cancel flag by then: neither an
\* older job nor an older target of the same job.
SubmitsPublishedJob == mpc = "submit" => job.pub >= vetted

\* runner:1038, "apply the new pool multiplier immediately": outside the
\* handler itself a job searched under a scaled target is published with the
\* difficulty the pool set last, whatever order notifies, difficulties and the
\* low-difficulty fallback come in.
TargetFollowsDifficulty ==
  npc # "retarget" /\ current_job.target # Unscaled
    => current_job.target = pool_difficulty

\* Between two pick-ups no nonce is submitted twice, through failed scans,
\* resets, dropped shares and drained batches.
SubmitsOncePerPickUp == mpc = "submit" => r_nonce \notin sent \/ wrapped

\* alphanumeric_cuda_backend.hpp:76: a late write of a generation "only means
\* the batch finishes normally and the runner's job_seq staleness check
\* discards the result", so what a drain cut short is never taken for scanned
\* under a job that is still current.
DrainedBatchIsStale == mpc = "advance" /\ drained => my_seq # job_seq \/ cancel

\* FIXED_MINER_NOTES.txt:26: the miner "falls back to the exact notify target if
\* the pool rejects a locally scaled share as low difficulty": from the verdict
\* on, the job offered to the mining thread is not a scaled one.
FallbackApplies ==
  disable_local_target_scaling /\ npc = "recv" => current_job.target = Unscaled

\* Once the connection is gone, run returns.
StopsAfterEof == npc = "done" ~> mpc = "done"

\* The two threads implement the abstract hand-off, publications taking the
\* place of jobs: neither a job nor a new target is lost between the cancel
\* flag and the pick-up, also while scans fail and the device is reset.
Handoff == INSTANCE JobHandoff
             WITH latest  <- current_job.pub,
                  mining  <- job.pub,
                  stopped <- mpc \in {"join", "done"}

HandoffSpec == Handoff!Spec

-----------------------------------------------------------------------------
(* The inductive invariant behind the theorems of AlphaMinerProofs.        *)

Scanning == mpc \in {"launch", "scan", "advance", "checkseq", "checkcancel",
                     "submit"}
Judging  == mpc \in {"checkseq", "checkcancel", "submit"}

\* The two generations follow the publications, one handler step behind.
SeqInv ==
  /\ npc \in {"seq", "cancel", "gpu"} => have_job
  /\ job_seq = IF npc = "seq" THEN current_job.pub - 1 ELSE current_job.pub
  /\ g_job_gen = IF npc \in {"seq", "cancel", "gpu"}
                 THEN current_job.pub - 1 ELSE current_job.pub
  /\ current_job.serial <= current_job.pub
  /\ ~have_job => current_job.target = Unscaled
  /\ npc = "retarget" /\ have_job => current_job.pub < MaxPub

\* The local job is a published one, the very latest while job_mu is held, and
\* not behind a finished handler while the cancel flag is down.
FreshInv ==
  /\ local_have <=> job.pub > 0
  /\ Scanning \/ mpc \in {"uncancel", "readseq"} => local_have
  /\ job.pub <= current_job.pub
  /\ MinerHoldsJobMu => job.pub = current_job.pub
  /\ local_have /\ ~cancel => job.pub >= Published
  /\ mpc = "submit" => job.pub >= vetted

\* What was sent since the pick-up lies behind the search.
OnceInv ==
  /\ Scanning => count \in Chunks
  /\ Judging => r_nonce \in 0..Span - 1
  /\ ~wrapped => \A n \in sent : n < next_nonce
  /\ Judging /\ ~wrapped => r_nonce >= next_nonce

IInv == TypeOK /\ SeqInv /\ FreshInv /\ OnceInv /\ TargetFollowsDifficulty

=============================================================================
