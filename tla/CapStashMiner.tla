--------------------------- MODULE CapStashMiner ---------------------------
(***************************************************************************)
(* The CapStash engine: run_stratum of src/whirlpool/whirlpool.cpp, its    *)
(* network thread and its mining thread.                                   *)
(*                                                                         *)
(* The network thread reads pool lines.  A mining.notify replaces          *)
(* job_current under job_mu and then, outside the lock and one atomic      *)
(* store at a time, asks for the dedup keys to be dropped, bumps the job   *)
(* generation and raises the cancel flag.  The mining thread picks jobs    *)
(* up, uploads them to the GPU, scans nonce ranges in bounded batches and  *)
(* submits what it finds.  Every access to a variable the other thread     *)
(* writes is a step of its own.                                            *)
(*                                                                         *)
(* Data is abstracted to identity: a work is what (job_id, ntime) names in *)
(* a dedup key, a difficulty stands for its share target, the constants on *)
(* the device for the job, extranonces and difficulty they were built      *)
(* from.                                                                   *)
(***************************************************************************)
EXTENDS Integers, FiniteSets

CONSTANTS
  Works,        \* the (job_id, ntime) pairs the pool hands out
  Diffs,        \* the share difficulties the pool sets
  Chunks,       \* the launch sizes auto-sizing may choose
  Span,         \* nonces per extranonce2 (2^32 in the code)
  En2Span,      \* values of the extranonce2 counter (2^32 in the code)
  KeyCap,       \* dedup keys kept before they are dropped (10000 in the code)
  BackendFails, \* whether the GPU backend, or a CUDA call in it, may fail
  MaxNotify,    \* bound: mining.notify lines per behaviour
  MaxShares     \* bound: shares sent, and blocks counted, per behaviour

ASSUME ConstantsAssumption ==
  /\ Works # {}
  /\ Diffs \subseteq Nat \ {0} /\ 1 \in Diffs
  /\ Chunks \subseteq Nat \ {0} /\ Chunks # {}
  /\ Span \in Nat \ {0}
  /\ En2Span \in Nat \ {0}
  /\ KeyCap \in Nat
  /\ BackendFails \in BOOLEAN
  /\ MaxNotify \in Nat
  /\ MaxShares \in Nat

VARIABLES
  \* shared by the two threads
  job_current,        \* guarded by job_mu; gen numbers the notifies
  current_job_seq,
  cancel_current_job,
  dedup_clear_req,
  running,
  difficulty_,        \* StratumClient: atomic<double>
  extranonce1_,       \* StratumClient: plain string
  subscribed_,        \* StratumClient: atomic<bool>
  \* the network thread
  netpc,
  \* the mining thread
  mpc,
  en1,                \* snapshot of extranonce1_
  job, local_have, cur_en2, next_nonce, cur_diff, need_setup, verified_once,
  submitted_keys, chunk, my_seq, count,
  r_nonce,            \* CudaResult: the winning nonce, or NoNonce
  \* constant memory of the GPU
  device,
  \* counters of MinerStats
  submitted, shares_found, blocks_found,
  \* history, for the properties only
  timed_out,          \* the subscribe wait ended by its 15 s limit
  vetted,             \* what had been announced when a share passed its checks
  sent,               \* <<gen, en2, nonce>> of every share sent
  resent,             \* clean flags of the jobs a share of which was sent twice
  capped              \* the key cap dropped the keys at least once

shared  == <<job_current, current_job_seq, cancel_current_job, dedup_clear_req,
             running, difficulty_, extranonce1_, subscribed_>>
scan    == <<job, local_have, cur_en2, next_nonce, cur_diff, need_setup,
             verified_once, chunk, my_seq, count, r_nonce, device>>
ledger  == <<submitted_keys, submitted, shares_found, blocks_found, sent,
             resent, capped>>
history == <<timed_out, vetted>>
vars    == <<shared, netpc, mpc, en1, scan, ledger, history>>

NoNonce == -1
NoDiff  == -1    \* cur_diff before the first look at difficulty_

Job      == [work : Works, clean : BOOLEAN, gen : 0..MaxNotify]
EmptyJob == [work |-> CHOOSE w \in Works : TRUE, clean |-> FALSE, gen |-> 0]

En1Values == {"empty", "pool", "torn"}

have_job == job_current.gen > 0

\* The key a share is remembered by.
Key == [work |-> job.work, en2 |-> cur_en2, nonce |-> r_nonce]

Keys == [work : Works, en2 : 0..En2Span - 1, nonce : 0..Span - 1]

\* What cuda_setup_job uploads: the header of the job under (en1, cur_en2),
\* and the share target of cur_diff.
Upload == [gen |-> job.gen, en1 |-> en1, en2 |-> cur_en2, diff |-> cur_diff]

Device == [gen : 0..MaxNotify, en1 : En1Values, en2 : 0..En2Span - 1,
           diff : Diffs \cup {NoDiff}]

\* Constant memory nothing is known of: before the first upload, and after one
\* some call of which failed, when it holds parts of this upload, parts of
\* earlier ones, or garbage.
Unknown == [gen |-> 0, en1 |-> "empty", en2 |-> 0, diff |-> NoDiff]

NoVetting == [announced |-> 0, published |-> 0, seq |-> 0]

\* Mutation: job_mu is released right after the copy of job_current.
JobMuReleasedEarly == FALSE

\* The mining thread holds job_mu from the copy of job_current to the end of
\* the pick-up block.
MinerHoldsJobMu == mpc \in {"uncancel", "undedup"}

\* Notifies whose handler has run to its end.
Published == IF netpc \in {"dedup", "seq", "cancel"}
             THEN job_current.gen - 1 ELSE job_current.gen

\* The locals of the mining thread; chunk is set from the intensity.
MinerInit ==
  /\ en1 = "empty"
  /\ job = EmptyJob /\ local_have = FALSE
  /\ cur_en2 = 0 /\ next_nonce = 0 /\ cur_diff = NoDiff
  /\ need_setup = FALSE /\ verified_once = FALSE
  /\ submitted_keys = {}
  /\ chunk \in Chunks
  /\ my_seq = 0 /\ count = 0 /\ r_nonce = NoNonce

Init ==
  /\ job_current = EmptyJob
  /\ current_job_seq = 0
  /\ cancel_current_job = FALSE
  /\ dedup_clear_req = FALSE
  /\ running = TRUE
  /\ difficulty_ = 1
  /\ extranonce1_ = "empty" /\ subscribed_ = FALSE
  /\ netpc = "recv" /\ mpc = "wait"
  /\ MinerInit
  /\ device = Unknown
  /\ submitted = 0 /\ shares_found = 0 /\ blocks_found = 0
  /\ timed_out = FALSE /\ vetted = NoVetting
  /\ sent = {} /\ resent = {} /\ capped = FALSE

-----------------------------------------------------------------------------
(* The network thread.                                                     *)

\* A mining.notify line parses; job_current is replaced under job_mu.
NetNotify(w, clean) ==
  /\ netpc = "recv"
  /\ job_current.gen < MaxNotify
  /\ ~MinerHoldsJobMu
  /\ job_current' = [work |-> w, clean |-> clean, gen |-> job_current.gen + 1]
  /\ netpc' = "dedup"
  /\ UNCHANGED <<current_job_seq, cancel_current_job, dedup_clear_req, running,
                 difficulty_, extranonce1_, subscribed_, mpc, en1, scan, ledger,
                 history>>

\* Mutation: every notify drops the keys, clean or not.
NetDedupClearAlways ==
  /\ netpc = "dedup"
  /\ dedup_clear_req' = TRUE
  /\ netpc' = "seq"
  /\ UNCHANGED <<job_current, current_job_seq, cancel_current_job, running,
                 difficulty_, extranonce1_, subscribed_, mpc, en1, scan, ledger,
                 history>>

NetDedupClear ==
  /\ netpc = "dedup"
  /\ dedup_clear_req' = (dedup_clear_req \/ job_current.clean)
  /\ netpc' = "seq"
  /\ UNCHANGED <<job_current, current_job_seq, cancel_current_job, running,
                 difficulty_, extranonce1_, subscribed_, mpc, en1, scan, ledger,
                 history>>

NetBumpSeq ==
  /\ netpc = "seq"
  /\ current_job_seq' = current_job_seq + 1
  /\ netpc' = "cancel"
  /\ UNCHANGED <<job_current, cancel_current_job, dedup_clear_req, running,
                 difficulty_, extranonce1_, subscribed_, mpc, en1, scan, ledger,
                 history>>

NetCancel ==
  /\ netpc = "cancel"
  /\ cancel_current_job' = TRUE
  /\ netpc' = "recv"
  /\ UNCHANGED <<job_current, current_job_seq, dedup_clear_req, running,
                 difficulty_, extranonce1_, subscribed_, mpc, en1, scan, ledger,
                 history>>

NetSetDifficulty(d) ==
  /\ netpc = "recv"
  /\ difficulty_' = d
  /\ UNCHANGED <<job_current, current_job_seq, cancel_current_job,
                 dedup_clear_req, running, extranonce1_, subscribed_, netpc, mpc,
                 en1, scan, ledger, history>>

\* The subscribe reply: the string is assigned first (a read of it meanwhile
\* is a data race), the flag is released after it.
NetSubscribe ==
  /\ netpc = "recv"
  /\ extranonce1_ = "empty"
  /\ extranonce1_' = "pool"
  /\ netpc' = "subscribing"
  /\ UNCHANGED <<job_current, current_job_seq, cancel_current_job,
                 dedup_clear_req, running, difficulty_, subscribed_, mpc, en1,
                 scan, ledger, history>>

NetSubscribed ==
  /\ netpc = "subscribing"
  /\ subscribed_' = TRUE
  /\ netpc' = "recv"
  /\ UNCHANGED <<job_current, current_job_seq, cancel_current_job,
                 dedup_clear_req, running, difficulty_, extranonce1_, mpc, en1,
                 scan, ledger, history>>

\* recv fails or reports the end of the stream: read_loop returns.
NetEof ==
  /\ netpc = "recv"
  /\ running' = FALSE
  /\ netpc' = "done"
  /\ UNCHANGED <<job_current, current_job_seq, cancel_current_job,
                 dedup_clear_req, difficulty_, extranonce1_, subscribed_, mpc,
                 en1, scan, ledger, history>>

-----------------------------------------------------------------------------
(* The mining thread: start-up and the top of the loop.                    *)

\* Mutation: extranonce1_ is copied without waiting for the reply.
SnapshotAtOnce ==
  /\ mpc = "wait"
  /\ en1' = extranonce1_
  /\ mpc' = "top"
  /\ UNCHANGED <<shared, netpc, scan, ledger, history>>

\* The wait for the subscribe reply ends; extranonce1_ is copied.
WaitSubscribed ==
  /\ mpc = "wait"
  /\ subscribed_ \/ ~running
  /\ en1' = extranonce1_
  /\ mpc' = "top"
  /\ UNCHANGED <<shared, netpc, scan, ledger, history>>

\* ... or the 15 s run out, and the copy may race the network thread.
WaitTimeout ==
  /\ mpc = "wait"
  /\ running /\ ~subscribed_
  /\ en1' \in IF netpc = "subscribing" THEN En1Values ELSE {extranonce1_}
  /\ timed_out' = TRUE
  /\ mpc' = "top"
  /\ UNCHANGED <<shared, netpc, scan, ledger, vetted>>

\* Mutation: the loop does not look at running.
LoopForever ==
  /\ mpc = "top"
  /\ mpc' = IF cancel_current_job \/ ~local_have THEN "pick" ELSE "refresh"
  /\ UNCHANGED <<shared, netpc, en1, scan, ledger, history>>

LoopTop ==
  /\ mpc = "top"
  /\ \/ ~running /\ mpc' = "close"
     \/ running /\ (cancel_current_job \/ ~local_have) /\ mpc' = "pick"
     \/ running /\ ~cancel_current_job /\ local_have /\ mpc' = "refresh"
  /\ UNCHANGED <<shared, netpc, en1, scan, ledger, history>>

\* Under job_mu: copy the latest job and restart its search.
PickUp ==
  /\ mpc = "pick"
  /\ have_job
  /\ job' = job_current
  /\ local_have' = TRUE
  /\ cur_en2' = 0
  /\ next_nonce' = 0
  /\ need_setup' = TRUE
  /\ mpc' = "uncancel"
  /\ UNCHANGED <<shared, netpc, en1, cur_diff, verified_once, chunk, my_seq,
                 count, r_nonce, device, ledger, history>>

NoJobYet ==
  /\ mpc = "pick"
  /\ ~have_job
  /\ mpc' = "top"
  /\ UNCHANGED <<shared, netpc, en1, scan, ledger, history>>

\* Still under job_mu.
ClearCancel ==
  /\ mpc = "uncancel"
  /\ cancel_current_job' = FALSE
  /\ mpc' = "undedup"
  /\ UNCHANGED <<job_current, current_job_seq, dedup_clear_req, running,
                 difficulty_, extranonce1_, subscribed_, netpc, en1, scan,
                 ledger, history>>

\* dedup_clear_req.exchange(false), then job_mu is released.
ClearDedup ==
  /\ mpc = "undedup"
  /\ submitted_keys' = IF dedup_clear_req THEN {} ELSE submitted_keys
  /\ dedup_clear_req' = FALSE
  /\ mpc' = "refresh"
  /\ UNCHANGED <<job_current, current_job_seq, cancel_current_job, running,
                 difficulty_, extranonce1_, subscribed_, netpc, en1, scan,
                 submitted, shares_found, blocks_found, sent, resent, capped,
                 history>>

\* Mutation: the new target is computed and never uploaded.
TargetNotUploaded == FALSE

TargetMoved == difficulty_ # cur_diff

\* Cap the key set, then look at the pool difficulty.
Refresh ==
  LET full == Cardinality(submitted_keys) > KeyCap
  IN /\ mpc = "refresh"
     /\ submitted_keys' = IF full THEN {} ELSE submitted_keys
     /\ capped' = (capped \/ full)
     /\ cur_diff' = difficulty_
     /\ need_setup' = (need_setup \/ TargetMoved)
     /\ mpc' = "setup"
     /\ UNCHANGED <<shared, netpc, en1, job, local_have, cur_en2, next_nonce,
                    verified_once, chunk, my_seq, count, r_nonce, device,
                    submitted, shares_found, blocks_found, sent, resent,
                    history>>

-----------------------------------------------------------------------------
(* The mining thread: set-up, scan and submission.                         *)

NothingToSetUp ==
  /\ mpc = "setup"
  /\ ~need_setup
  /\ mpc' = "launch"
  /\ UNCHANGED <<shared, netpc, en1, scan, ledger, history>>

\* cuda_setup_job returns true whatever happens: a call that fails is printed
\* and passed over, and need_setup is cleared all the same.  The first time,
\* nonce 0 is hashed on both sides and a mismatch leaves the loop through
\* sc.close(); the header may match although the target did not arrive.
SetupJob ==
  /\ mpc = "setup"
  /\ need_setup
  /\ device' \in {Upload} \cup (IF BackendFails THEN {Unknown} ELSE {})
  /\ need_setup' = FALSE
  /\ \/ /\ verified_once' = TRUE
        /\ mpc' = "launch"
     \/ /\ ~verified_once
        /\ verified_once' = FALSE
        /\ mpc' = "close"
  /\ UNCHANGED <<shared, netpc, en1, job, local_have, cur_en2, next_nonce,
                 cur_diff, chunk, my_seq, count, r_nonce, ledger, history>>

\* cuda_setup_job returns false, as it does in a build without CUDA: nothing is
\* uploaded and need_setup stays up.
SetupFails ==
  /\ mpc = "setup"
  /\ need_setup
  /\ BackendFails
  /\ mpc' = "top"
  /\ UNCHANGED <<shared, netpc, en1, scan, ledger, history>>

\* The generation is captured here, after the pick-up and outside job_mu.
Launch ==
  /\ mpc = "launch"
  /\ my_seq' = current_job_seq
  /\ count' = IF Span - next_nonce < chunk THEN Span - next_nonce ELSE chunk
  /\ mpc' = "batch"
  /\ UNCHANGED <<shared, netpc, en1, job, local_have, cur_en2, next_nonce,
                 cur_diff, need_setup, verified_once, chunk, r_nonce, device,
                 ledger, history>>

\* my_seq, count and r are local to an iteration.
EndOfScope ==
  /\ my_seq' = 0
  /\ count' = 0
  /\ r_nonce' = NoNonce
  /\ vetted' = NoVetting

\* Mutation: the nonce space is left only when it is overrun.
AdvanceOverrun ==
  LET nn   == next_nonce + count
      roll == nn > Span
  IN /\ next_nonce' = IF roll THEN 0 ELSE nn
     /\ cur_en2'    = IF roll THEN (cur_en2 + 1) % En2Span ELSE cur_en2
     /\ need_setup' = (need_setup \/ roll)
     /\ EndOfScope
     /\ mpc' = "top"

\* The end of an iteration: the range counts as scanned.
Advance ==
  LET nn   == next_nonce + count
      roll == nn >= Span
  IN /\ next_nonce' = IF roll THEN 0 ELSE nn
     /\ cur_en2'    = IF roll THEN (cur_en2 + 1) % En2Span ELSE cur_en2
     /\ need_setup' = (need_setup \/ roll)
     /\ EndOfScope
     /\ mpc' = "top"

\* cuda_mine_batch returns false, and the range is scanned again.
BatchFails ==
  /\ mpc = "batch"
  /\ BackendFails
  /\ EndOfScope
  /\ mpc' = "top"
  /\ UNCHANGED <<shared, netpc, en1, job, local_have, cur_en2, next_nonce,
                 cur_diff, need_setup, verified_once, chunk, device, ledger,
                 timed_out>>

\* The batch finds nothing; the next launch is re-sized.
BatchEmpty ==
  /\ mpc = "batch"
  /\ chunk' \in Chunks
  /\ Advance
  /\ UNCHANGED <<shared, netpc, en1, job, local_have, cur_diff, verified_once,
                 device, ledger, timed_out>>

\* The batch finds a nonce of its range; when calls fail, the found flag and
\* the nonce may also be what an earlier batch left behind.
BatchFound(n) ==
  /\ mpc = "batch"
  /\ submitted < MaxShares /\ blocks_found < MaxShares
  /\ BackendFails \/ n \in next_nonce .. (next_nonce + count - 1)
  /\ chunk' \in Chunks
  /\ r_nonce' = n
  /\ mpc' = "checkseq"
  /\ UNCHANGED <<shared, netpc, en1, job, local_have, cur_en2, next_nonce,
                 cur_diff, need_setup, verified_once, my_seq, count, device,
                 ledger, history>>

\* The stale-share test, first load.
CheckSeq ==
  /\ mpc = "checkseq"
  /\ IF my_seq # current_job_seq
     THEN Advance
     ELSE /\ mpc' = "checkcancel"
          /\ UNCHANGED <<cur_en2, next_nonce, need_setup, my_seq, count,
                         r_nonce, vetted>>
  /\ UNCHANGED <<shared, netpc, en1, job, local_have, cur_diff, verified_once,
                 chunk, device, ledger, timed_out>>

\* The stale-share test, second load, and the look-up of the key.
DropShare ==
  /\ mpc = "checkcancel"
  /\ cancel_current_job \/ Key \in submitted_keys
  /\ Advance
  /\ UNCHANGED <<shared, netpc, en1, job, local_have, cur_diff, verified_once,
                 chunk, device, ledger, timed_out>>

\* The share is good to go; a block is counted before anything is sent.
PassShare(isBlock) ==
  /\ mpc = "checkcancel"
  /\ ~cancel_current_job
  /\ Key \notin submitted_keys
  /\ blocks_found' = blocks_found + (IF isBlock THEN 1 ELSE 0)
  /\ vetted' = [announced |-> job_current.gen, published |-> Published,
                seq |-> current_job_seq]
  /\ mpc' = "send"
  /\ UNCHANGED <<shared, netpc, en1, scan, submitted_keys, submitted,
                 shares_found, sent, resent, capped, timed_out>>

SendShare ==
  LET share == <<job.gen, cur_en2, r_nonce>>
  IN /\ mpc = "send"
     /\ submitted_keys' = submitted_keys \cup {Key}
     /\ submitted' = submitted + 1
     /\ shares_found' = shares_found + 1
     /\ sent' = sent \cup {share}
     /\ resent' = IF share \in sent THEN resent \cup {job.clean} ELSE resent
     /\ Advance
     /\ UNCHANGED <<shared, netpc, en1, job, local_have, cur_diff,
                    verified_once, chunk, device, blocks_found, capped,
                    timed_out>>

\* submit_share returns -1.
SendFails ==
  /\ mpc = "send"
  /\ Advance
  /\ UNCHANGED <<shared, netpc, en1, job, local_have, cur_diff, verified_once,
                 chunk, device, ledger, timed_out>>

\* sc.close() after the loop.
Close ==
  /\ mpc = "close"
  /\ subscribed_' = FALSE
  /\ mpc' = "join"
  /\ UNCHANGED <<job_current, current_job_seq, cancel_current_job,
                 dedup_clear_req, running, difficulty_, extranonce1_, netpc, en1,
                 scan, ledger, history>>

Join ==
  /\ mpc = "join"
  /\ netpc = "done"
  /\ mpc' = "done"
  /\ UNCHANGED <<shared, netpc, en1, scan, ledger, history>>

-----------------------------------------------------------------------------

\* The stores a notify handler still owes once job_current is replaced, and
\* the one a subscribe reply owes.
NetHandler == NetDedupClear \/ NetBumpSeq \/ NetCancel \/ NetSubscribed

Net ==
  \/ \E w \in Works, clean \in BOOLEAN : NetNotify(w, clean)
  \/ \E d \in Diffs : NetSetDifficulty(d)
  \/ NetSubscribe
  \/ NetHandler
  \/ NetEof

Miner ==
  \/ WaitSubscribed \/ WaitTimeout
  \/ LoopTop \/ PickUp \/ NoJobYet \/ ClearCancel \/ ClearDedup \/ Refresh
  \/ NothingToSetUp \/ SetupJob \/ SetupFails \/ Launch
  \/ BatchFails \/ BatchEmpty \/ \E n \in 0..Span - 1 : BatchFound(n)
  \/ CheckSeq \/ DropShare \/ \E isBlock \in BOOLEAN : PassShare(isBlock)
  \/ SendShare \/ SendFails
  \/ Close \/ Join

Terminated ==
  /\ mpc = "done" /\ netpc = "done"
  /\ UNCHANGED vars

Next == Net \/ Miner \/ Terminated

\* The operating system runs both threads: the network thread finishes a
\* handler it has begun, the mining thread keeps looping.  The pool owes
\* nothing: no line and no end of stream is ever promised.
Fairness == WF_vars(NetHandler) /\ WF_vars(Miner)

SafetySpec == Init /\ [][Next]_vars

Spec == SafetySpec /\ Fairness

-----------------------------------------------------------------------------
(* Properties.                                                             *)

NetPcs   == {"recv", "dedup", "seq", "cancel", "subscribing", "done"}
MinerPcs == {"wait", "top", "pick", "uncancel", "undedup", "refresh", "setup",
             "launch", "batch", "checkseq", "checkcancel", "send", "close",
             "join", "done"}

\* Every variable keeps its type; in particular next_nonce stays inside the
\* nonce space and cur_en2 wraps as the uint32_t it is.
TypeOK ==
  /\ job_current \in Job /\ job \in Job
  /\ current_job_seq \in 0..MaxNotify /\ my_seq \in 0..MaxNotify
  /\ cancel_current_job \in BOOLEAN /\ dedup_clear_req \in BOOLEAN
  /\ running \in BOOLEAN /\ subscribed_ \in BOOLEAN
  /\ difficulty_ \in Diffs /\ cur_diff \in Diffs \cup {NoDiff}
  /\ extranonce1_ \in En1Values /\ en1 \in En1Values
  /\ netpc \in NetPcs /\ mpc \in MinerPcs
  /\ local_have \in BOOLEAN /\ need_setup \in BOOLEAN
  /\ verified_once \in BOOLEAN
  /\ cur_en2 \in 0..En2Span - 1 /\ next_nonce \in 0..Span - 1
  /\ chunk \in Chunks /\ count \in 0..Span
  /\ r_nonce \in 0..Span - 1 \cup {NoNonce}
  /\ device \in Device
  /\ submitted_keys \subseteq Keys
  /\ submitted \in 0..MaxShares /\ shares_found \in 0..MaxShares
  /\ blocks_found \in 0..MaxShares
  /\ timed_out \in BOOLEAN /\ capped \in BOOLEAN
  /\ vetted \in [announced : 0..MaxNotify, published : 0..MaxNotify,
                  seq : 0..MaxNotify]
  /\ sent \subseteq (0..MaxNotify) \X (0..En2Span - 1) \X (0..Span - 1)
  /\ resent \subseteq BOOLEAN

\* The staleness the checks at whirlpool.cpp:277 do guarantee: a share that
\* passes them belongs to a job at least as new as every notify whose handler
\* had finished by then.  A share can so be at most one notify behind, and
\* only while that notify's handler is still running.
SubmitsPublishedJob == mpc = "send" => job.gen >= vetted.published

\* The staleness the comment at whirlpool.cpp:274 claims: no share is sent
\* from a job older than the generation the checks were made against.
NeverOldGeneration == mpc = "send" => job.gen >= vetted.seq

\* A batch runs, and its result is judged, with the constants of the local job,
\* extranonce2 and difficulty on the device, unless a call of the last set-up
\* failed: no pick-up, roll-over, difficulty change or set-up put off ever
\* leaves an older upload behind.  A failed call is only printed
\* (cuda_backend.cu:30), and what batches then run on is left open.
ScansWhatWasUploaded ==
  mpc \in {"batch", "checkseq", "checkcancel", "send"}
    => device \in {Upload, Unknown}

\* A launch covers at least one nonce and never passes the end of the nonce
\* space, so the uint32_t start and count the kernel gets are exact.
BatchInRange == mpc = "batch" => count \in 1..(Span - next_nonce)

\* Unless the wait for it timed out, every share is built on the extranonce1
\* of the subscribe reply, although that string is written by the other
\* thread without a lock; so is the header it was found in, failed uploads
\* aside.
SharesUseExtranonce1 ==
  mpc = "send" /\ ~timed_out
    => en1 = "pool" /\ (device # Unknown => device.en1 = en1)

\* No share of a job announced with clean_jobs=false is sent twice, however
\* often the job is picked up again and rewound to nonce 0, unless the key set
\* outgrew its cap.
PlainJobsNotResent == FALSE \in resent => capped

\* Once the connection is gone, run_stratum returns.
StopsAfterEof == netpc = "done" ~> mpc = "done"

\* The two threads implement the abstract hand-off: the mining thread only
\* moves to the job that is the latest at that moment, and no notify is lost
\* between the cancel flag and the pick-up.
Handoff == INSTANCE JobHandoff
             WITH latest  <- job_current.gen,
                  mining  <- job.gen,
                  stopped <- mpc \in {"close", "join", "done"}

HandoffSpec == Handoff!Spec

-----------------------------------------------------------------------------
(* The inductive invariant behind the theorems of CapStashMinerProofs.     *)

InLoopBody == mpc \in {"refresh", "setup", "launch", "batch", "checkseq",
                       "checkcancel", "send"}
Scanning   == mpc \in {"launch", "batch", "checkseq", "checkcancel", "send"}
Judging    == mpc \in {"checkseq", "checkcancel", "send"}

\* The generation counter follows the notifies, one handler step behind.
SeqInv ==
  /\ netpc \in {"dedup", "seq", "cancel"} => job_current.gen > 0
  /\ current_job_seq = IF netpc \in {"dedup", "seq"}
                       THEN job_current.gen - 1 ELSE job_current.gen

\* What the bounds leave room for while a find is on its way to the pool.
RoomInv ==
  /\ shares_found = submitted
  /\ Judging => r_nonce \in 0..Span - 1 /\ submitted < MaxShares
  /\ mpc \in {"checkseq", "checkcancel"} => blocks_found < MaxShares

\* The local job is an announced one, the very latest while job_mu is held,
\* and not behind a finished handler while the cancel flag is down.
FreshInv ==
  /\ local_have <=> job.gen > 0
  /\ InLoopBody \/ MinerHoldsJobMu => local_have
  /\ job.gen <= job_current.gen
  /\ local_have /\ job.gen = job_current.gen => job = job_current
  /\ MinerHoldsJobMu => job.gen = job_current.gen
  /\ local_have /\ ~cancel_current_job => job.gen >= Published
  /\ mpc = "send" => job.gen >= vetted.published

\* need_setup is up whenever the device holds anything but the current upload,
\* failed calls aside.
UploadInv ==
  /\ local_have /\ ~need_setup => device \in {Upload, Unknown}
  /\ Scanning => ~need_setup
  /\ mpc = "batch" => count \in 1..(Span - next_nonce)
  /\ mpc = "wait" => ~local_have

SubscribeInv ==
  /\ subscribed_ \/ netpc = "subscribing" => extranonce1_ = "pool"
  /\ \/ timed_out
     \/ mpc \in {"wait", "close", "join", "done"}
     \/ en1 = "pool"
     \/ mpc = "top" /\ ~running

\* Keys of a plain job stay until the job is replaced: a pending request to
\* drop keys never outlives the first pick-up of a later plain job.
DedupInv ==
  /\ \A s \in sent : s[1] <= job.gen
  /\ dedup_clear_req /\ ~job_current.clean
        => /\ \A s \in sent : s[1] # job_current.gen
           /\ job.gen = job_current.gen => ~local_have \/ MinerHoldsJobMu
  /\ ~capped /\ local_have /\ ~job.clean
        => \A s \in sent : s[1] = job.gen
             => [work |-> job.work, en2 |-> s[2], nonce |-> s[3]]
                  \in submitted_keys
  /\ mpc = "send" => Key \notin submitted_keys
  /\ FALSE \in resent => capped

IInv == /\ TypeOK /\ SeqInv /\ RoomInv /\ FreshInv /\ UploadInv
        /\ SubscribeInv /\ DedupInv

=============================================================================
