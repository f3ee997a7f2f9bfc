-------------------------- MODULE AlphaMinerProofs --------------------------
(***************************************************************************)
(* What AlphaMiner guarantees for every number of publications, every set  *)
(* of difficulties and batch sizes and every nonce space.  IInv is the     *)
(* inductive invariant: one lemma per part of it, one step per action.     *)
(***************************************************************************)
EXTENDS AlphaMiner, TLAPS

\* What a nonce kept in a fixed-width integer is.
LEMMA Wrapping == ASSUME NEW a \in Nat, NEW n \in Nat \ {0}
                  PROVE  a % n \in 0..n - 1 /\ (a < n => a % n = a)
  OBVIOUS

\* A job that is published once more is a job.
LEMMA RetargetedJob ==
  ASSUME NEW j \in Job, NEW t \in Diffs \cup {Unscaled}, j.pub < MaxPub
  PROVE  LET k == [j EXCEPT !.pub = @ + 1, !.target = t]
         IN k \in Job /\ k.pub = j.pub + 1
<1> DEFINE k == [j EXCEPT !.pub = @ + 1, !.target = t]
<1>1. /\ k.serial = j.serial /\ k.pub = j.pub + 1
      /\ k.explicit = j.explicit /\ k.target = t
  BY DEF Job
<1>2. j.pub + 1 \in 0..MaxPub
  BY AlphaAssumption DEF Job
<1>3. [j EXCEPT !.pub = @ + 1] \in Job
  BY <1>2 DEF Job
<1>4. k \in Job
  BY <1>3 DEF Job
<1>5. QED
  BY <1>1, <1>4

\* Where the search goes on after a nonce was found.
LEMMA Behind == ASSUME AfterFind, Span \in Nat \ {0}, r_nonce \in 0..Span - 1,
                       wrapped \in BOOLEAN
                PROVE  ~wrapped' => ~wrapped /\ next_nonce' = r_nonce + 1
<1>1. ~wrapped' => ~wrapped /\ ~(r_nonce + 1 >= Span)
  BY Zenon DEF AfterFind
<1>2. r_nonce + 1 \in Nat
  OBVIOUS
<1>3. r_nonce + 1 < Span => (r_nonce + 1) % Span = r_nonce + 1
  BY <1>2, Wrapping
<1>4. ~(r_nonce + 1 >= Span) => next_nonce' = r_nonce + 1
  BY <1>2, <1>3 DEF AfterFind
<1>5. QED
  BY <1>1, <1>4

\* The start-up of run establishes the inductive invariant.
LEMMA InitIInv == Init => IInv
<1> SUFFICES ASSUME Init PROVE IInv
  OBVIOUS
<1> USE AlphaAssumption DEF Init, MinerInit, NoJob
<1>1. TypeOK
  <2>1. /\ cancel \in BOOLEAN /\ running \in BOOLEAN /\ local_have \in BOOLEAN
        /\ disable_local_target_scaling \in BOOLEAN
        /\ drained \in BOOLEAN /\ wrapped \in BOOLEAN /\ any_sent \in BOOLEAN
    BY Zenon
  <2>2. QED
    BY <2>1 DEF TypeOK, Job, Unscaled, NoNonce, NetPcs, MinerPcs
<1>2. SeqInv /\ FreshInv
  BY DEF SeqInv, FreshInv, Published, Scanning, MinerHoldsJobMu, have_job
<1>3. OnceInv /\ TargetFollowsDifficulty
  BY DEF OnceInv, TargetFollowsDifficulty, Scanning, Judging, Unscaled
<1>4. QED
  BY <1>1, <1>2, <1>3 DEF IInv

\* A step keeps the types.
LEMMA TypeStep == IInv /\ [Next]_vars => TypeOK'
<1> SUFFICES ASSUME IInv, [Next]_vars PROVE TypeOK'
  OBVIOUS
<1> USE AlphaAssumption
    DEF vars, gpu, shared, flags, batch, mining, history, IInv, TypeOK,
        SeqInv, OnceInv, Scanning, Judging, Job, NetPcs, MinerPcs, NoNonce,
        Unscaled, have_job
<1>1. CASE \E e \in BOOLEAN : NetNotify(e)
  BY <1>1 DEF NetNotify, ShareTarget
<1>2. CASE \E d \in Diffs : NetSetDifficulty(d)
  BY <1>2 DEF NetSetDifficulty
<1>3. CASE NetRetarget
  <2>1. CASE have_job
    <3>1. /\ current_job' = [current_job EXCEPT !.pub = @ + 1,
                 !.target = ShareTarget(current_job.explicit, pool_difficulty)]
          /\ npc = "retarget" /\ npc' = "seq" /\ ~MinerHoldsJobMu
          /\ UNCHANGED <<gpu, job_seq, cancel, flags, mpc, mining, history>>
      BY <1>3, <2>1, Zenon DEF NetRetarget
    <3>2. ShareTarget(current_job.explicit, pool_difficulty)
            \in {Unscaled, pool_difficulty}
      BY DEF ShareTarget
    <3>3. current_job.pub < MaxPub
      BY <2>1, <3>1
    <3>4. current_job' \in Job /\ current_job'.pub = current_job.pub + 1
      BY <3>1, <3>2, <3>3, RetargetedJob
    <3>5. QED
      BY <3>1, <3>4
  <2>2. CASE ~have_job
    <3>1. /\ current_job' = current_job /\ npc = "retarget" /\ npc' = "recv"
          /\ UNCHANGED <<gpu, job_seq, cancel, flags, mpc, mining, history>>
      BY <1>3, <2>2, Zenon DEF NetRetarget
    <3>2. QED
      BY <2>2, <3>1
  <2>3. QED
    BY <2>1, <2>2
<1>4. CASE NetBumpSeq
  BY <1>4 DEF NetBumpSeq
<1>5. CASE NetCancel
  <2>1. cancel' \in BOOLEAN
    BY <1>5, Zenon DEF NetCancel
  <2>2. QED
    BY <1>5, <2>1 DEF NetCancel
<1>6. CASE NetRequestCancel
  BY <1>6 DEF NetRequestCancel
<1>7. CASE NetLowDifficulty
  <2>1. disable_local_target_scaling' \in BOOLEAN
    BY <1>7, Zenon DEF NetLowDifficulty
  <2>2. QED
    BY <1>7, <2>1 DEF NetLowDifficulty
<1>8. CASE NetEof
  <2>1. running' \in BOOLEAN
    BY <1>8, Zenon DEF NetEof
  <2>2. QED
    BY <1>8, <2>1 DEF NetEof
<1>9. CASE LoopTop
  BY <1>9 DEF LoopTop
<1>10. CASE PickUp
  <2>1. wrapped' \in BOOLEAN /\ local_have' \in BOOLEAN
    BY <1>10, Zenon DEF PickUp
  <2>2. QED
    BY <1>10, <2>1 DEF PickUp
<1>11. CASE NoJobYet
  BY <1>11 DEF NoJobYet
<1>12. CASE ClearCancel
  <2>1. cancel' \in BOOLEAN
    BY <1>12, Zenon DEF ClearCancel
  <2>2. QED
    BY <1>12, <2>1 DEF ClearCancel
<1>13. CASE \E c \in Chunks : ReadSeq(c)
  BY <1>13 DEF ReadSeq
<1>14. CASE Launch
  <2>1. drained' \in BOOLEAN
    BY <1>14, Zenon DEF Launch
  <2>2. QED
    BY <1>14, <2>1 DEF Launch
<1>15. CASE \E i \in 0..Span - 1 : ScanFinds(i)
  <2> SUFFICES ASSUME NEW i \in 0..Span - 1, ScanFinds(i) PROVE TypeOK'
    BY <1>15
  <2>1. wrapped' \in BOOLEAN
    BY Zenon DEF ScanFinds
  <2>2. r_nonce' \in 0..Span - 1
    BY Wrapping DEF ScanFinds
  <2>3. QED
    BY <2>1, <2>2 DEF ScanFinds
<1>16. CASE ScanFindsNothing
  <2>1. drained' \in BOOLEAN
    BY <1>16, Zenon DEF ScanFindsNothing
  <2>2. QED
    BY <1>16, <2>1 DEF ScanFindsNothing
<1>17. CASE Advance
  <2>1. wrapped' \in BOOLEAN
    BY <1>17, Zenon DEF Advance
  <2>2. next_nonce' \in 0..Span - 1
    BY <1>17, Wrapping DEF Advance
  <2>3. QED
    BY <1>17, <2>1, <2>2 DEF Advance
<1>18. CASE ScanFails
  BY <1>18 DEF ScanFails
<1>19. CASE CheckSeq
  BY <1>19 DEF CheckSeq
<1>20. CASE DropShare
  <2>1. wrapped' \in BOOLEAN
    BY <1>20, Zenon DEF DropShare, AfterFind
  <2>2. next_nonce' \in 0..Span - 1
    BY <1>20, Wrapping DEF DropShare, AfterFind
  <2>3. QED
    BY <1>20, <2>1, <2>2 DEF DropShare
<1>21. CASE PassShare
  BY <1>21 DEF PassShare, Published
<1>22. CASE Submit
  <2>1. wrapped' \in BOOLEAN /\ any_sent' \in BOOLEAN
    BY <1>22, Zenon DEF Submit, AfterFind
  <2>2. next_nonce' \in 0..Span - 1
    BY <1>22, Wrapping DEF Submit, AfterFind
  <2>3. QED
    BY <1>22, <2>1, <2>2 DEF Submit
<1>23. CASE Join
  BY <1>23 DEF Join
<1>24. CASE Device
  BY <1>24 DEF Device
<1>25. CASE Terminated
  BY <1>25 DEF Terminated
<1>26. CASE UNCHANGED vars
  BY <1>26
<1>27. QED
  BY <1>1, <1>2, <1>3, <1>4, <1>5, <1>6, <1>7, <1>8, <1>9, <1>10, <1>11,
     <1>12, <1>13, <1>14, <1>15, <1>16, <1>17, <1>18, <1>19, <1>20, <1>21,
     <1>22, <1>23, <1>24, <1>25, <1>26
     DEF Next, NetThread, NetHandler, Miner

\* A step keeps the two generations in step with the publications.
LEMMA SeqStep == IInv /\ [Next]_vars => SeqInv'
<1> SUFFICES ASSUME IInv, [Next]_vars PROVE SeqInv'
  OBVIOUS
<1> USE AlphaAssumption
    DEF vars, gpu, shared, flags, batch, mining, history, IInv, TypeOK,
        SeqInv, Job, have_job
<1>1. CASE \E e \in BOOLEAN : NetNotify(e)
  BY <1>1 DEF NetNotify
<1>2. CASE \E d \in Diffs : NetSetDifficulty(d)
  BY <1>2 DEF NetSetDifficulty
<1>3. CASE NetRetarget
  <2>1. CASE have_job
    <3>1. /\ current_job' = [current_job EXCEPT !.pub = @ + 1,
                 !.target = ShareTarget(current_job.explicit, pool_difficulty)]
          /\ npc = "retarget" /\ npc' = "seq" /\ ~MinerHoldsJobMu
          /\ UNCHANGED <<gpu, job_seq, cancel, flags, mpc, mining, history>>
      BY <1>3, <2>1, Zenon DEF NetRetarget
    <3>2. ShareTarget(current_job.explicit, pool_difficulty)
            \in {Unscaled, pool_difficulty}
      BY DEF ShareTarget
    <3>3. QED
      BY <2>1, <3>1, <3>2
  <2>2. CASE ~have_job
    <3>1. /\ current_job' = current_job /\ npc = "retarget" /\ npc' = "recv"
          /\ UNCHANGED <<gpu, job_seq, cancel, flags, mpc, mining, history>>
      BY <1>3, <2>2, Zenon DEF NetRetarget
    <3>2. QED
      BY <2>2, <3>1
  <2>3. QED
    BY <2>1, <2>2
<1>4. CASE NetBumpSeq
  BY <1>4 DEF NetBumpSeq
<1>5. CASE NetCancel
  BY <1>5 DEF NetCancel
<1>6. CASE NetRequestCancel
  BY <1>6 DEF NetRequestCancel
<1>7. CASE NetLowDifficulty
  BY <1>7 DEF NetLowDifficulty
<1>8. CASE NetEof
  BY <1>8 DEF NetEof
<1>9. CASE LoopTop
  BY <1>9 DEF LoopTop
<1>10. CASE PickUp
  BY <1>10 DEF PickUp
<1>11. CASE NoJobYet
  BY <1>11 DEF NoJobYet
<1>12. CASE ClearCancel
  BY <1>12 DEF ClearCancel
<1>13. CASE \E c \in Chunks : ReadSeq(c)
  BY <1>13 DEF ReadSeq
<1>14. CASE Launch
  BY <1>14 DEF Launch
<1>15. CASE \E i \in 0..Span - 1 : ScanFinds(i)
  BY <1>15 DEF ScanFinds
<1>16. CASE ScanFindsNothing
  BY <1>16 DEF ScanFindsNothing
<1>17. CASE Advance
  BY <1>17 DEF Advance
<1>18. CASE ScanFails
  BY <1>18 DEF ScanFails
<1>19. CASE CheckSeq
  BY <1>19 DEF CheckSeq
<1>20. CASE DropShare
  BY <1>20 DEF DropShare, AfterFind
<1>21. CASE PassShare
  BY <1>21 DEF PassShare
<1>22. CASE Submit
  BY <1>22 DEF Submit, AfterFind
<1>23. CASE Join
  BY <1>23 DEF Join
<1>24. CASE Device
  BY <1>24 DEF Device
<1>25. CASE Terminated
  BY <1>25 DEF Terminated
<1>26. CASE UNCHANGED vars
  BY <1>26
<1>27. QED
  BY <1>1, <1>2, <1>3, <1>4, <1>5, <1>6, <1>7, <1>8, <1>9, <1>10, <1>11,
     <1>12, <1>13, <1>14, <1>15, <1>16, <1>17, <1>18, <1>19, <1>20, <1>21,
     <1>22, <1>23, <1>24, <1>25, <1>26
     DEF Next, NetThread, NetHandler, Miner

\* A step keeps the local job as fresh as FreshInv says.
LEMMA FreshStep == IInv /\ [Next]_vars => FreshInv'
<1> SUFFICES ASSUME IInv, [Next]_vars PROVE FreshInv'
  OBVIOUS
<1> USE AlphaAssumption
    DEF vars, gpu, shared, flags, batch, mining, history, IInv, TypeOK,
        SeqInv, FreshInv, Published, Scanning, MinerHoldsJobMu, Job, have_job
<1>1. CASE \E e \in BOOLEAN : NetNotify(e)
  BY <1>1 DEF NetNotify
<1>2. CASE \E d \in Diffs : NetSetDifficulty(d)
  BY <1>2 DEF NetSetDifficulty
<1>3. CASE NetRetarget
  <2>1. CASE have_job
    <3>1. /\ current_job' = [current_job EXCEPT !.pub = @ + 1,
                 !.target = ShareTarget(current_job.explicit, pool_difficulty)]
          /\ npc = "retarget" /\ npc' = "seq" /\ ~MinerHoldsJobMu
          /\ UNCHANGED <<gpu, job_seq, cancel, flags, mpc, mining, history>>
      BY <1>3, <2>1, Zenon DEF NetRetarget
    <3>2. ShareTarget(current_job.explicit, pool_difficulty)
            \in {Unscaled, pool_difficulty}
      BY DEF ShareTarget
    <3>3. QED
      BY <2>1, <3>1, <3>2
  <2>2. CASE ~have_job
    <3>1. /\ current_job' = current_job /\ npc = "retarget" /\ npc' = "recv"
          /\ UNCHANGED <<gpu, job_seq, cancel, flags, mpc, mining, history>>
      BY <1>3, <2>2, Zenon DEF NetRetarget
    <3>2. QED
      BY <2>2, <3>1
  <2>3. QED
    BY <2>1, <2>2
<1>4. CASE NetBumpSeq
  BY <1>4 DEF NetBumpSeq
<1>5. CASE NetCancel
  <2>1. cancel'
    BY <1>5, Zenon DEF NetCancel
  <2>2. QED
    BY <1>5, <2>1 DEF NetCancel
<1>6. CASE NetRequestCancel
  BY <1>6 DEF NetRequestCancel
<1>7. CASE NetLowDifficulty
  BY <1>7 DEF NetLowDifficulty
<1>8. CASE NetEof
  BY <1>8 DEF NetEof
<1>9. CASE LoopTop
  BY <1>9 DEF LoopTop
<1>10. CASE PickUp
  <2>1. local_have'
    BY <1>10, Zenon DEF PickUp
  <2>2. QED
    BY <1>10, <2>1 DEF PickUp
<1>11. CASE NoJobYet
  BY <1>11 DEF NoJobYet
<1>12. CASE ClearCancel
  BY <1>12 DEF ClearCancel
<1>13. CASE \E c \in Chunks : ReadSeq(c)
  BY <1>13 DEF ReadSeq
<1>14. CASE Launch
  BY <1>14 DEF Launch
<1>15. CASE \E i \in 0..Span - 1 : ScanFinds(i)
  BY <1>15 DEF ScanFinds
<1>16. CASE ScanFindsNothing
  BY <1>16 DEF ScanFindsNothing
<1>17. CASE Advance
  BY <1>17 DEF Advance
<1>18. CASE ScanFails
  BY <1>18 DEF ScanFails
<1>19. CASE CheckSeq
  BY <1>19 DEF CheckSeq
<1>20. CASE DropShare
  BY <1>20 DEF DropShare, AfterFind
<1>21. CASE PassShare
  BY <1>21 DEF PassShare
<1>22. CASE Submit
  BY <1>22 DEF Submit, AfterFind
<1>23. CASE Join
  BY <1>23 DEF Join
<1>24. CASE Device
  BY <1>24 DEF Device
<1>25. CASE Terminated
  BY <1>25 DEF Terminated
<1>26. CASE UNCHANGED vars
  BY <1>26
<1>27. QED
  BY <1>1, <1>2, <1>3, <1>4, <1>5, <1>6, <1>7, <1>8, <1>9, <1>10, <1>11,
     <1>12, <1>13, <1>14, <1>15, <1>16, <1>17, <1>18, <1>19, <1>20, <1>21,
     <1>22, <1>23, <1>24, <1>25, <1>26
     DEF Next, NetThread, NetHandler, Miner

\* A step keeps what was sent behind the search.
LEMMA OnceStep == IInv /\ [Next]_vars => OnceInv'
<1> SUFFICES ASSUME IInv, [Next]_vars PROVE OnceInv'
  OBVIOUS
<1> USE AlphaAssumption
    DEF vars, gpu, shared, flags, batch, mining, history, IInv, TypeOK,
        OnceInv, Scanning, Judging
<1>1. CASE \E e \in BOOLEAN : NetNotify(e)
  BY <1>1 DEF NetNotify
<1>2. CASE \E d \in Diffs : NetSetDifficulty(d)
  BY <1>2 DEF NetSetDifficulty
<1>3. CASE NetRetarget
  BY <1>3 DEF NetRetarget
<1>4. CASE NetBumpSeq
  BY <1>4 DEF NetBumpSeq
<1>5. CASE NetCancel
  BY <1>5 DEF NetCancel
<1>6. CASE NetRequestCancel
  BY <1>6 DEF NetRequestCancel
<1>7. CASE NetLowDifficulty
  BY <1>7 DEF NetLowDifficulty
<1>8. CASE NetEof
  BY <1>8 DEF NetEof
<1>9. CASE LoopTop
  BY <1>9 DEF LoopTop
<1>10. CASE PickUp
  BY <1>10 DEF PickUp
<1>11. CASE NoJobYet
  BY <1>11 DEF NoJobYet
<1>12. CASE ClearCancel
  BY <1>12 DEF ClearCancel
<1>13. CASE \E c \in Chunks : ReadSeq(c)
  BY <1>13 DEF ReadSeq
<1>14. CASE Launch
  BY <1>14 DEF Launch
<1>15. CASE \E i \in 0..Span - 1 : ScanFinds(i)
  <2> SUFFICES ASSUME NEW i \in 0..Span - 1, ScanFinds(i) PROVE OnceInv'
    BY <1>15
  <2>1. ~wrapped' => ~wrapped /\ ~(next_nonce + i >= Span)
    BY Zenon DEF ScanFinds
  <2>2. r_nonce' \in 0..Span - 1
    BY Wrapping DEF ScanFinds
  <2>3. next_nonce + i \in Nat
    OBVIOUS
  <2>4. next_nonce + i < Span => (next_nonce + i) % Span = next_nonce + i
    BY <2>3, Wrapping
  <2>5. ~(next_nonce + i >= Span) => r_nonce' = next_nonce + i
    BY <2>3, <2>4 DEF ScanFinds
  <2>6. QED
    BY <2>1, <2>2, <2>5 DEF ScanFinds
<1>16. CASE ScanFindsNothing
  BY <1>16 DEF ScanFindsNothing
<1>17. CASE Advance
  <2>1. count \in Nat
    BY <1>17 DEF Advance
  <2>2. ~wrapped' => ~wrapped /\ ~(next_nonce + count >= Span)
    BY <1>17, Zenon DEF Advance
  <2>3. next_nonce + count \in Nat
    BY <2>1
  <2>4. next_nonce + count < Span => (next_nonce + count) % Span = next_nonce + count
    BY <2>3, Wrapping
  <2>5. ~(next_nonce + count >= Span) => next_nonce' = next_nonce + count
    BY <1>17, <2>3, <2>4 DEF Advance
  <2>6. QED
    BY <1>17, <2>1, <2>2, <2>5 DEF Advance
<1>18. CASE ScanFails
  BY <1>18 DEF ScanFails
<1>19. CASE CheckSeq
  BY <1>19 DEF CheckSeq
<1>20. CASE DropShare
  <2>1. r_nonce \in 0..Span - 1 /\ (~wrapped => r_nonce >= next_nonce)
    BY <1>20 DEF DropShare
  <2>2. ~wrapped' => ~wrapped /\ next_nonce' = r_nonce + 1
    BY <1>20, <2>1, Behind DEF DropShare
  <2>3. QED
    BY <1>20, <2>1, <2>2 DEF DropShare
<1>21. CASE PassShare
  BY <1>21 DEF PassShare
<1>22. CASE Submit
  <2>1. r_nonce \in 0..Span - 1 /\ (~wrapped => r_nonce >= next_nonce)
    BY <1>22 DEF Submit
  <2>2. ~wrapped' => ~wrapped /\ next_nonce' = r_nonce + 1
    BY <1>22, <2>1, Behind DEF Submit
  <2>3. QED
    BY <1>22, <2>1, <2>2 DEF Submit
<1>23. CASE Join
  BY <1>23 DEF Join
<1>24. CASE Device
  BY <1>24 DEF Device
<1>25. CASE Terminated
  BY <1>25 DEF Terminated
<1>26. CASE UNCHANGED vars
  BY <1>26
<1>27. QED
  BY <1>1, <1>2, <1>3, <1>4, <1>5, <1>6, <1>7, <1>8, <1>9, <1>10, <1>11,
     <1>12, <1>13, <1>14, <1>15, <1>16, <1>17, <1>18, <1>19, <1>20, <1>21,
     <1>22, <1>23, <1>24, <1>25, <1>26
     DEF Next, NetThread, NetHandler, Miner

\* A step keeps the published target at the difficulty set last.
LEMMA TargetStep == IInv /\ [Next]_vars => TargetFollowsDifficulty'
<1> SUFFICES ASSUME IInv, [Next]_vars PROVE TargetFollowsDifficulty'
  OBVIOUS
<1> USE AlphaAssumption
    DEF vars, gpu, shared, flags, batch, mining, history, IInv, TypeOK,
        TargetFollowsDifficulty, Unscaled, SeqInv, have_job, Job
<1>1. CASE \E e \in BOOLEAN : NetNotify(e)
  BY <1>1 DEF NetNotify, ShareTarget
<1>2. CASE \E d \in Diffs : NetSetDifficulty(d)
  BY <1>2 DEF NetSetDifficulty
<1>3. CASE NetRetarget
  <2>1. CASE have_job
    <3>1. /\ current_job' = [current_job EXCEPT !.pub = @ + 1,
                 !.target = ShareTarget(current_job.explicit, pool_difficulty)]
          /\ npc = "retarget" /\ npc' = "seq" /\ ~MinerHoldsJobMu
          /\ UNCHANGED <<gpu, job_seq, cancel, flags, mpc, mining, history>>
      BY <1>3, <2>1, Zenon DEF NetRetarget
    <3>2. ShareTarget(current_job.explicit, pool_difficulty)
            \in {Unscaled, pool_difficulty}
      BY DEF ShareTarget
    <3>3. QED
      BY <2>1, <3>1, <3>2
  <2>2. CASE ~have_job
    <3>1. /\ current_job' = current_job /\ npc = "retarget" /\ npc' = "recv"
          /\ UNCHANGED <<gpu, job_seq, cancel, flags, mpc, mining, history>>
      BY <1>3, <2>2, Zenon DEF NetRetarget
    <3>2. QED
      BY <2>2, <3>1
  <2>3. QED
    BY <2>1, <2>2
<1>4. CASE NetBumpSeq
  BY <1>4 DEF NetBumpSeq
<1>5. CASE NetCancel
  BY <1>5 DEF NetCancel
<1>6. CASE NetRequestCancel
  BY <1>6 DEF NetRequestCancel
<1>7. CASE NetLowDifficulty
  BY <1>7 DEF NetLowDifficulty
<1>8. CASE NetEof
  BY <1>8 DEF NetEof
<1>9. CASE LoopTop
  BY <1>9 DEF LoopTop
<1>10. CASE PickUp
  BY <1>10 DEF PickUp
<1>11. CASE NoJobYet
  BY <1>11 DEF NoJobYet
<1>12. CASE ClearCancel
  BY <1>12 DEF ClearCancel
<1>13. CASE \E c \in Chunks : ReadSeq(c)
  BY <1>13 DEF ReadSeq
<1>14. CASE Launch
  BY <1>14 DEF Launch
<1>15. CASE \E i \in 0..Span - 1 : ScanFinds(i)
  BY <1>15 DEF ScanFinds
<1>16. CASE ScanFindsNothing
  BY <1>16 DEF ScanFindsNothing
<1>17. CASE Advance
  BY <1>17 DEF Advance
<1>18. CASE ScanFails
  BY <1>18 DEF ScanFails
<1>19. CASE CheckSeq
  BY <1>19 DEF CheckSeq
<1>20. CASE DropShare
  BY <1>20 DEF DropShare, AfterFind
<1>21. CASE PassShare
  BY <1>21 DEF PassShare
<1>22. CASE Submit
  BY <1>22 DEF Submit, AfterFind
<1>23. CASE Join
  BY <1>23 DEF Join
<1>24. CASE Device
  BY <1>24 DEF Device
<1>25. CASE Terminated
  BY <1>25 DEF Terminated
<1>26. CASE UNCHANGED vars
  BY <1>26
<1>27. QED
  BY <1>1, <1>2, <1>3, <1>4, <1>5, <1>6, <1>7, <1>8, <1>9, <1>10, <1>11,
     <1>12, <1>13, <1>14, <1>15, <1>16, <1>17, <1>18, <1>19, <1>20, <1>21,
     <1>22, <1>23, <1>24, <1>25, <1>26
     DEF Next, NetThread, NetHandler, Miner

\* IInv holds in every reachable state of run.
THEOREM Invariance == SafetySpec => []IInv
<1>1. IInv /\ [Next]_vars => IInv'
  BY TypeStep, SeqStep, FreshStep, OnceStep, TargetStep DEF IInv
<1>2. QED
  BY InitIInv, <1>1, PTL DEF SafetySpec

\* The types hold; request_cancel never outnumbers the publications.
THEOREM TypeCorrectness == SafetySpec => []TypeOK
<1>1. IInv => TypeOK
  BY DEF IInv
<1>2. QED
  BY Invariance, <1>1, PTL

\* A share that passes the checks at alphanumeric_runner.cpp:1186 is never
\* behind a publication whose handler has raised the cancel flag.
THEOREM Staleness == SafetySpec => []SubmitsPublishedJob
<1>1. IInv => SubmitsPublishedJob
  BY DEF IInv, FreshInv, SubmitsPublishedJob
<1>2. QED
  BY Invariance, <1>1, PTL

\* A scaled target in publication is the one of the last mining.set_difficulty.
THEOREM Retargeting == SafetySpec => []TargetFollowsDifficulty
<1>1. IInv => TargetFollowsDifficulty
  BY DEF IInv
<1>2. QED
  BY Invariance, <1>1, PTL

\* Between two pick-ups no nonce is submitted twice before the search wraps.
THEOREM OncePerPickUp == SafetySpec => []SubmitsOncePerPickUp
<1>1. IInv => SubmitsOncePerPickUp
  <2>1. SUFFICES ASSUME IInv, mpc = "submit", ~wrapped PROVE r_nonce \notin sent
    BY DEF SubmitsOncePerPickUp
  <2>2. r_nonce \in Int /\ next_nonce \in Int /\ sent \subseteq Int
    BY <2>1 DEF IInv, TypeOK, OnceInv, Judging
  <2>3. r_nonce >= next_nonce /\ \A n \in sent : n < next_nonce
    BY <2>1 DEF IInv, OnceInv, Judging
  <2>4. QED
    BY <2>2, <2>3
<1>2. QED
  BY Invariance, <1>1, PTL

\* Every step of the two threads is an announcement, an adoption of the latest
\* publication, a stop, or invisible to the hand-off.
LEMMA HandoffStep == IInv /\ [Next]_vars => [Handoff!Next]_(Handoff!vars)
<1> SUFFICES ASSUME IInv, [Next]_vars PROVE Handoff!Next \/ UNCHANGED Handoff!vars
  OBVIOUS
<1> USE AlphaAssumption
    DEF vars, gpu, shared, flags, batch, mining, history, Handoff!vars
<1>1. CASE \E e \in BOOLEAN : NetNotify(e)
  BY <1>1 DEF NetNotify, Handoff!Next, Handoff!Announce
<1>2. CASE \E d \in Diffs : NetSetDifficulty(d)
  BY <1>2 DEF NetSetDifficulty
<1>3. CASE NetRetarget
  BY <1>3 DEF NetRetarget, Handoff!Next, Handoff!Announce, IInv, TypeOK,
           Job
<1>4. CASE NetBumpSeq
  BY <1>4 DEF NetBumpSeq
<1>5. CASE NetCancel
  BY <1>5 DEF NetCancel
<1>6. CASE NetRequestCancel
  BY <1>6 DEF NetRequestCancel
<1>7. CASE NetLowDifficulty
  BY <1>7 DEF NetLowDifficulty
<1>8. CASE NetEof
  BY <1>8 DEF NetEof
<1>9. CASE LoopTop
  BY <1>9 DEF LoopTop, Handoff!Next, Handoff!Stop
<1>10. CASE PickUp
  <2>1. ~(mpc \in {"join", "done"}) /\ ~(mpc' \in {"join", "done"})
    BY <1>10 DEF PickUp
  <2>2. job' = current_job /\ current_job' = current_job
    BY <1>10 DEF PickUp
  <2>3. CASE job.pub = current_job.pub
    BY <2>1, <2>2, <2>3
  <2>4. CASE job.pub # current_job.pub
    BY <2>1, <2>2, <2>4 DEF Handoff!Next, Handoff!Adopt
  <2>5. QED
    BY <2>3, <2>4
<1>11. CASE NoJobYet
  BY <1>11 DEF NoJobYet
<1>12. CASE ClearCancel
  BY <1>12 DEF ClearCancel
<1>13. CASE \E c \in Chunks : ReadSeq(c)
  BY <1>13 DEF ReadSeq
<1>14. CASE Launch
  BY <1>14 DEF Launch
<1>15. CASE \E i \in 0..Span - 1 : ScanFinds(i)
  BY <1>15 DEF ScanFinds
<1>16. CASE ScanFindsNothing
  BY <1>16 DEF ScanFindsNothing
<1>17. CASE Advance
  BY <1>17 DEF Advance
<1>18. CASE ScanFails
  BY <1>18 DEF ScanFails
<1>19. CASE CheckSeq
  BY <1>19 DEF CheckSeq
<1>20. CASE DropShare
  BY <1>20 DEF DropShare, AfterFind
<1>21. CASE PassShare
  BY <1>21 DEF PassShare
<1>22. CASE Submit
  BY <1>22 DEF Submit, AfterFind
<1>23. CASE Join
  BY <1>23 DEF Join
<1>24. CASE Device
  BY <1>24 DEF Device
<1>25. CASE Terminated
  BY <1>25 DEF Terminated
<1>26. CASE UNCHANGED vars
  BY <1>26
<1>27. QED
  BY <1>1, <1>2, <1>3, <1>4, <1>5, <1>6, <1>7, <1>8, <1>9, <1>10, <1>11,
     <1>12, <1>13, <1>14, <1>15, <1>16, <1>17, <1>18, <1>19, <1>20, <1>21,
     <1>22, <1>23, <1>24, <1>25, <1>26
     DEF Next, NetThread, NetHandler, Miner

\* The two threads implement the safety part of the abstract hand-off: the
\* miner only ever moves to the publication that is the latest at that moment.
THEOREM HandoffSafety == SafetySpec => Handoff!SafetySpec
<1>1. Init => Handoff!Init
  BY DEF Init, MinerInit, NoJob, Handoff!Init
<1>2. QED
  BY <1>1, HandoffStep, Invariance, PTL DEF SafetySpec, Handoff!SafetySpec

=============================================================================
