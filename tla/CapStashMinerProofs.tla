------------------------ MODULE CapStashMinerProofs ------------------------
(***************************************************************************)
(* What CapStashMiner guarantees for every number of notifies, works,      *)
(* difficulties and launch sizes and for every nonce and extranonce2       *)
(* space.  IInv is the inductive invariant: one lemma per part of it, one  *)
(* step per action.                                                        *)
(***************************************************************************)
EXTENDS CapStashMiner, TLAPS

\* The start-up of run_stratum establishes the inductive invariant.
LEMMA InitIInv == Init => IInv
<1> SUFFICES ASSUME Init PROVE IInv
  OBVIOUS
<1> USE ConstantsAssumption DEF Init, MinerInit, EmptyJob, NoVetting, Unknown
<1>1. EmptyJob \in Job
  BY DEF Job
<1>2. TypeOK
  <2>1. /\ cancel_current_job \in BOOLEAN /\ dedup_clear_req \in BOOLEAN
        /\ running \in BOOLEAN /\ subscribed_ \in BOOLEAN
        /\ local_have \in BOOLEAN /\ need_setup \in BOOLEAN
        /\ verified_once \in BOOLEAN
        /\ timed_out \in BOOLEAN /\ capped \in BOOLEAN
    BY Zenon
  <2>2. QED
    BY <1>1, <2>1
       DEF TypeOK, NoNonce, NoDiff, Device, En1Values, NetPcs, MinerPcs
<1>3. SeqInv /\ RoomInv /\ UploadInv /\ SubscribeInv
  BY DEF SeqInv, RoomInv, UploadInv, SubscribeInv, Judging, Scanning
<1>4. FreshInv
  BY DEF FreshInv, InLoopBody, MinerHoldsJobMu, Published
<1>5. DedupInv
  BY DEF DedupInv
<1>6. QED
  BY <1>2, <1>3, <1>4, <1>5 DEF IInv

\* A step keeps the types.  The counters stay within their bounds by SeqInv
\* and RoomInv.
LEMMA TypeStep == IInv /\ [Next]_vars => TypeOK'
<1> SUFFICES ASSUME IInv, [Next]_vars PROVE TypeOK'
  OBVIOUS
<1> USE ConstantsAssumption
    DEF vars, shared, scan, ledger, history, IInv, TypeOK, SeqInv, RoomInv,
        NoNonce, NoDiff, Job, Keys, Key, Device, Upload, Unknown, NetPcs,
        MinerPcs, En1Values, Judging, Published, NoVetting
<1>1. CASE \E w \in Works, clean \in BOOLEAN : NetNotify(w, clean)
  BY <1>1 DEF NetNotify, MinerHoldsJobMu
<1>2. CASE \E d \in Diffs : NetSetDifficulty(d)
  BY <1>2 DEF NetSetDifficulty
<1>3. CASE NetDedupClear
  BY <1>3 DEF NetDedupClear
<1>4. CASE NetBumpSeq
  BY <1>4 DEF NetBumpSeq
<1>5. CASE NetCancel
  BY <1>5 DEF NetCancel
<1>6. CASE NetSubscribe
  BY <1>6 DEF NetSubscribe
<1>7. CASE NetSubscribed
  BY <1>7 DEF NetSubscribed
<1>8. CASE NetEof
  <2>1. running' \in BOOLEAN
    BY <1>8, Zenon DEF NetEof
  <2>2. QED
    BY <1>8, <2>1 DEF NetEof
<1>9. CASE WaitSubscribed
  BY <1>9 DEF WaitSubscribed
<1>10. CASE WaitTimeout
  BY <1>10 DEF WaitTimeout
<1>11. CASE LoopTop
  BY <1>11 DEF LoopTop
<1>12. CASE PickUp
  BY <1>12 DEF PickUp, have_job
<1>13. CASE NoJobYet
  BY <1>13 DEF NoJobYet, have_job
<1>14. CASE ClearCancel
  <2>1. cancel_current_job' \in BOOLEAN
    BY <1>14, Zenon DEF ClearCancel
  <2>2. QED
    BY <1>14, <2>1 DEF ClearCancel
<1>15. CASE ClearDedup
  <2>1. dedup_clear_req' \in BOOLEAN
    BY <1>15, Zenon DEF ClearDedup
  <2>2. QED
    BY <1>15, <2>1 DEF ClearDedup
<1>16. CASE Refresh
  BY <1>16 DEF Refresh, TargetMoved
<1>17. CASE NothingToSetUp
  BY <1>17 DEF NothingToSetUp
<1>18. CASE SetupJob
  <2>1. need_setup' \in BOOLEAN /\ verified_once' \in BOOLEAN
    BY <1>18, Zenon DEF SetupJob
  <2>2. device' \in Device
    BY <1>18 DEF SetupJob
  <2>3. QED
    BY <1>18, <2>1, <2>2 DEF SetupJob
<1>19. CASE SetupFails
  BY <1>19 DEF SetupFails
<1>20. CASE Launch
  BY <1>20 DEF Launch
<1>21. CASE BatchFails
  BY <1>21 DEF BatchFails, EndOfScope
<1>22. CASE BatchEmpty
  BY <1>22 DEF BatchEmpty, Advance, EndOfScope
<1>23. CASE \E n \in 0..Span - 1 : BatchFound(n)
  BY <1>23 DEF BatchFound
<1>24. CASE CheckSeq
  <2>1. CASE my_seq # current_job_seq
    BY <1>24, <2>1 DEF CheckSeq, Advance, EndOfScope
  <2>2. CASE my_seq = current_job_seq
    BY <1>24, <2>2 DEF CheckSeq
  <2>3. QED
    BY <2>1, <2>2
<1>25. CASE DropShare
  BY <1>25 DEF DropShare, Advance, EndOfScope, Key
<1>26. CASE \E isBlock \in BOOLEAN : PassShare(isBlock)
  BY <1>26 DEF PassShare, Key, Published
<1>27. CASE SendShare
  BY <1>27 DEF SendShare, Advance, EndOfScope, Key
<1>28. CASE SendFails
  BY <1>28 DEF SendFails, Advance, EndOfScope
<1>29. CASE Close
  <2>1. subscribed_' \in BOOLEAN
    BY <1>29, Zenon DEF Close
  <2>2. QED
    BY <1>29, <2>1 DEF Close
<1>30. CASE Join
  BY <1>30 DEF Join
<1>31. CASE Terminated
  BY <1>31 DEF Terminated
<1>32. CASE UNCHANGED vars
  BY <1>32
<1>33. QED
  BY <1>1, <1>2, <1>3, <1>4, <1>5, <1>6, <1>7, <1>8, <1>9, <1>10, <1>11,
     <1>12, <1>13, <1>14, <1>15, <1>16, <1>17, <1>18, <1>19, <1>20, <1>21,
     <1>22, <1>23, <1>24, <1>25, <1>26, <1>27, <1>28, <1>29, <1>30, <1>31,
     <1>32 DEF Next, Net, NetHandler, Miner

\* A step keeps the generation counter in step with the notifies.
LEMMA SeqStep == IInv /\ [Next]_vars => SeqInv'
<1> SUFFICES ASSUME IInv, [Next]_vars PROVE SeqInv'
  OBVIOUS
<1> USE ConstantsAssumption
    DEF vars, shared, scan, ledger, history, IInv, TypeOK, SeqInv, Job,
        NetPcs
<1>1. CASE \E w \in Works, clean \in BOOLEAN : NetNotify(w, clean)
  BY <1>1 DEF NetNotify, MinerHoldsJobMu
<1>2. CASE \E d \in Diffs : NetSetDifficulty(d)
  BY <1>2 DEF NetSetDifficulty
<1>3. CASE NetDedupClear
  BY <1>3 DEF NetDedupClear
<1>4. CASE NetBumpSeq
  BY <1>4 DEF NetBumpSeq
<1>5. CASE NetCancel
  BY <1>5 DEF NetCancel
<1>6. CASE NetSubscribe
  BY <1>6 DEF NetSubscribe
<1>7. CASE NetSubscribed
  BY <1>7 DEF NetSubscribed
<1>8. CASE NetEof
  BY <1>8 DEF NetEof
<1>9. CASE WaitSubscribed
  BY <1>9 DEF WaitSubscribed
<1>10. CASE WaitTimeout
  BY <1>10 DEF WaitTimeout
<1>11. CASE LoopTop
  BY <1>11 DEF LoopTop
<1>12. CASE PickUp
  BY <1>12 DEF PickUp, have_job
<1>13. CASE NoJobYet
  BY <1>13 DEF NoJobYet, have_job
<1>14. CASE ClearCancel
  BY <1>14 DEF ClearCancel
<1>15. CASE ClearDedup
  BY <1>15 DEF ClearDedup
<1>16. CASE Refresh
  BY <1>16 DEF Refresh
<1>17. CASE NothingToSetUp
  BY <1>17 DEF NothingToSetUp
<1>18. CASE SetupJob
  BY <1>18 DEF SetupJob, Upload
<1>19. CASE SetupFails
  BY <1>19 DEF SetupFails
<1>20. CASE Launch
  BY <1>20 DEF Launch
<1>21. CASE BatchFails
  BY <1>21 DEF BatchFails, EndOfScope
<1>22. CASE BatchEmpty
  BY <1>22 DEF BatchEmpty, Advance, EndOfScope
<1>23. CASE \E n \in 0..Span - 1 : BatchFound(n)
  BY <1>23 DEF BatchFound
<1>24. CASE CheckSeq
  BY <1>24 DEF CheckSeq, Advance, EndOfScope
<1>25. CASE DropShare
  BY <1>25 DEF DropShare, Advance, EndOfScope, Key
<1>26. CASE \E isBlock \in BOOLEAN : PassShare(isBlock)
  BY <1>26 DEF PassShare, Key, Published
<1>27. CASE SendShare
  BY <1>27 DEF SendShare, Advance, EndOfScope, Key
<1>28. CASE SendFails
  BY <1>28 DEF SendFails, Advance, EndOfScope
<1>29. CASE Close
  BY <1>29 DEF Close
<1>30. CASE Join
  BY <1>30 DEF Join
<1>31. CASE Terminated
  BY <1>31 DEF Terminated
<1>32. CASE UNCHANGED vars
  BY <1>32
<1>33. QED
  BY <1>1, <1>2, <1>3, <1>4, <1>5, <1>6, <1>7, <1>8, <1>9, <1>10, <1>11,
     <1>12, <1>13, <1>14, <1>15, <1>16, <1>17, <1>18, <1>19, <1>20, <1>21,
     <1>22, <1>23, <1>24, <1>25, <1>26, <1>27, <1>28, <1>29, <1>30, <1>31,
     <1>32 DEF Next, Net, NetHandler, Miner

\* A step keeps the room for a find on its way to the pool.
LEMMA RoomStep == IInv /\ [Next]_vars => RoomInv'
<1> SUFFICES ASSUME IInv, [Next]_vars PROVE RoomInv'
  OBVIOUS
<1> USE ConstantsAssumption
    DEF vars, shared, scan, ledger, history, IInv, TypeOK, RoomInv, Judging,
        MinerPcs, NoNonce
<1>1. CASE \E w \in Works, clean \in BOOLEAN : NetNotify(w, clean)
  BY <1>1 DEF NetNotify, MinerHoldsJobMu
<1>2. CASE \E d \in Diffs : NetSetDifficulty(d)
  BY <1>2 DEF NetSetDifficulty
<1>3. CASE NetDedupClear
  BY <1>3 DEF NetDedupClear
<1>4. CASE NetBumpSeq
  BY <1>4 DEF NetBumpSeq
<1>5. CASE NetCancel
  BY <1>5 DEF NetCancel
<1>6. CASE NetSubscribe
  BY <1>6 DEF NetSubscribe
<1>7. CASE NetSubscribed
  BY <1>7 DEF NetSubscribed
<1>8. CASE NetEof
  BY <1>8 DEF NetEof
<1>9. CASE WaitSubscribed
  BY <1>9 DEF WaitSubscribed
<1>10. CASE WaitTimeout
  BY <1>10 DEF WaitTimeout
<1>11. CASE LoopTop
  BY <1>11 DEF LoopTop
<1>12. CASE PickUp
  BY <1>12 DEF PickUp, have_job
<1>13. CASE NoJobYet
  BY <1>13 DEF NoJobYet, have_job
<1>14. CASE ClearCancel
  BY <1>14 DEF ClearCancel
<1>15. CASE ClearDedup
  BY <1>15 DEF ClearDedup
<1>16. CASE Refresh
  BY <1>16 DEF Refresh
<1>17. CASE NothingToSetUp
  BY <1>17 DEF NothingToSetUp
<1>18. CASE SetupJob
  BY <1>18 DEF SetupJob, Upload
<1>19. CASE SetupFails
  BY <1>19 DEF SetupFails
<1>20. CASE Launch
  BY <1>20 DEF Launch
<1>21. CASE BatchFails
  BY <1>21 DEF BatchFails, EndOfScope
<1>22. CASE BatchEmpty
  BY <1>22 DEF BatchEmpty, Advance, EndOfScope
<1>23. CASE \E n \in 0..Span - 1 : BatchFound(n)
  BY <1>23 DEF BatchFound
<1>24. CASE CheckSeq
  BY <1>24 DEF CheckSeq, Advance, EndOfScope
<1>25. CASE DropShare
  BY <1>25 DEF DropShare, Advance, EndOfScope, Key
<1>26. CASE \E isBlock \in BOOLEAN : PassShare(isBlock)
  BY <1>26 DEF PassShare, Key, Published
<1>27. CASE SendShare
  BY <1>27 DEF SendShare, Advance, EndOfScope, Key
<1>28. CASE SendFails
  BY <1>28 DEF SendFails, Advance, EndOfScope
<1>29. CASE Close
  BY <1>29 DEF Close
<1>30. CASE Join
  BY <1>30 DEF Join
<1>31. CASE Terminated
  BY <1>31 DEF Terminated
<1>32. CASE UNCHANGED vars
  BY <1>32
<1>33. QED
  BY <1>1, <1>2, <1>3, <1>4, <1>5, <1>6, <1>7, <1>8, <1>9, <1>10, <1>11,
     <1>12, <1>13, <1>14, <1>15, <1>16, <1>17, <1>18, <1>19, <1>20, <1>21,
     <1>22, <1>23, <1>24, <1>25, <1>26, <1>27, <1>28, <1>29, <1>30, <1>31,
     <1>32 DEF Next, Net, NetHandler, Miner

\* A step keeps the local job as fresh as the cancel flag says.  The lock makes
\* it true at ClearCancel: job_current cannot move between the copy and the
\* store.
LEMMA FreshStep == IInv /\ [Next]_vars => FreshInv'
<1> SUFFICES ASSUME IInv, [Next]_vars PROVE FreshInv'
  OBVIOUS
<1> USE ConstantsAssumption
    DEF vars, shared, scan, ledger, history, IInv, TypeOK, SeqInv, FreshInv,
        InLoopBody, MinerHoldsJobMu, Published, Job, NetPcs, MinerPcs,
        NoVetting
<1>1. CASE \E w \in Works, clean \in BOOLEAN : NetNotify(w, clean)
  BY <1>1 DEF NetNotify, MinerHoldsJobMu
<1>2. CASE \E d \in Diffs : NetSetDifficulty(d)
  BY <1>2 DEF NetSetDifficulty
<1>3. CASE NetDedupClear
  BY <1>3 DEF NetDedupClear
<1>4. CASE NetBumpSeq
  BY <1>4 DEF NetBumpSeq
<1>5. CASE NetCancel
  BY <1>5 DEF NetCancel
<1>6. CASE NetSubscribe
  BY <1>6 DEF NetSubscribe
<1>7. CASE NetSubscribed
  BY <1>7 DEF NetSubscribed
<1>8. CASE NetEof
  BY <1>8 DEF NetEof
<1>9. CASE WaitSubscribed
  BY <1>9 DEF WaitSubscribed
<1>10. CASE WaitTimeout
  BY <1>10 DEF WaitTimeout
<1>11. CASE LoopTop
  BY <1>11 DEF LoopTop
<1>12. CASE PickUp
  BY <1>12 DEF PickUp, have_job
<1>13. CASE NoJobYet
  BY <1>13 DEF NoJobYet, have_job
<1>14. CASE ClearCancel
  BY <1>14 DEF ClearCancel
<1>15. CASE ClearDedup
  BY <1>15 DEF ClearDedup
<1>16. CASE Refresh
  BY <1>16 DEF Refresh
<1>17. CASE NothingToSetUp
  BY <1>17 DEF NothingToSetUp
<1>18. CASE SetupJob
  BY <1>18 DEF SetupJob, Upload
<1>19. CASE SetupFails
  BY <1>19 DEF SetupFails
<1>20. CASE Launch
  BY <1>20 DEF Launch
<1>21. CASE BatchFails
  BY <1>21 DEF BatchFails, EndOfScope
<1>22. CASE BatchEmpty
  BY <1>22 DEF BatchEmpty, Advance, EndOfScope
<1>23. CASE \E n \in 0..Span - 1 : BatchFound(n)
  BY <1>23 DEF BatchFound
<1>24. CASE CheckSeq
  BY <1>24 DEF CheckSeq, Advance, EndOfScope
<1>25. CASE DropShare
  BY <1>25 DEF DropShare, Advance, EndOfScope, Key
<1>26. CASE \E isBlock \in BOOLEAN : PassShare(isBlock)
  BY <1>26 DEF PassShare, Key, Published
<1>27. CASE SendShare
  BY <1>27 DEF SendShare, Advance, EndOfScope, Key
<1>28. CASE SendFails
  BY <1>28 DEF SendFails, Advance, EndOfScope
<1>29. CASE Close
  BY <1>29 DEF Close
<1>30. CASE Join
  BY <1>30 DEF Join
<1>31. CASE Terminated
  BY <1>31 DEF Terminated
<1>32. CASE UNCHANGED vars
  BY <1>32
<1>33. QED
  BY <1>1, <1>2, <1>3, <1>4, <1>5, <1>6, <1>7, <1>8, <1>9, <1>10, <1>11,
     <1>12, <1>13, <1>14, <1>15, <1>16, <1>17, <1>18, <1>19, <1>20, <1>21,
     <1>22, <1>23, <1>24, <1>25, <1>26, <1>27, <1>28, <1>29, <1>30, <1>31,
     <1>32 DEF Next, Net, NetHandler, Miner

\* A step keeps need_setup raised while the device is out of date.
LEMMA UploadStep == IInv /\ [Next]_vars => UploadInv'
<1> SUFFICES ASSUME IInv, [Next]_vars PROVE UploadInv'
  OBVIOUS
<1> USE ConstantsAssumption
    DEF vars, shared, scan, ledger, history, IInv, TypeOK, FreshInv,
        UploadInv, InLoopBody, Scanning, Upload, Unknown, MinerHoldsJobMu,
        Job, MinerPcs, NoVetting
<1>1. CASE \E w \in Works, clean \in BOOLEAN : NetNotify(w, clean)
  BY <1>1 DEF NetNotify, MinerHoldsJobMu
<1>2. CASE \E d \in Diffs : NetSetDifficulty(d)
  BY <1>2 DEF NetSetDifficulty
<1>3. CASE NetDedupClear
  BY <1>3 DEF NetDedupClear
<1>4. CASE NetBumpSeq
  BY <1>4 DEF NetBumpSeq
<1>5. CASE NetCancel
  BY <1>5 DEF NetCancel
<1>6. CASE NetSubscribe
  BY <1>6 DEF NetSubscribe
<1>7. CASE NetSubscribed
  BY <1>7 DEF NetSubscribed
<1>8. CASE NetEof
  BY <1>8 DEF NetEof
<1>9. CASE WaitSubscribed
  BY <1>9 DEF WaitSubscribed
<1>10. CASE WaitTimeout
  BY <1>10 DEF WaitTimeout
<1>11. CASE LoopTop
  BY <1>11 DEF LoopTop
<1>12. CASE PickUp
  BY <1>12 DEF PickUp, have_job
<1>13. CASE NoJobYet
  BY <1>13 DEF NoJobYet, have_job
<1>14. CASE ClearCancel
  BY <1>14 DEF ClearCancel
<1>15. CASE ClearDedup
  BY <1>15 DEF ClearDedup
<1>16. CASE Refresh
  BY <1>16 DEF Refresh, TargetMoved
<1>17. CASE NothingToSetUp
  BY <1>17 DEF NothingToSetUp
<1>18. CASE SetupJob
  BY <1>18 DEF SetupJob, Upload
<1>19. CASE SetupFails
  BY <1>19 DEF SetupFails
<1>20. CASE Launch
  BY <1>20 DEF Launch
<1>21. CASE BatchFails
  BY <1>21 DEF BatchFails, EndOfScope
<1>22. CASE BatchEmpty
  BY <1>22 DEF BatchEmpty, Advance, EndOfScope
<1>23. CASE \E n \in 0..Span - 1 : BatchFound(n)
  BY <1>23 DEF BatchFound
<1>24. CASE CheckSeq
  BY <1>24 DEF CheckSeq, Advance, EndOfScope
<1>25. CASE DropShare
  BY <1>25 DEF DropShare, Advance, EndOfScope, Key
<1>26. CASE \E isBlock \in BOOLEAN : PassShare(isBlock)
  BY <1>26 DEF PassShare, Key, Published
<1>27. CASE SendShare
  BY <1>27 DEF SendShare, Advance, EndOfScope, Key
<1>28. CASE SendFails
  BY <1>28 DEF SendFails, Advance, EndOfScope
<1>29. CASE Close
  BY <1>29 DEF Close
<1>30. CASE Join
  BY <1>30 DEF Join
<1>31. CASE Terminated
  BY <1>31 DEF Terminated
<1>32. CASE UNCHANGED vars
  BY <1>32
<1>33. QED
  BY <1>1, <1>2, <1>3, <1>4, <1>5, <1>6, <1>7, <1>8, <1>9, <1>10, <1>11,
     <1>12, <1>13, <1>14, <1>15, <1>16, <1>17, <1>18, <1>19, <1>20, <1>21,
     <1>22, <1>23, <1>24, <1>25, <1>26, <1>27, <1>28, <1>29, <1>30, <1>31,
     <1>32 DEF Next, Net, NetHandler, Miner

\* A step keeps the snapshot of extranonce1 complete.
LEMMA SubscribeStep == IInv /\ [Next]_vars => SubscribeInv'
<1> SUFFICES ASSUME IInv, [Next]_vars PROVE SubscribeInv'
  OBVIOUS
<1> USE ConstantsAssumption
    DEF vars, shared, scan, ledger, history, IInv, TypeOK, SubscribeInv,
        NetPcs, MinerPcs, En1Values
<1>1. CASE \E w \in Works, clean \in BOOLEAN : NetNotify(w, clean)
  BY <1>1 DEF NetNotify, MinerHoldsJobMu
<1>2. CASE \E d \in Diffs : NetSetDifficulty(d)
  BY <1>2 DEF NetSetDifficulty
<1>3. CASE NetDedupClear
  BY <1>3 DEF NetDedupClear
<1>4. CASE NetBumpSeq
  BY <1>4 DEF NetBumpSeq
<1>5. CASE NetCancel
  BY <1>5 DEF NetCancel
<1>6. CASE NetSubscribe
  BY <1>6 DEF NetSubscribe
<1>7. CASE NetSubscribed
  BY <1>7 DEF NetSubscribed
<1>8. CASE NetEof
  BY <1>8 DEF NetEof
<1>9. CASE WaitSubscribed
  BY <1>9 DEF WaitSubscribed
<1>10. CASE WaitTimeout
  BY <1>10 DEF WaitTimeout
<1>11. CASE LoopTop
  BY <1>11 DEF LoopTop
<1>12. CASE PickUp
  BY <1>12 DEF PickUp, have_job
<1>13. CASE NoJobYet
  BY <1>13 DEF NoJobYet, have_job
<1>14. CASE ClearCancel
  BY <1>14 DEF ClearCancel
<1>15. CASE ClearDedup
  BY <1>15 DEF ClearDedup
<1>16. CASE Refresh
  BY <1>16 DEF Refresh
<1>17. CASE NothingToSetUp
  BY <1>17 DEF NothingToSetUp
<1>18. CASE SetupJob
  BY <1>18 DEF SetupJob, Upload
<1>19. CASE SetupFails
  BY <1>19 DEF SetupFails
<1>20. CASE Launch
  BY <1>20 DEF Launch
<1>21. CASE BatchFails
  BY <1>21 DEF BatchFails, EndOfScope
<1>22. CASE BatchEmpty
  BY <1>22 DEF BatchEmpty, Advance, EndOfScope
<1>23. CASE \E n \in 0..Span - 1 : BatchFound(n)
  BY <1>23 DEF BatchFound
<1>24. CASE CheckSeq
  BY <1>24 DEF CheckSeq, Advance, EndOfScope
<1>25. CASE DropShare
  BY <1>25 DEF DropShare, Advance, EndOfScope, Key
<1>26. CASE \E isBlock \in BOOLEAN : PassShare(isBlock)
  BY <1>26 DEF PassShare, Key, Published
<1>27. CASE SendShare
  BY <1>27 DEF SendShare, Advance, EndOfScope, Key
<1>28. CASE SendFails
  BY <1>28 DEF SendFails, Advance, EndOfScope
<1>29. CASE Close
  BY <1>29 DEF Close
<1>30. CASE Join
  BY <1>30 DEF Join
<1>31. CASE Terminated
  BY <1>31 DEF Terminated
<1>32. CASE UNCHANGED vars
  BY <1>32
<1>33. QED
  BY <1>1, <1>2, <1>3, <1>4, <1>5, <1>6, <1>7, <1>8, <1>9, <1>10, <1>11,
     <1>12, <1>13, <1>14, <1>15, <1>16, <1>17, <1>18, <1>19, <1>20, <1>21,
     <1>22, <1>23, <1>24, <1>25, <1>26, <1>27, <1>28, <1>29, <1>30, <1>31,
     <1>32 DEF Next, Net, NetHandler, Miner

\* A step keeps the keys of a plain job that is being mined.
LEMMA DedupStep == IInv /\ [Next]_vars => DedupInv'
<1> SUFFICES ASSUME IInv, [Next]_vars PROVE DedupInv'
  OBVIOUS
<1> USE ConstantsAssumption
    DEF vars, shared, scan, ledger, history, IInv, TypeOK, SeqInv, RoomInv,
        FreshInv, DedupInv, InLoopBody, Judging, MinerHoldsJobMu, Job, Keys,
        Key, NetPcs, MinerPcs, NoNonce
<1>1. CASE \E w \in Works, clean \in BOOLEAN : NetNotify(w, clean)
  <2>1. PICK w \in Works, clean \in BOOLEAN : NetNotify(w, clean)
    BY <1>1
  <2>2. /\ job_current'.gen = job_current.gen + 1
        /\ ~MinerHoldsJobMu /\ ~MinerHoldsJobMu'
        /\ UNCHANGED <<dedup_clear_req, mpc, job, local_have, cur_en2, r_nonce,
                       submitted_keys, sent, resent, capped>>
    BY <2>1 DEF NetNotify
  <2>3. job'.gen # job_current'.gen
    BY <2>2
  <2>4. \A s \in sent' : s[1] # job_current'.gen
    BY <2>2
  <2>5. \A s \in sent' : s[1] <= job'.gen
    BY <2>2
  <2>6. ~capped' /\ local_have' /\ ~job'.clean
          => \A s \in sent' : s[1] = job'.gen
               => [work |-> job'.work, en2 |-> s[2], nonce |-> s[3]]
                    \in submitted_keys'
    BY <2>2
  <2>7. (mpc' = "send" => Key' \notin submitted_keys') /\ (FALSE \in resent' => capped')
    BY <2>2
  <2>8. QED
    BY <2>3, <2>4, <2>5, <2>6, <2>7 DEF DedupInv
<1>2. CASE \E d \in Diffs : NetSetDifficulty(d)
  <2>1. UNCHANGED <<job_current, dedup_clear_req, mpc, job, local_have,
                   cur_en2, r_nonce, submitted_keys, sent, resent, capped>>
    BY <1>2 DEF NetSetDifficulty
  <2>2. QED
    BY <2>1
<1>3. CASE NetDedupClear
  BY <1>3 DEF NetDedupClear
<1>4. CASE NetBumpSeq
  BY <1>4 DEF NetBumpSeq
<1>5. CASE NetCancel
  BY <1>5 DEF NetCancel
<1>6. CASE NetSubscribe
  BY <1>6 DEF NetSubscribe
<1>7. CASE NetSubscribed
  BY <1>7 DEF NetSubscribed
<1>8. CASE NetEof
  BY <1>8 DEF NetEof
<1>9. CASE WaitSubscribed
  BY <1>9 DEF WaitSubscribed
<1>10. CASE WaitTimeout
  BY <1>10 DEF WaitTimeout
<1>11. CASE LoopTop
  BY <1>11 DEF LoopTop
<1>12. CASE PickUp
  <2>1. /\ job' = job_current /\ job_current.gen > 0
        /\ mpc' = "uncancel" /\ local_have'
        /\ UNCHANGED <<job_current, dedup_clear_req, submitted_keys, sent,
                       resent, capped>>
    BY <1>12 DEF PickUp, have_job
  <2>2. CASE job.gen = job_current.gen
    BY <2>1, <2>2
  <2>3. CASE job.gen # job_current.gen
    <3>1. \A s \in sent : s[1] < job_current.gen
      BY <2>3
    <3>2. \A s \in sent' : s[1] # job'.gen /\ s[1] <= job'.gen
      BY <2>1, <3>1
    <3>3. FALSE \in resent' => capped'
      BY <2>1
    <3>4. QED
      BY <2>1, <3>2, <3>3
  <2>4. QED
    BY <2>2, <2>3
<1>13. CASE NoJobYet
  BY <1>13 DEF NoJobYet, have_job
<1>14. CASE ClearCancel
  BY <1>14 DEF ClearCancel
<1>15. CASE ClearDedup
  BY <1>15 DEF ClearDedup
<1>16. CASE Refresh
  BY <1>16 DEF Refresh
<1>17. CASE NothingToSetUp
  BY <1>17 DEF NothingToSetUp
<1>18. CASE SetupJob
  BY <1>18 DEF SetupJob, Upload
<1>19. CASE SetupFails
  BY <1>19 DEF SetupFails
<1>20. CASE Launch
  BY <1>20 DEF Launch
<1>21. CASE BatchFails
  BY <1>21 DEF BatchFails, EndOfScope
<1>22. CASE BatchEmpty
  BY <1>22 DEF BatchEmpty, Advance, EndOfScope
<1>23. CASE \E n \in 0..Span - 1 : BatchFound(n)
  <2>1. /\ mpc = "batch" /\ mpc' = "checkseq"
        /\ UNCHANGED <<job_current, dedup_clear_req, job, local_have,
                       submitted_keys, sent, resent, capped>>
    BY <1>23 DEF BatchFound
  <2>2. QED
    BY <2>1
<1>24. CASE CheckSeq
  BY <1>24 DEF CheckSeq, Advance, EndOfScope
<1>25. CASE DropShare
  BY <1>25 DEF DropShare, Advance, EndOfScope, Key
<1>26. CASE \E isBlock \in BOOLEAN : PassShare(isBlock)
  <2>1. /\ mpc = "checkcancel" /\ mpc' = "send"
        /\ Key \notin submitted_keys
        /\ UNCHANGED <<job_current, dedup_clear_req, job, local_have, cur_en2,
                       r_nonce, submitted_keys, sent, resent, capped>>
    BY <1>26 DEF PassShare
  <2>2. QED
    BY <2>1
<1>27. CASE SendShare
  <2> DEFINE share == <<job.gen, cur_en2, r_nonce>>
  <2>1. /\ mpc = "send" /\ mpc' = "top" /\ local_have
        /\ submitted_keys' = submitted_keys \cup {Key}
        /\ sent' = sent \cup {share}
        /\ resent' = IF share \in sent THEN resent \cup {job.clean} ELSE resent
        /\ UNCHANGED <<job_current, dedup_clear_req, job, local_have, capped>>
    BY <1>27 DEF SendShare, Advance, EndOfScope
  <2>2. share[1] = job.gen /\ share[2] = cur_en2 /\ share[3] = r_nonce
    OBVIOUS
  <2>3. ~capped /\ ~job.clean => share \notin sent
    BY <2>1, <2>2
  <2>4. FALSE \in resent' => capped'
    BY <2>1, <2>3
  <2>5. \A s \in sent' : s[1] <= job'.gen
    BY <2>1, <2>2
  <2>6. dedup_clear_req' /\ ~job_current'.clean
          => job.gen # job_current.gen /\ \A s \in sent' : s[1] # job_current'.gen
    BY <2>1, <2>2
  <2>7. ~capped' /\ local_have' /\ ~job'.clean
          => \A s \in sent' : s[1] = job'.gen
               => [work |-> job'.work, en2 |-> s[2], nonce |-> s[3]]
                    \in submitted_keys'
    BY <2>1, <2>2
  <2>8. QED
    BY <2>1, <2>4, <2>5, <2>6, <2>7
<1>28. CASE SendFails
  BY <1>28 DEF SendFails, Advance, EndOfScope
<1>29. CASE Close
  BY <1>29 DEF Close
<1>30. CASE Join
  BY <1>30 DEF Join
<1>31. CASE Terminated
  BY <1>31 DEF Terminated
<1>32. CASE UNCHANGED vars
  BY <1>32
<1>33. QED
  BY <1>1, <1>2, <1>3, <1>4, <1>5, <1>6, <1>7, <1>8, <1>9, <1>10, <1>11,
     <1>12, <1>13, <1>14, <1>15, <1>16, <1>17, <1>18, <1>19, <1>20, <1>21,
     <1>22, <1>23, <1>24, <1>25, <1>26, <1>27, <1>28, <1>29, <1>30, <1>31,
     <1>32 DEF Next, Net, NetHandler, Miner

\* IInv holds in every reachable state of run_stratum.
THEOREM Invariance == SafetySpec => []IInv
<1>1. IInv /\ [Next]_vars => IInv'
  BY TypeStep, SeqStep, RoomStep, FreshStep, UploadStep, SubscribeStep,
     DedupStep DEF IInv
<1>2. QED
  BY InitIInv, <1>1, PTL DEF SafetySpec

\* The types hold, next_nonce and cur_en2 within their spaces included.
THEOREM TypeCorrectness == SafetySpec => []TypeOK
<1>1. IInv => TypeOK
  BY DEF IInv
<1>2. QED
  BY Invariance, <1>1, PTL

\* A share that passes the checks at whirlpool.cpp:277 is never behind a
\* notify whose handler has finished.
THEOREM Staleness == SafetySpec => []SubmitsPublishedJob
<1>1. IInv => SubmitsPublishedJob
  BY DEF IInv, FreshInv, SubmitsPublishedJob
<1>2. QED
  BY Invariance, <1>1, PTL

\* Whatever raised need_setup, and however often it is put off, every batch is
\* scanned and judged under the constants of the local job, extranonce2 and
\* difficulty, or under those of a set-up some call of which failed.
THEOREM Uploads == SafetySpec => []ScansWhatWasUploaded
<1>1. IInv => ScansWhatWasUploaded
  BY DEF IInv, FreshInv, UploadInv, ScansWhatWasUploaded, InLoopBody, Scanning
<1>2. QED
  BY Invariance, <1>1, PTL

\* Every launch is a non-empty range inside the nonce space.
THEOREM Ranges == SafetySpec => []BatchInRange
<1>1. IInv => BatchInRange
  BY DEF IInv, UploadInv, BatchInRange
<1>2. QED
  BY Invariance, <1>1, PTL

\* Without a timeout of the wait, shares are built on the pool's extranonce1.
THEOREM Extranonce1 == SafetySpec => []SharesUseExtranonce1
<1>1. IInv => SharesUseExtranonce1
  BY DEF IInv, FreshInv, UploadInv, SubscribeInv, SharesUseExtranonce1,
         InLoopBody, Scanning, Upload
<1>2. QED
  BY Invariance, <1>1, PTL

\* No share of a plain job is sent twice while the key set is under its cap.
THEOREM PlainDedup == SafetySpec => []PlainJobsNotResent
<1>1. IInv => PlainJobsNotResent
  BY DEF IInv, DedupInv, PlainJobsNotResent
<1>2. QED
  BY Invariance, <1>1, PTL

\* Every step of the two threads is an announcement, an adoption of the latest
\* job, a stop, or invisible to the hand-off.
LEMMA HandoffStep == IInv /\ [Next]_vars => [Handoff!Next]_(Handoff!vars)
<1> SUFFICES ASSUME IInv, [Next]_vars
             PROVE  Handoff!Next \/ UNCHANGED Handoff!vars
  OBVIOUS
<1> USE ConstantsAssumption
    DEF vars, shared, scan, ledger, history, Handoff!vars
<1>1. CASE \E w \in Works, clean \in BOOLEAN : NetNotify(w, clean)
  BY <1>1 DEF NetNotify, Handoff!Next, Handoff!Announce
<1>2. CASE \E d \in Diffs : NetSetDifficulty(d)
  BY <1>2 DEF NetSetDifficulty
<1>3. CASE NetDedupClear
  BY <1>3 DEF NetDedupClear
<1>4. CASE NetBumpSeq
  BY <1>4 DEF NetBumpSeq
<1>5. CASE NetCancel
  BY <1>5 DEF NetCancel
<1>6. CASE NetSubscribe
  BY <1>6 DEF NetSubscribe
<1>7. CASE NetSubscribed
  BY <1>7 DEF NetSubscribed
<1>8. CASE NetEof
  BY <1>8 DEF NetEof
<1>9. CASE WaitSubscribed
  BY <1>9 DEF WaitSubscribed
<1>10. CASE WaitTimeout
  BY <1>10 DEF WaitTimeout
<1>11. CASE LoopTop
  BY <1>11 DEF LoopTop, Handoff!Next, Handoff!Stop
<1>12. CASE PickUp
  <2>1. ~(mpc \in {"close", "join", "done"}) /\ ~(mpc' \in {"close", "join", "done"})
    BY <1>12 DEF PickUp
  <2>2. job' = job_current /\ job_current' = job_current
    BY <1>12 DEF PickUp
  <2>3. CASE job.gen = job_current.gen
    BY <2>1, <2>2, <2>3
  <2>4. CASE job.gen # job_current.gen
    BY <2>1, <2>2, <2>4 DEF Handoff!Next, Handoff!Adopt
  <2>5. QED
    BY <2>3, <2>4
<1>13. CASE NoJobYet
  BY <1>13 DEF NoJobYet
<1>14. CASE ClearCancel
  BY <1>14 DEF ClearCancel
<1>15. CASE ClearDedup
  BY <1>15 DEF ClearDedup
<1>16. CASE Refresh
  BY <1>16 DEF Refresh
<1>17. CASE NothingToSetUp
  BY <1>17 DEF NothingToSetUp
<1>18. CASE SetupJob
  BY <1>18 DEF SetupJob, Handoff!Next, Handoff!Stop
<1>19. CASE SetupFails
  BY <1>19 DEF SetupFails
<1>20. CASE Launch
  BY <1>20 DEF Launch
<1>21. CASE BatchFails
  BY <1>21 DEF BatchFails
<1>22. CASE BatchEmpty
  BY <1>22 DEF BatchEmpty, Advance
<1>23. CASE \E n \in 0..Span - 1 : BatchFound(n)
  BY <1>23 DEF BatchFound
<1>24. CASE CheckSeq
  BY <1>24 DEF CheckSeq, Advance
<1>25. CASE DropShare
  BY <1>25 DEF DropShare, Advance
<1>26. CASE \E isBlock \in BOOLEAN : PassShare(isBlock)
  BY <1>26 DEF PassShare
<1>27. CASE SendShare
  BY <1>27 DEF SendShare, Advance
<1>28. CASE SendFails
  BY <1>28 DEF SendFails, Advance
<1>29. CASE Close
  BY <1>29 DEF Close
<1>30. CASE Join
  BY <1>30 DEF Join
<1>31. CASE Terminated
  BY <1>31 DEF Terminated
<1>32. CASE UNCHANGED vars
  BY <1>32
<1>33. QED
  BY <1>1, <1>2, <1>3, <1>4, <1>5, <1>6, <1>7, <1>8, <1>9, <1>10, <1>11,
     <1>12, <1>13, <1>14, <1>15, <1>16, <1>17, <1>18, <1>19, <1>20, <1>21,
     <1>22, <1>23, <1>24, <1>25, <1>26, <1>27, <1>28, <1>29, <1>30, <1>31,
     <1>32 DEF Next, Net, NetHandler, Miner

\* The two threads implement the safety part of the abstract hand-off: the
\* miner only ever moves to the job that is the latest one at that moment.
THEOREM HandoffSafety == SafetySpec => Handoff!SafetySpec
<1>1. Init => Handoff!Init
  BY DEF Init, MinerInit, EmptyJob, Handoff!Init
<1>2. QED
  BY <1>1, HandoffStep, Invariance, PTL DEF SafetySpec, Handoff!SafetySpec

=============================================================================
