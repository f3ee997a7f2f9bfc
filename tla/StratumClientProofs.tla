------------------------- MODULE StratumClientProofs -------------------------
(***************************************************************************)
(* Proofs about StratumClient, for every number of formats and of ids:     *)
(* a submission is judged at most once, no verdict is lost, the counters   *)
(* add up, and the log names no wrong format.  Then bytes that arrive in   *)
(* portions, twice.  The lines below all that (StratumLines): for every    *)
(* set of texts and every way to cut the bytes, each side gets the lines   *)
(* the other has sent.  And the hash object of the CapStash engine         *)
(* (HashStream), for every message however it is split.                    *)
(*                                                                         *)
(* Every turn of the loop of short leaves a beginning of the message       *)
(* absorbed and the rest of the data to do (Doing, LoopStep), and there    *)
(* are enough turns (TurnsSuffice); Long takes the blocks short would      *)
(* have taken (LongBlocks).  So a context has always absorbed a beginning  *)
(* of the present message (AbsorbedTo), and closing adds the one or two    *)
(* blocks of padding that the definition of the padded message asks for    *)
(* (CloseIs).                                                              *)
(***************************************************************************)
EXTENDS StratumClient, StratumLines, HashStream, DataLemmas, FiniteSetTheorems, TLAPS

\* A client not yet connected satisfies the invariant.
LEMMA InitIInv == Init => IInv
<1> SUFFICES ASSUME Init PROVE IInv
  OBVIOUS
<1>1. Flags
  BY Zenon DEF Init, Flags, SubmitPcs, ReaderPcs, Verdicts
<1>1a. Numbers
  BY SubmitAssumption DEF Init, Numbers, Ids, Formats, NoFormat
<1>1b. ScopeInv
  BY DEF Init, ScopeInv
<1>2. IdInv /\ FormatInv
  BY DEF Init, IdInv, FormatInv, OnWire, Ids, NoFormat
<1>3. JudgedAtMostOnce /\ NoVerdictLost /\ NoWrongFormat
  BY DEF Init, JudgedAtMostOnce, NoVerdictLost, NoWrongFormat
<1>4. pending_submits_ \ Unsent = {}
  BY DEF Init, Unsent
<1>5. LedgerBalances
  BY <1>4, FS_EmptySet DEF Init, LedgerBalances, Uncounted, InVerdict
<1> QED
  BY <1>1, <1>1a, <1>1b, <1>2, <1>3, <1>5 DEF IInv, TypeOK

-----------------------------------------------------------------------------

\* What Judge does to everything but the scaling flag.
LEMMA JudgeFacts ==
  Judge => /\ rpc = "count" /\ rpc' = "recv"
           /\ CountVerdict
           /\ verdicts' = [verdicts EXCEPT ![rid] = @ + 1]
           /\ reported' = IF rverdict = "true" THEN reported \cup {<<rid, rfmt>>}
                                               ELSE reported
           /\ UNCHANGED <<sock_, next_id_, pending_submits_>>
           /\ UNCHANGED <<spc, id, fmt, sent_any, submitted, shares_found>>
           /\ UNCHANGED <<rid, rfmt, missed, submit_format_by_id, wire>>
  BY Zenon DEF Judge, client, mining

\* Every step keeps the flags, the places and the verdict in hand in their
\* types.
LEMMA FlagsStep == IInv /\ [Next]_vars => Flags'
<1> SUFFICES ASSUME IInv, [Next]_vars PROVE Flags'
  OBVIOUS
<1> USE SubmitAssumption
<1>0. Flags /\ Numbers /\ ScopeInv /\ IdInv /\ FormatInv /\ JudgedAtMostOnce /\ NoVerdictLost
        /\ LedgerBalances /\ NoWrongFormat
  BY DEF IInv, TypeOK
<1>1. CASE Connect
  BY <1>0, <1>1, Zenon DEF Flags, SubmitPcs, ReaderPcs, Verdicts, Connect, vars,
     client, mining, reader
<1>2. CASE Login
  BY <1>0, <1>2, Zenon DEF Flags, SubmitPcs, ReaderPcs, Verdicts, Login, vars,
     client, mining, reader
<1>3. CASE Return
  BY <1>0, <1>3, Zenon DEF Flags, SubmitPcs, ReaderPcs, Verdicts, Return, vars,
     client, mining, reader
<1>4. CASE FoundShare
  BY <1>0, <1>4, Zenon DEF Flags, SubmitPcs, ReaderPcs, Verdicts, FoundShare,
     vars, client, mining, reader
<1>5. CASE Register
  BY <1>0, <1>5, Zenon DEF Flags, SubmitPcs, ReaderPcs, Verdicts, Register, vars,
     client, mining, reader
<1>6. CASE SendOk
  BY <1>0, <1>6, Zenon DEF Flags, SubmitPcs, ReaderPcs, Verdicts, SendOk, vars,
     client, mining, reader
<1>7. CASE SendFails
  BY <1>0, <1>7, Zenon DEF Flags, SubmitPcs, ReaderPcs, Verdicts, SendFails, vars,
     client, mining, reader
<1>8. CASE Unregister
  BY <1>0, <1>8, Zenon DEF Flags, SubmitPcs, ReaderPcs, Verdicts, Unregister,
     vars, client, mining, reader, NextFormat
<1>9. CASE Record
  BY <1>0, <1>9, Zenon DEF Flags, SubmitPcs, ReaderPcs, Verdicts, Record, vars,
     client, mining, reader, NextFormat
<1>10. CASE Tally
  BY <1>0, <1>10, Zenon DEF Flags, SubmitPcs, ReaderPcs, Verdicts, Tally, vars,
     client, mining, reader
<1>11. ASSUME NEW i \in Ids, NEW v \in Verdicts, OnWire(i), MatchAnswer(i, v)
      PROVE  Flags'
  BY <1>0, <1>11, Zenon DEF Flags, SubmitPcs, ReaderPcs, Verdicts, MatchAnswer,
     vars, client, mining, reader
<1>12. ASSUME NEW i \in Ids, OnWire(i), IgnoreAnswer(i)
      PROVE  Flags'
  BY <1>0, <1>12, Zenon DEF Flags, SubmitPcs, ReaderPcs, Verdicts, IgnoreAnswer,
     vars, client, mining, reader
<1>13. ASSUME IgnoreAnswer(AuthorizeId) PROVE Flags'
  BY <1>0, <1>13, Zenon DEF Flags, SubmitPcs, ReaderPcs, Verdicts, IgnoreAnswer,
     vars, client, mining, reader, AuthorizeId
<1>14. CASE LookUpFormat
  BY <1>0, <1>14, Zenon DEF Flags, SubmitPcs, ReaderPcs, Verdicts, LookUpFormat,
     vars, client, mining, reader
<1>15. CASE Judge
  BY <1>0, <1>15, Zenon DEF Flags, SubmitPcs, ReaderPcs, Verdicts, Judge, vars,
     client, mining, reader, CountVerdict
<1>16. CASE Eof
  BY <1>0, <1>16, Zenon DEF Flags, SubmitPcs, ReaderPcs, Verdicts, Eof, vars,
     client, mining, reader
<1>17. CASE UNCHANGED vars
  BY <1>0, <1>17, Zenon DEF Flags, SubmitPcs, ReaderPcs, Verdicts, vars,
     client, mining, reader
<1> QED
  BY <1>1, <1>2, <1>3, <1>4, <1>5, <1>6, <1>7, <1>8, <1>9, <1>10, <1>11,
     <1>12, <1>13, <1>14, <1>15, <1>16, <1>17
     DEF Next, Submitter, Reader, Terminated

\* Every step keeps the ids and the counters in their ranges.
LEMMA NumbersStep == IInv /\ [Next]_vars => Numbers'
<1> SUFFICES ASSUME IInv, [Next]_vars PROVE Numbers'
  OBVIOUS
<1> USE SubmitAssumption
<1>0. Flags /\ Numbers /\ ScopeInv /\ IdInv /\ FormatInv /\ JudgedAtMostOnce /\ NoVerdictLost
        /\ LedgerBalances /\ NoWrongFormat
  BY DEF IInv, TypeOK
<1>1. CASE Connect
  BY <1>0, <1>1 DEF Flags, Numbers, ScopeInv, OnWire, Ids, Formats,
     NoFormat, Connect, vars, client, mining, reader
<1>2. CASE Login
  BY <1>0, <1>2 DEF Flags, Numbers, ScopeInv, OnWire, Ids, Formats,
     NoFormat, Login, vars, client, mining, reader
<1>3. CASE Return
  BY <1>0, <1>3 DEF Flags, Numbers, ScopeInv, OnWire, Ids, Formats,
     NoFormat, Return, vars, client, mining, reader
<1>4. CASE FoundShare
  BY <1>0, <1>4 DEF Flags, Numbers, ScopeInv, OnWire, Ids, Formats,
     NoFormat, FoundShare, vars, client, mining, reader
<1>5. CASE Register
  BY <1>0, <1>5 DEF Flags, Numbers, ScopeInv, OnWire, Ids, Formats,
     NoFormat, Register, vars, client, mining, reader
<1>6. CASE SendOk
  BY <1>0, <1>6 DEF Flags, Numbers, ScopeInv, OnWire, Ids, Formats,
     NoFormat, SendOk, vars, client, mining, reader
<1>7. CASE SendFails
  BY <1>0, <1>7 DEF Flags, Numbers, ScopeInv, OnWire, Ids, Formats,
     NoFormat, SendFails, vars, client, mining, reader
<1>8. CASE Unregister
  <2>1. fmt' \in Formats \cup {NoFormat}
    BY <1>0, <1>8 DEF Unregister, NextFormat, ScopeInv, Formats, NoFormat
  <2>2. pending_submits_' \subseteq 101..next_id_'
    BY <1>0, <1>8 DEF Unregister, Numbers
  <2> QED BY <1>0, <1>8, <2>1, <2>2 DEF Unregister, Numbers, reader
<1>9. CASE Record
  <2>1. fmt' \in Formats \cup {NoFormat}
    BY <1>0, <1>9 DEF Record, NextFormat, ScopeInv, Formats, NoFormat
  <2>2. submit_format_by_id' \in [Ids -> Formats \cup {NoFormat}]
    BY <1>0, <1>9 DEF Record, Numbers, ScopeInv
  <2> QED
    BY <1>0, <1>9, <2>1, <2>2 DEF Record, Numbers, client, reader
<1>10. CASE Tally
  BY <1>0, <1>10 DEF Flags, Numbers, ScopeInv, OnWire, Ids, Formats,
     NoFormat, Tally, vars, client, mining, reader
<1>11. ASSUME NEW i \in Ids, NEW v \in Verdicts, OnWire(i), MatchAnswer(i, v)
      PROVE  Numbers'
  BY <1>0, <1>11 DEF Flags, Numbers, ScopeInv, OnWire, Ids, Formats,
     NoFormat, MatchAnswer, vars, client, mining, reader
<1>12. ASSUME NEW i \in Ids, OnWire(i), IgnoreAnswer(i)
      PROVE  Numbers'
  BY <1>0, <1>12 DEF Flags, Numbers, ScopeInv, OnWire, Ids, Formats,
     NoFormat, IgnoreAnswer, vars, client, mining, reader
<1>13. ASSUME IgnoreAnswer(AuthorizeId) PROVE Numbers'
  BY <1>0, <1>13 DEF Flags, Numbers, ScopeInv, OnWire, Ids, Formats,
     NoFormat, IgnoreAnswer, vars, client, mining, reader, AuthorizeId
<1>14. CASE LookUpFormat
  BY <1>0, <1>14 DEF Flags, Numbers, ScopeInv, OnWire, Ids, Formats,
     NoFormat, LookUpFormat, vars, client, mining, reader
<1>15. CASE Judge
  <2>1. rid \in Ids /\ verdicts[rid] \in Nat
    BY <1>0, <1>15, JudgeFacts DEF Numbers, ScopeInv, Ids
  <2>2. accepted' \in Nat /\ rejected' \in Nat
    BY <1>0, <1>15, JudgeFacts DEF Numbers, CountVerdict
  <2>3. verdicts' \in [Ids -> Nat]
    BY <1>0, <1>15, <2>1, JudgeFacts DEF Numbers
  <2>4. reported' \subseteq Ids \X (Formats \cup {NoFormat})
    BY <1>0, <1>15, <2>1, JudgeFacts DEF Numbers
  <2> QED
    BY <1>0, <1>15, <2>2, <2>3, <2>4, JudgeFacts DEF Numbers
<1>16. CASE Eof
  BY <1>0, <1>16 DEF Flags, Numbers, ScopeInv, OnWire, Ids, Formats,
     NoFormat, Eof, vars, client, mining, reader
<1>17. CASE UNCHANGED vars
  BY <1>0, <1>17 DEF Flags, Numbers, ScopeInv, OnWire, Ids, Formats,
     NoFormat, vars, vars, client, mining, reader
<1> QED
  BY <1>1, <1>2, <1>3, <1>4, <1>5, <1>6, <1>7, <1>8, <1>9, <1>10, <1>11,
     <1>12, <1>13, <1>14, <1>15, <1>16, <1>17
     DEF Next, Submitter, Reader, Terminated

\* Every step keeps the id a thread works on one that was handed out.
LEMMA ScopeStep == IInv /\ [Next]_vars => ScopeInv'
<1> SUFFICES ASSUME IInv, [Next]_vars PROVE ScopeInv'
  OBVIOUS
<1> USE SubmitAssumption
<1>0. Flags /\ Numbers /\ ScopeInv /\ IdInv /\ FormatInv /\ JudgedAtMostOnce /\ NoVerdictLost
        /\ LedgerBalances /\ NoWrongFormat
  BY DEF IInv, TypeOK
<1>1. CASE Connect
  BY <1>0, <1>1 DEF Flags, Numbers, ScopeInv, OnWire, Ids, Formats,
     NoFormat, Connect, vars, client, mining, reader
<1>2. CASE Login
  BY <1>0, <1>2 DEF Flags, Numbers, ScopeInv, OnWire, Ids, Formats,
     NoFormat, Login, vars, client, mining, reader
<1>3. CASE Return
  BY <1>0, <1>3 DEF Flags, Numbers, ScopeInv, OnWire, Ids, Formats,
     NoFormat, Return, vars, client, mining, reader
<1>4. CASE FoundShare
  BY <1>0, <1>4 DEF Flags, Numbers, ScopeInv, OnWire, Ids, Formats,
     NoFormat, FoundShare, vars, client, mining, reader
<1>5. CASE Register
  BY <1>0, <1>5 DEF Flags, Numbers, ScopeInv, OnWire, Ids, Formats,
     NoFormat, Register, vars, client, mining, reader
<1>6. CASE SendOk
  BY <1>0, <1>6 DEF Flags, Numbers, ScopeInv, OnWire, Ids, Formats,
     NoFormat, SendOk, vars, client, mining, reader
<1>7. CASE SendFails
  BY <1>0, <1>7 DEF Flags, Numbers, ScopeInv, OnWire, Ids, Formats,
     NoFormat, SendFails, vars, client, mining, reader
<1>8. CASE Unregister
  BY <1>0, <1>8 DEF Flags, Numbers, ScopeInv, OnWire, Ids, Formats,
     NoFormat, Unregister, vars, client, mining, reader, NextFormat
<1>9. CASE Record
  BY <1>0, <1>9 DEF Flags, Numbers, ScopeInv, OnWire, Ids, Formats,
     NoFormat, Record, vars, client, mining, reader, NextFormat
<1>10. CASE Tally
  BY <1>0, <1>10 DEF Flags, Numbers, ScopeInv, OnWire, Ids, Formats,
     NoFormat, Tally, vars, client, mining, reader
<1>11. ASSUME NEW i \in Ids, NEW v \in Verdicts, OnWire(i), MatchAnswer(i, v)
      PROVE  ScopeInv'
  BY <1>0, <1>11 DEF Flags, Numbers, ScopeInv, OnWire, Ids, Formats,
     NoFormat, MatchAnswer, vars, client, mining, reader
<1>12. ASSUME NEW i \in Ids, OnWire(i), IgnoreAnswer(i)
      PROVE  ScopeInv'
  BY <1>0, <1>12 DEF Flags, Numbers, ScopeInv, OnWire, Ids, Formats,
     NoFormat, IgnoreAnswer, vars, client, mining, reader
<1>13. ASSUME IgnoreAnswer(AuthorizeId) PROVE ScopeInv'
  BY <1>0, <1>13 DEF Flags, Numbers, ScopeInv, OnWire, Ids, Formats,
     NoFormat, IgnoreAnswer, vars, client, mining, reader, AuthorizeId
<1>14. CASE LookUpFormat
  BY <1>0, <1>14 DEF Flags, Numbers, ScopeInv, OnWire, Ids, Formats,
     NoFormat, LookUpFormat, vars, client, mining, reader
<1>15. CASE Judge
  <2>1. rid \in Ids /\ verdicts[rid] \in Nat
    BY <1>0, <1>15, JudgeFacts DEF Numbers, ScopeInv, Ids
  <2> QED
    BY <1>0, <1>15, <2>1, JudgeFacts DEF Numbers, ScopeInv,
     OnWire, Ids, Formats, NoFormat, CountVerdict
<1>16. CASE Eof
  BY <1>0, <1>16 DEF Flags, Numbers, ScopeInv, OnWire, Ids, Formats,
     NoFormat, Eof, vars, client, mining, reader
<1>17. CASE UNCHANGED vars
  BY <1>0, <1>17 DEF Flags, Numbers, ScopeInv, OnWire, Ids, Formats,
     NoFormat, vars, vars, client, mining, reader
<1> QED
  BY <1>1, <1>2, <1>3, <1>4, <1>5, <1>6, <1>7, <1>8, <1>9, <1>10, <1>11,
     <1>12, <1>13, <1>14, <1>15, <1>16, <1>17
     DEF Next, Submitter, Reader, Terminated

\* Every step keeps the life of every id: pending, judged once or unsent.
LEMMA IdStep == IInv /\ [Next]_vars => IdInv'
<1> SUFFICES ASSUME IInv, [Next]_vars PROVE IdInv'
  OBVIOUS
<1> USE SubmitAssumption
<1>0. Flags /\ Numbers /\ ScopeInv /\ IdInv /\ FormatInv /\ JudgedAtMostOnce /\ NoVerdictLost
        /\ LedgerBalances /\ NoWrongFormat
  BY DEF IInv, TypeOK
<1>1. CASE Connect
  BY <1>0, <1>1 DEF Flags, Numbers, ScopeInv, IdInv, OnWire, Ids, Formats,
     NoFormat, Connect, vars, client, mining, reader
<1>2. CASE Login
  BY <1>0, <1>2 DEF Flags, Numbers, ScopeInv, IdInv, OnWire, Ids, Formats,
     NoFormat, Login, vars, client, mining, reader
<1>3. CASE Return
  BY <1>0, <1>3 DEF Flags, Numbers, ScopeInv, IdInv, OnWire, Ids, Formats,
     NoFormat, Return, vars, client, mining, reader
<1>4. CASE FoundShare
  BY <1>0, <1>4 DEF Flags, Numbers, ScopeInv, IdInv, OnWire, Ids, Formats,
     NoFormat, FoundShare, vars, client, mining, reader
<1>5. CASE Register
  BY <1>0, <1>5 DEF Flags, Numbers, ScopeInv, IdInv, OnWire, Ids, Formats,
     NoFormat, Register, vars, client, mining, reader
<1>6. CASE SendOk
  BY <1>0, <1>6 DEF Flags, Numbers, ScopeInv, IdInv, OnWire, Ids, Formats,
     NoFormat, SendOk, vars, client, mining, reader
<1>7. CASE SendFails
  BY <1>0, <1>7 DEF Flags, Numbers, ScopeInv, IdInv, OnWire, Ids, Formats,
     NoFormat, SendFails, vars, client, mining, reader
<1>8. CASE Unregister
  BY <1>0, <1>8 DEF Flags, Numbers, ScopeInv, IdInv, OnWire, Ids, Formats,
     NoFormat, Unregister, vars, client, mining, reader, NextFormat
<1>9. CASE Record
  BY <1>0, <1>9 DEF Flags, Numbers, ScopeInv, IdInv, OnWire, Ids, Formats,
     NoFormat, Record, vars, client, mining, reader, NextFormat
<1>10. CASE Tally
  BY <1>0, <1>10 DEF Flags, Numbers, ScopeInv, IdInv, OnWire, Ids, Formats,
     NoFormat, Tally, vars, client, mining, reader
<1>11. ASSUME NEW i \in Ids, NEW v \in Verdicts, OnWire(i), MatchAnswer(i, v)
      PROVE  IdInv'
  BY <1>0, <1>11 DEF Flags, Numbers, ScopeInv, IdInv, OnWire, Ids, Formats,
     NoFormat, MatchAnswer, vars, client, mining, reader
<1>12. ASSUME NEW i \in Ids, OnWire(i), IgnoreAnswer(i)
      PROVE  IdInv'
  BY <1>0, <1>12 DEF Flags, Numbers, ScopeInv, IdInv, OnWire, Ids, Formats,
     NoFormat, IgnoreAnswer, vars, client, mining, reader
<1>13. ASSUME IgnoreAnswer(AuthorizeId) PROVE IdInv'
  BY <1>0, <1>13 DEF Flags, Numbers, ScopeInv, IdInv, OnWire, Ids, Formats,
     NoFormat, IgnoreAnswer, vars, client, mining, reader, AuthorizeId
<1>14. CASE LookUpFormat
  BY <1>0, <1>14 DEF Flags, Numbers, ScopeInv, IdInv, OnWire, Ids, Formats,
     NoFormat, LookUpFormat, vars, client, mining, reader
<1>15. CASE Judge
  <2>1. rid \in Ids /\ verdicts[rid] \in Nat
    BY <1>0, <1>15, JudgeFacts DEF Numbers, ScopeInv, Ids
  <2>2. \A j \in Ids : verdicts'[j] = IF j = rid THEN 1 ELSE verdicts[j]
    BY <1>0, <1>15, <2>1, JudgeFacts DEF Numbers, IdInv
  <2>3. \A j \in Ids : OnWire(j)' <=> OnWire(j)
    BY <1>15, JudgeFacts DEF OnWire
  <2>4. rid <= next_id_ /\ pending_submits_ \subseteq Ids
    BY <1>0, <1>15, JudgeFacts DEF Numbers, ScopeInv, Ids
  <2>5. rid \notin pending_submits_
    BY <1>0, <1>15, JudgeFacts DEF IdInv
  <2>6. \A i \in Ids : i > next_id_' => verdicts'[i] = 0 /\ wire'[i] = NoFormat
    BY <1>0, <1>15, <2>2, <2>4, JudgeFacts DEF Ids, Numbers, IdInv
  <2>7. \A i \in pending_submits_' : verdicts'[i] = 0
    BY <1>0, <1>15, <2>2, <2>4, <2>5, JudgeFacts DEF IdInv
  <2>8. \A i \in Ids : OnWire(i)' => i \in pending_submits_' \/ verdicts'[i] = 1
    BY <1>0, <1>15, <2>2, <2>3, JudgeFacts DEF IdInv
  <2>9. spc' \in {"sending", "unregister"}
           => ~OnWire(id)' /\ verdicts'[id'] = 0 /\ id' \in pending_submits_'
    BY <1>0, <1>15, <2>2, <2>4, <2>5, JudgeFacts DEF IdInv, OnWire
  <2>10. spc' = "record" => wire'[id'] = fmt'
    BY <1>0, <1>15, JudgeFacts DEF IdInv
  <2> QED
    BY <1>15, <2>6, <2>7, <2>8, <2>9, <2>10, JudgeFacts DEF IdInv, OnWire
<1>16. CASE Eof
  BY <1>0, <1>16 DEF Flags, Numbers, ScopeInv, IdInv, OnWire, Ids, Formats,
     NoFormat, Eof, vars, client, mining, reader
<1>17. CASE UNCHANGED vars
  BY <1>0, <1>17 DEF Flags, Numbers, ScopeInv, IdInv, OnWire, Ids, Formats,
     NoFormat, vars, vars, client, mining, reader
<1> QED
  BY <1>1, <1>2, <1>3, <1>4, <1>5, <1>6, <1>7, <1>8, <1>9, <1>10, <1>11,
     <1>12, <1>13, <1>14, <1>15, <1>16, <1>17
     DEF Next, Submitter, Reader, Terminated

\* Every step keeps the format recorded for an id the one it was sent in, or
\* none, and the reports about ids that were sent.
LEMMA FormatStep == IInv /\ [Next]_vars => FormatInv'
<1> SUFFICES ASSUME IInv, [Next]_vars PROVE FormatInv'
  OBVIOUS
<1> USE SubmitAssumption
<1>0. Flags /\ Numbers /\ ScopeInv /\ IdInv /\ FormatInv /\ JudgedAtMostOnce /\ NoVerdictLost
        /\ LedgerBalances /\ NoWrongFormat
  BY DEF IInv, TypeOK
<1>1. CASE Connect
  BY <1>0, <1>1 DEF Numbers, ScopeInv, IdInv, FormatInv, OnWire, Ids,
     Formats, NoFormat, Connect, vars, client, mining, reader
<1>2. CASE Login
  BY <1>0, <1>2 DEF Numbers, ScopeInv, IdInv, FormatInv, OnWire, Ids,
     Formats, NoFormat, Login, vars, client, mining, reader
<1>3. CASE Return
  BY <1>0, <1>3 DEF Numbers, ScopeInv, IdInv, FormatInv, OnWire, Ids,
     Formats, NoFormat, Return, vars, client, mining, reader
<1>4. CASE FoundShare
  BY <1>0, <1>4 DEF Numbers, ScopeInv, IdInv, FormatInv, OnWire, Ids,
     Formats, NoFormat, FoundShare, vars, client, mining, reader
<1>5. CASE Register
  BY <1>0, <1>5 DEF Numbers, ScopeInv, IdInv, FormatInv, OnWire, Ids,
     Formats, NoFormat, Register, vars, client, mining, reader
<1>6. CASE SendOk
  BY <1>0, <1>6 DEF Numbers, ScopeInv, IdInv, FormatInv, OnWire, Ids,
     Formats, NoFormat, SendOk, vars, client, mining, reader
<1>7. CASE SendFails
  BY <1>0, <1>7 DEF Numbers, ScopeInv, IdInv, FormatInv, OnWire, Ids,
     Formats, NoFormat, SendFails, vars, client, mining, reader
<1>8. CASE Unregister
  BY <1>0, <1>8 DEF Numbers, ScopeInv, IdInv, FormatInv, OnWire, Ids,
     Formats, NoFormat, Unregister, vars, client, mining, reader,
     NextFormat
<1>9. CASE Record
  BY <1>0, <1>9 DEF Numbers, ScopeInv, IdInv, FormatInv, OnWire, Ids,
     Formats, NoFormat, Record, vars, client, mining, reader, NextFormat
<1>10. CASE Tally
  BY <1>0, <1>10 DEF Numbers, ScopeInv, IdInv, FormatInv, OnWire, Ids,
     Formats, NoFormat, Tally, vars, client, mining, reader
<1>11. ASSUME NEW i \in Ids, NEW v \in Verdicts, OnWire(i), MatchAnswer(i, v)
      PROVE  FormatInv'
  BY <1>0, <1>11 DEF Numbers, ScopeInv, IdInv, FormatInv, OnWire, Ids,
     Formats, NoFormat, MatchAnswer, vars, client, mining, reader
<1>12. ASSUME NEW i \in Ids, OnWire(i), IgnoreAnswer(i)
      PROVE  FormatInv'
  BY <1>0, <1>12 DEF Numbers, ScopeInv, IdInv, FormatInv, OnWire, Ids,
     Formats, NoFormat, IgnoreAnswer, vars, client, mining, reader
<1>13. ASSUME IgnoreAnswer(AuthorizeId) PROVE FormatInv'
  BY <1>0, <1>13 DEF Numbers, ScopeInv, IdInv, FormatInv, OnWire, Ids,
     Formats, NoFormat, IgnoreAnswer, vars, client, mining, reader,
     AuthorizeId
<1>14. CASE LookUpFormat
  BY <1>0, <1>14 DEF Numbers, ScopeInv, IdInv, FormatInv, OnWire, Ids,
     Formats, NoFormat, LookUpFormat, vars, client, mining, reader
<1>15. CASE Judge
  <2>1. rid \in Ids /\ verdicts[rid] \in Nat
    BY <1>0, <1>15, JudgeFacts DEF Numbers, ScopeInv, Ids
  <2> QED
    BY <1>0, <1>15, <2>1, JudgeFacts DEF Numbers, ScopeInv,
     IdInv, FormatInv, OnWire, Ids, Formats, NoFormat, CountVerdict
<1>16. CASE Eof
  BY <1>0, <1>16 DEF Numbers, ScopeInv, IdInv, FormatInv, OnWire, Ids,
     Formats, NoFormat, Eof, vars, client, mining, reader
<1>17. CASE UNCHANGED vars
  BY <1>0, <1>17 DEF Numbers, ScopeInv, IdInv, FormatInv, OnWire, Ids,
     Formats, NoFormat, vars, vars, client, mining, reader
<1> QED
  BY <1>1, <1>2, <1>3, <1>4, <1>5, <1>6, <1>7, <1>8, <1>9, <1>10, <1>11,
     <1>12, <1>13, <1>14, <1>15, <1>16, <1>17
     DEF Next, Submitter, Reader, Terminated

\* No step judges an id twice, loses a verdict or locks a wrong format.
LEMMA VerdictStep == IInv /\ [Next]_vars => (JudgedAtMostOnce /\ NoVerdictLost /\ NoWrongFormat)'
<1> SUFFICES ASSUME IInv, [Next]_vars PROVE (JudgedAtMostOnce /\ NoVerdictLost /\ NoWrongFormat)'
  OBVIOUS
<1> USE SubmitAssumption
<1>0. Flags /\ Numbers /\ ScopeInv /\ IdInv /\ FormatInv /\ JudgedAtMostOnce /\ NoVerdictLost
        /\ LedgerBalances /\ NoWrongFormat
  BY DEF IInv, TypeOK
<1>1. CASE Connect
  BY <1>0, <1>1 DEF Numbers, ScopeInv, IdInv, FormatInv, JudgedAtMostOnce,
     NoVerdictLost, NoWrongFormat, OnWire, Ids, Formats, NoFormat, Connect,
     vars, client, mining, reader
<1>2. CASE Login
  BY <1>0, <1>2 DEF Numbers, ScopeInv, IdInv, FormatInv, JudgedAtMostOnce,
     NoVerdictLost, NoWrongFormat, OnWire, Ids, Formats, NoFormat, Login,
     vars, client, mining, reader
<1>3. CASE Return
  BY <1>0, <1>3 DEF Numbers, ScopeInv, IdInv, FormatInv, JudgedAtMostOnce,
     NoVerdictLost, NoWrongFormat, OnWire, Ids, Formats, NoFormat, Return,
     vars, client, mining, reader
<1>4. CASE FoundShare
  BY <1>0, <1>4 DEF Numbers, ScopeInv, IdInv, FormatInv, JudgedAtMostOnce,
     NoVerdictLost, NoWrongFormat, OnWire, Ids, Formats, NoFormat,
     FoundShare, vars, client, mining, reader
<1>5. CASE Register
  BY <1>0, <1>5 DEF Numbers, ScopeInv, IdInv, FormatInv, JudgedAtMostOnce,
     NoVerdictLost, NoWrongFormat, OnWire, Ids, Formats, NoFormat,
     Register, vars, client, mining, reader
<1>6. CASE SendOk
  BY <1>0, <1>6 DEF Numbers, ScopeInv, IdInv, FormatInv, JudgedAtMostOnce,
     NoVerdictLost, NoWrongFormat, OnWire, Ids, Formats, NoFormat, SendOk,
     vars, client, mining, reader
<1>7. CASE SendFails
  BY <1>0, <1>7 DEF Numbers, ScopeInv, IdInv, FormatInv, JudgedAtMostOnce,
     NoVerdictLost, NoWrongFormat, OnWire, Ids, Formats, NoFormat,
     SendFails, vars, client, mining, reader
<1>8. CASE Unregister
  BY <1>0, <1>8 DEF Numbers, ScopeInv, IdInv, FormatInv, JudgedAtMostOnce,
     NoVerdictLost, NoWrongFormat, OnWire, Ids, Formats, NoFormat,
     Unregister, vars, client, mining, reader, NextFormat
<1>9. CASE Record
  BY <1>0, <1>9 DEF Numbers, ScopeInv, IdInv, FormatInv, JudgedAtMostOnce,
     NoVerdictLost, NoWrongFormat, OnWire, Ids, Formats, NoFormat, Record,
     vars, client, mining, reader, NextFormat
<1>10. CASE Tally
  BY <1>0, <1>10 DEF Numbers, ScopeInv, IdInv, FormatInv, JudgedAtMostOnce,
     NoVerdictLost, NoWrongFormat, OnWire, Ids, Formats, NoFormat, Tally,
     vars, client, mining, reader
<1>11. ASSUME NEW i \in Ids, NEW v \in Verdicts, OnWire(i), MatchAnswer(i, v)
      PROVE  (JudgedAtMostOnce /\ NoVerdictLost /\ NoWrongFormat)'
  BY <1>0, <1>11 DEF Numbers, ScopeInv, IdInv, FormatInv, JudgedAtMostOnce,
     NoVerdictLost, NoWrongFormat, OnWire, Ids, Formats, NoFormat,
     MatchAnswer, vars, client, mining, reader
<1>12. ASSUME NEW i \in Ids, OnWire(i), IgnoreAnswer(i)
      PROVE  (JudgedAtMostOnce /\ NoVerdictLost /\ NoWrongFormat)'
  BY <1>0, <1>12 DEF Numbers, ScopeInv, IdInv, FormatInv, JudgedAtMostOnce,
     NoVerdictLost, NoWrongFormat, OnWire, Ids, Formats, NoFormat,
     IgnoreAnswer, vars, client, mining, reader
<1>13. ASSUME IgnoreAnswer(AuthorizeId) PROVE (JudgedAtMostOnce /\ NoVerdictLost /\ NoWrongFormat)'
  BY <1>0, <1>13 DEF Numbers, ScopeInv, IdInv, FormatInv, JudgedAtMostOnce,
     NoVerdictLost, NoWrongFormat, OnWire, Ids, Formats, NoFormat,
     IgnoreAnswer, vars, client, mining, reader, AuthorizeId
<1>14. CASE LookUpFormat
  BY <1>0, <1>14 DEF Numbers, ScopeInv, IdInv, FormatInv, JudgedAtMostOnce,
     NoVerdictLost, NoWrongFormat, OnWire, Ids, Formats, NoFormat,
     LookUpFormat, vars, client, mining, reader
<1>15. CASE Judge
  <2>1. rid \in Ids /\ verdicts[rid] \in Nat
    BY <1>0, <1>15, JudgeFacts DEF Numbers, ScopeInv, Ids
  <2>2. JudgedAtMostOnce'
    <3>1. verdicts \in [Ids -> Nat] /\ verdicts[rid] = 0
      BY <1>0, <1>15, JudgeFacts DEF Numbers, IdInv
    <3>2. verdicts' = [verdicts EXCEPT ![rid] = @ + 1]
      BY <1>15, JudgeFacts
    <3> QED
      BY <1>0, <2>1, <3>1, <3>2 DEF JudgedAtMostOnce, Ids
  <2>3. NoVerdictLost'
    BY <1>0, <1>15, JudgeFacts DEF NoVerdictLost
  <2>4. NoWrongFormat'
    BY <1>0, <1>15, JudgeFacts DEF FormatInv, NoWrongFormat
  <2> QED
    BY <2>2, <2>3, <2>4
<1>16. CASE Eof
  BY <1>0, <1>16 DEF Numbers, ScopeInv, IdInv, FormatInv, JudgedAtMostOnce,
     NoVerdictLost, NoWrongFormat, OnWire, Ids, Formats, NoFormat, Eof,
     vars, client, mining, reader
<1>17. CASE UNCHANGED vars
  BY <1>0, <1>17 DEF Numbers, ScopeInv, IdInv, FormatInv, JudgedAtMostOnce,
     NoVerdictLost, NoWrongFormat, OnWire, Ids, Formats, NoFormat, vars,
     vars, client, mining, reader
<1> QED
  BY <1>1, <1>2, <1>3, <1>4, <1>5, <1>6, <1>7, <1>8, <1>9, <1>10, <1>11,
     <1>12, <1>13, <1>14, <1>15, <1>16, <1>17
     DEF Next, Submitter, Reader, Terminated

-----------------------------------------------------------------------------
(* The counters.                                                           *)

Waiting == pending_submits_ \ Unsent

\* The ids in flight are finitely many, so they can be counted.
LEMMA FinitePending == Numbers => IsFiniteSet(pending_submits_)
<1> SUFFICES ASSUME Numbers PROVE IsFiniteSet(pending_submits_)
  OBVIOUS
<1> USE SubmitAssumption
<1>1. next_id_ \in Int /\ pending_submits_ \subseteq 101..next_id_
  BY DEF Numbers
<1>2. IsFiniteSet(101..next_id_)
  BY <1>1, FS_Interval
<1> QED
  BY <1>1, <1>2, FS_Subset

\* A step that leaves the counters and the waiting ids alone keeps the balance.
LEMMA LedgerFrame ==
  ASSUME LedgerBalances,
         Waiting' = Waiting,
         UNCHANGED <<submitted, accepted, rejected>>,
         (spc = "record") <=> (spc' = "record"),
         (rpc \in {"lookup", "count"}) <=> (rpc' \in {"lookup", "count"})
  PROVE  LedgerBalances'
  BY DEF LedgerBalances, Waiting, Uncounted, InVerdict

\* Every step keeps the submissions equal to the verdicts and what is pending.
LEMMA LedgerStep == IInv /\ [Next]_vars => LedgerBalances'
<1> SUFFICES ASSUME IInv, [Next]_vars PROVE LedgerBalances'
  OBVIOUS
<1> USE SubmitAssumption
<1>0. Flags /\ Numbers /\ ScopeInv /\ IdInv /\ LedgerBalances
  BY DEF IInv, TypeOK
<1>f. IsFiniteSet(pending_submits_) /\ IsFiniteSet(Waiting)
  BY <1>0, FinitePending, FS_Difference DEF Waiting
<1>n. Cardinality(Waiting) \in Nat /\ submitted \in Nat /\ accepted \in Nat
        /\ rejected \in Nat
  BY <1>0, <1>f, FS_CardinalityType DEF Numbers
<1>1. CASE Connect \/ Login \/ Return \/ FoundShare \/ SendFails \/ Tally
           \/ Eof
  <2>1. Waiting' = Waiting /\ UNCHANGED <<submitted, accepted, rejected>>
    BY <1>0, <1>1 DEF Connect, Login, Return, FoundShare, SendFails, Tally, Eof,
       Waiting, Unsent, client, mining, reader
  <2>2. (spc = "record") <=> (spc' = "record")
    BY <1>1 DEF Connect, Login, Return, FoundShare, SendFails, Tally, Eof, mining
  <2>3. (rpc \in {"lookup", "count"}) <=> (rpc' \in {"lookup", "count"})
    BY <1>0, <1>1 DEF Connect, Login, Return, FoundShare, SendFails, Tally, Eof,
       reader, ScopeInv
  <2> QED
    BY <1>0, <2>1, <2>2, <2>3, LedgerFrame
<1>2. CASE Register
  <2>1. Waiting' = Waiting
    BY <1>0, <1>2 DEF Register, Waiting, Unsent, Numbers
  <2> QED
    BY <1>0, <1>2, <2>1, LedgerFrame DEF Register, reader
<1>3. CASE SendOk
  <2>1. id \in pending_submits_ /\ Waiting = pending_submits_ \ {id}
        /\ Waiting' = pending_submits_
    BY <1>0, <1>3 DEF SendOk, IdInv, Waiting, Unsent, client, mining
  <2>2. Cardinality(Waiting) = Cardinality(pending_submits_) - 1
    BY <1>f, <2>1, FS_RemoveElement
  <2>3. Cardinality(pending_submits_) \in Nat
    BY <1>f, FS_CardinalityType
  <2> QED
    BY <1>0, <1>n, <1>3, <2>1, <2>2, <2>3 DEF SendOk, LedgerBalances, Waiting,
       Uncounted, InVerdict, client, mining, reader
<1>4. CASE Unregister
  <2>1. Waiting' = Waiting
    BY <1>4 DEF Unregister, NextFormat, Waiting, Unsent
  <2>2. spc # "record" /\ spc' # "record"
    BY <1>4 DEF Unregister, NextFormat
  <2> QED
    BY <1>0, <1>4, <2>1, <2>2, LedgerFrame DEF Unregister, reader
<1>5. CASE Record
  <2>1. Waiting' = Waiting
    BY <1>5 DEF Record, NextFormat, Waiting, Unsent, client
  <2>2. spc = "record" /\ spc' # "record"
    BY <1>5 DEF Record, NextFormat
  <2> QED
    BY <1>0, <1>n, <1>5, <2>1, <2>2 DEF Record, LedgerBalances, Waiting,
       Uncounted, InVerdict, reader
<1>6. ASSUME NEW i \in Ids, NEW v \in Verdicts, OnWire(i), MatchAnswer(i, v)
      PROVE  LedgerBalances'
  <2>1. i \in Waiting /\ Waiting' = Waiting \ {i}
    BY <1>0, <1>6 DEF MatchAnswer, IdInv, Waiting, Unsent, mining
  <2>2. Cardinality(Waiting') = Cardinality(Waiting) - 1
    BY <1>f, <2>1, FS_RemoveElement
  <2> QED
    BY <1>0, <1>n, <1>6, <2>2 DEF MatchAnswer, LedgerBalances, Waiting,
       Uncounted, InVerdict, mining
<1>7. ASSUME NEW i, IgnoreAnswer(i) PROVE LedgerBalances'
  BY <1>0, <1>7, LedgerFrame DEF IgnoreAnswer, Waiting, Unsent, client, mining
<1>8. CASE LookUpFormat
  BY <1>0, <1>8, LedgerFrame DEF LookUpFormat, Waiting, Unsent, client, mining
<1>9. CASE Judge
  <2>1. Waiting' = Waiting
    BY <1>9, JudgeFacts DEF Waiting, Unsent
  <2>2. \/ accepted' = accepted + 1 /\ rejected' = rejected
        \/ accepted' = accepted /\ rejected' = rejected + 1
    BY <1>n, <1>9, JudgeFacts DEF CountVerdict
  <2>4. InVerdict = 1 /\ InVerdict' = 0
    BY <1>9, JudgeFacts DEF InVerdict
  <2>5. submitted' = submitted /\ Uncounted' = Uncounted /\ Uncounted \in Nat
    BY <1>9, JudgeFacts DEF Uncounted
  <2>6. submitted + Uncounted
          = accepted + rejected + InVerdict + Cardinality(Waiting)
    BY <1>0 DEF LedgerBalances, Waiting
  <2>7. Cardinality(Waiting') = Cardinality(Waiting)
    BY <2>1
  <2>8. submitted + Uncounted = accepted + rejected + 1 + Cardinality(Waiting)
    BY <2>4, <2>6
  <2>9. submitted' + Uncounted'
          = accepted' + rejected' + InVerdict' + Cardinality(Waiting')
    BY <1>n, <2>2, <2>4, <2>5, <2>7, <2>8
  <2> QED
    BY <2>9 DEF LedgerBalances, Waiting
<1>10. CASE UNCHANGED vars
  BY <1>0, <1>10, LedgerFrame DEF Waiting, Unsent, vars, client, mining, reader
<1> QED
  BY <1>1, <1>2, <1>3, <1>4, <1>5, <1>6, <1>7, <1>8, <1>9, <1>10
     DEF Next, Submitter, Reader, Terminated

-----------------------------------------------------------------------------
(* The theorems.                                                           *)

\* Every behaviour keeps the inductive invariant.
THEOREM Invariance == Spec => []IInv
<1>1. IInv /\ [Next]_vars => IInv'
  BY FlagsStep, NumbersStep, ScopeStep, IdStep, FormatStep, VerdictStep,
     LedgerStep DEF IInv, TypeOK
<1> QED
  BY InitIInv, <1>1, PTL DEF Spec

\* Types, for any number of formats and ids.
THEOREM TypeCorrectness == Spec => []TypeOK
<1>1. IInv => TypeOK
  BY DEF IInv
<1> QED
  BY Invariance, <1>1, PTL

\* Each submission is judged at most once, whatever the pool repeats.
THEOREM AtMostOneVerdict == Spec => []JudgedAtMostOnce
<1>1. IInv => JudgedAtMostOnce
  BY DEF IInv
<1> QED
  BY Invariance, <1>1, PTL

\* No answer to a submission is dropped unjudged, however early it comes.
THEOREM EveryAnswerJudged == Spec => []NoVerdictLost
<1>1. IInv => NoVerdictLost
  BY DEF IInv
<1> QED
  BY Invariance, <1>1, PTL

\* The counters account for every submission at every moment.
THEOREM CountersAddUp == Spec => []LedgerBalances
<1>1. IInv => LedgerBalances
  BY DEF IInv
<1> QED
  BY Invariance, <1>1, PTL

\* The log names the format an accepted share was sent in, or none.
THEOREM LoggedFormats == Spec => []NoWrongFormat
<1>1. IInv => NoWrongFormat
  BY DEF IInv
<1> QED
  BY Invariance, <1>1, PTL

-----------------------------------------------------------------------------
(* StratumLines: lines over the socket.                                    *)

\* What a line is made of.
LEMMA LineBytes ==
  /\ CR \in LineByte /\ LF \in LineByte /\ CR # LF
  /\ \A t \in Texts : /\ t \in Seq(LineByte) /\ Len(t) \in Nat
                      /\ \A i \in 1..Len(t) : t[i] \in LineByte /\ t[i] # CR /\ t[i] # LF
<1>1. CR # LF
  BY DEF CR, LF
<1>2. CR \in LineByte /\ LF \in LineByte
  BY DEF LineByte
<1>3. ASSUME NEW t \in Texts
      PROVE  /\ t \in Seq(LineByte) /\ Len(t) \in Nat
             /\ \A i \in 1..Len(t) : t[i] \in LineByte /\ t[i] # CR /\ t[i] # LF
  <2> DEFINE S == {t[i] : i \in DOMAIN t} \ {CR, LF}
  <2>1. t \in Seq(S)
    BY TextsAssumption
  <2>2. S \subseteq LineByte
    BY DEF LineByte
  <2>3. \A x \in S : x \in LineByte /\ x # CR /\ x # LF
    BY <2>2
  <2> HIDE DEF S
  <2> QED
    BY <2>1, <2>3
<1> QED
  BY <1>1, <1>2, <1>3

\* c is b, with t and e behind it.
Joined(c, b, t, e) ==
  /\ Len(b) \in Nat /\ Len(c) = Len(b) + Len(t) + Len(e)
  /\ \A i \in 1..Len(b) : c[i] = b[i]
  /\ \A i \in 1..Len(t) : c[Len(b) + i] = t[i]
  /\ \A i \in 1..Len(e) : c[Len(b) + Len(t) + i] = e[i]

\* c is a, with b behind it.
Appended(c, a, b) ==
  /\ Len(a) \in Nat /\ Len(b) \in Nat /\ Len(c) = Len(a) + Len(b)
  /\ \A i \in 1..Len(a) : c[i] = a[i]
  /\ \A i \in 1..Len(b) : c[Len(a) + i] = b[i]

\* What a concatenation holds.
LEMMA OneBehind ==
  ASSUME NEW S, NEW a \in Seq(S), NEW b \in Seq(S)
  PROVE  a \o b \in Seq(S) /\ Appended(a \o b, a, b)
<1>1. a \o b \in Seq(S) /\ Len(a) \in Nat /\ Len(b) \in Nat
  OBVIOUS
<1>2. Len(a \o b) = Len(a) + Len(b)
  OBVIOUS
<1>3. \A i \in 1..Len(a) : (a \o b)[i] = a[i]
  OBVIOUS
<1>4. \A i \in 1..Len(b) : (a \o b)[Len(a) + i] = b[i]
  OBVIOUS
<1> QED
  BY <1>1, <1>2, <1>3, <1>4 DEF Appended

\* A text and its ending behind a sequence.
LEMMA TwoBehind ==
  ASSUME NEW S, NEW a \in Seq(S), NEW b \in Seq(S), NEW t \in Seq(S), NEW e \in Seq(S)
  PROVE  /\ a \o ((b \o t) \o e) \in Seq(S)
         /\ Joined(a \o ((b \o t) \o e), a \o b, t, e)
<1>1. PICK u \in Seq(S) : u = b \o t /\ Appended(u, b, t)
  BY OneBehind, Zenon
<1>2. PICK w \in Seq(S) : w = u \o e /\ Appended(w, u, e)
  BY OneBehind, Zenon
<1>3. PICK z \in Seq(S) : z = a \o w /\ Appended(z, a, w)
  BY OneBehind, Zenon
<1>4. PICK y \in Seq(S) : y = a \o b /\ Appended(y, a, b)
  BY OneBehind, Zenon
<1>5. Len(a) \in Nat /\ Len(b) \in Nat /\ Len(t) \in Nat /\ Len(e) \in Nat
  OBVIOUS
<1>6. Len(y) \in Nat /\ Len(z) = Len(y) + Len(t) + Len(e)
  BY <1>1, <1>2, <1>3, <1>4, <1>5 DEF Appended
<1>7. \A i \in 1..Len(y) : z[i] = y[i]
  <2> SUFFICES ASSUME NEW i \in 1..Len(y) PROVE z[i] = y[i]
    OBVIOUS
  <2>1. CASE i <= Len(a)
    BY <1>3, <1>4, <1>5, <2>1 DEF Appended
  <2>2. CASE i > Len(a)
    <3>1. PICK k \in 1..Len(b) : i = Len(a) + k
      <4>1. i - Len(a) \in 1..Len(b) /\ i = Len(a) + (i - Len(a))
        BY <1>4, <1>5, <2>2 DEF Appended
      <4> QED
        BY <4>1
    <3>2. k \in 1..Len(u) /\ k \in 1..Len(w)
      BY <1>1, <1>2, <1>5 DEF Appended
    <3> QED
      BY <1>1, <1>2, <1>3, <1>4, <3>1, <3>2 DEF Appended
  <2> QED
    BY <1>4, <1>5, <2>1, <2>2 DEF Appended
<1>8. \A i \in 1..Len(t) : z[Len(y) + i] = t[i]
  <2> SUFFICES ASSUME NEW i \in 1..Len(t) PROVE z[Len(y) + i] = t[i]
    OBVIOUS
  <2>1. PICK k \in Nat : k = Len(b) + i
    BY <1>5
  <2>2. k \in 1..Len(u) /\ k \in 1..Len(w) /\ Len(y) + i = Len(a) + k
    BY <1>1, <1>2, <1>4, <1>5, <2>1 DEF Appended
  <2>3. z[Len(a) + k] = w[k] /\ w[k] = u[k]
    BY <1>2, <1>3, <2>2 DEF Appended
  <2>4. u[k] = t[i]
    BY <1>1, <2>1 DEF Appended
  <2> QED
    BY <2>2, <2>3, <2>4
<1>9. \A i \in 1..Len(e) : z[Len(y) + Len(t) + i] = e[i]
  <2> SUFFICES ASSUME NEW i \in 1..Len(e) PROVE z[Len(y) + Len(t) + i] = e[i]
    OBVIOUS
  <2>1. PICK k \in Nat : k = Len(u) + i
    BY <1>5, <1>1 DEF Appended
  <2>2. k \in 1..Len(w) /\ Len(y) + Len(t) + i = Len(a) + k
    BY <1>1, <1>2, <1>4, <1>5, <2>1 DEF Appended
  <2> QED
    BY <1>2, <1>3, <2>1, <2>2 DEF Appended
<1>10. Joined(z, y, t, e)
  BY <1>6, <1>7, <1>8, <1>9 DEF Joined
<1> QED
  BY <1>1, <1>2, <1>3, <1>4, <1>10, Zenon

\* c begins with the n bytes of b.
BeginsWith(c, b, n) == \A i \in 1..n : c[i] = b[i]

\* A frame is not disturbed by what comes behind it.
LEMMA FrameStays ==
  ASSUME NEW b, NEW c, NEW n \in Nat, BeginsWith(c, b, n),
         NEW at \in Nat, NEW to \in Nat, to <= n, NEW t, Len(t) \in Nat, Framed(b, at, to, t)
  PROVE  Framed(c, at, to, t)
<1>1. to >= at + Len(t) + 1
  BY DEF Framed
<1>2. \A i \in 1..Len(t) : at + i \in 1..n
  BY <1>1
<1>3. to \in 1..n
  BY <1>1
<1>4. to = at + Len(t) + 2 => to - 1 \in 1..n
  BY <1>3
<1> QED
  BY <1>2, <1>3, <1>4 DEF Framed, BeginsWith

\* One more line behind those that are cut already.
LEMMA CutsGrow ==
  ASSUME NEW n \in Nat, NEW m \in Nat, NEW b, NEW c, NEW texts \in Seq(Texts), NEW t \in Texts,
         NEW done \in 0..Len(texts), NEW cut \in [0..Len(texts) - done -> 0..n],
         Len(b) = n, Len(c) = m, BeginsWith(c, b, n),
         Cuts(cut, b, texts, done), Framed(c, n, m, t), m >= n
  PROVE  \E cat \in [0..Len(Append(texts, t)) - done -> 0..m] : Cuts(cat, c, Append(texts, t), done)
<1> DEFINE u == Append(texts, t)
           l == Len(texts) - done
           cat == [k \in 0..l + 1 |-> IF k = l + 1 THEN m ELSE cut[k]]
<1>1. l \in Nat /\ Len(u) - done = l + 1 /\ u \in Seq(Texts)
  OBVIOUS
<1>2. \A k \in 1..l : u[done + k] = texts[done + k] /\ done + k \in 1..Len(texts)
  OBVIOUS
<1>3. u[done + (l + 1)] = t
  OBVIOUS
<1>4. cat \in [0..l + 1 -> 0..m]
  BY <1>1
<1>5. cat[0] = 0 /\ cat[l + 1] = Len(c)
  BY <1>1 DEF Cuts
<1>6. ASSUME NEW k \in 1..l PROVE Framed(c, cat[k - 1], cat[k], u[done + k])
  <2>1. k - 1 \in 0..l /\ k \in 0..l
    BY <1>1
  <2>2. cut[k - 1] \in 0..n /\ cut[k] \in 0..n
    BY <2>1
  <2>3. cat[k - 1] = cut[k - 1] /\ cat[k] = cut[k]
    BY <2>1, <1>1
  <2>4. Framed(b, cut[k - 1], cut[k], texts[done + k])
    BY DEF Cuts
  <2>5. Len(texts[done + k]) \in Nat
    BY <1>2, LineBytes
  <2> HIDE DEF u, cat, l
  <2>6. Framed(c, cut[k - 1], cut[k], texts[done + k])
    <3>1. PICK at \in Nat, to \in Nat, x \in Texts :
            at = cut[k - 1] /\ to = cut[k] /\ to <= n /\ x = texts[done + k]
      BY <1>2, <2>2
    <3>2. Len(x) \in Nat /\ Framed(b, at, to, x)
      BY <2>4, <2>5, <3>1
    <3>3. Framed(c, at, to, x)
      BY <3>1, <3>2, FrameStays
    <3> QED
      BY <3>1, <3>3
  <2> QED
    BY <1>2, <2>3, <2>6
<1>7. Framed(c, cat[(l + 1) - 1], cat[l + 1], u[done + (l + 1)])
  <2>1. cut[l] = n
    BY DEF Cuts
  <2>2. cat[(l + 1) - 1] = n /\ cat[l + 1] = m
    BY <1>1, <2>1
  <2> QED
    BY <1>3, <2>2
<1> HIDE DEF u, cat, l
<1>8. \A k \in 1..l + 1 : Framed(c, cat[k - 1], cat[k], u[done + k])
  <2> SUFFICES ASSUME NEW k \in 1..l + 1 PROVE Framed(c, cat[k - 1], cat[k], u[done + k])
    OBVIOUS
  <2>1. CASE k = l + 1
    BY <2>1, <1>7
  <2>2. CASE k # l + 1
    BY <2>2, <1>1, <1>6
  <2> QED
    BY <2>1, <2>2
<1>9. Cuts(cat, c, u, done)
  BY <1>1, <1>5, <1>8 DEF Cuts
<1> QED
  BY <1>1, <1>4, <1>9 DEF u

\* A frame ends in its only LF.
LEMMA FrameEnds ==
  ASSUME NEW b, NEW at \in Nat, NEW to \in Nat, NEW t \in Texts, Framed(b, at, to, t)
  PROVE  /\ at < to /\ b[to] = LF
         /\ \A i \in Nat : at < i /\ i < to => b[i] # LF
<1>1. t \in Seq(LineByte) /\ Len(t) \in Nat /\ CR # LF
      /\ \A i \in 1..Len(t) : t[i] # CR /\ t[i] # LF
  BY LineBytes
<1>2. at < to /\ b[to] = LF
  BY <1>1 DEF Framed
<1>3. ASSUME NEW i \in Nat, at < i, i < to PROVE b[i] # LF
  <2>1. CASE i <= at + Len(t)
    <3>1. i - at \in 1..Len(t) /\ at + (i - at) = i
      BY <1>1, <1>3, <2>1
    <3>2. b[at + (i - at)] = t[i - at]
      BY <3>1 DEF Framed
    <3> QED
      BY <1>1, <3>1, <3>2
  <2>2. CASE i > at + Len(t)
    <3>1. i = to - 1 /\ b[to - 1] = CR
      BY <1>1, <1>3, <2>2 DEF Framed
    <3> QED
      BY <1>1, <3>1
  <2> QED
    BY <1>1, <2>1, <2>2
<1> QED
  BY <1>2, <1>3

\* What the first frame holds is its text.
LEMMA FirstText ==
  ASSUME NEW b \in Seq(LineByte), NEW p \in 1..Len(b), NEW t \in Texts, Framed(b, 0, p, t)
  PROVE  WithoutCR(SubSeq(b, 1, p - 1)) = t
<1>1. t \in Seq(LineByte) /\ Len(t) \in Nat /\ CR # LF
      /\ \A i \in 1..Len(t) : t[i] # CR /\ t[i] # LF
  BY LineBytes
<1> DEFINE l == SubSeq(b, 1, p - 1)
<1>2. l \in Seq(LineByte) /\ Len(l) = p - 1 /\ \A i \in 1..p - 1 : l[i] = b[i]
  OBVIOUS
<1>3. \A i \in 1..Len(t) : b[i] = t[i]
  BY <1>1 DEF Framed
<1>4. CASE p = Len(t) + 1
  <2>1. l = t
    BY <1>1, <1>2, <1>3, <1>4
  <2>2. l # <<>> => Last(l) # CR
    BY <1>1, <2>1 DEF Last
  <2> QED
    BY <2>1, <2>2 DEF WithoutCR
<1>5. CASE p = Len(t) + 2 /\ b[p - 1] = CR
  <2>1. l # <<>> /\ Last(l) = CR
    BY <1>1, <1>2, <1>5 DEF Last
  <2>2. Front(l) = t
    <3>1. Len(l) = Len(t) + 1
      BY <1>1, <1>2, <1>5
    <3>2. Front(l) \in Seq(LineByte) /\ Len(Front(l)) = Len(t) /\ \A i \in 1..Len(t) : Front(l)[i] = l[i]
      BY <1>1, <1>2, <3>1 DEF Front
    <3>3. \A i \in 1..Len(t) : l[i] = t[i]
      BY <1>2, <1>3, <3>1
    <3> HIDE DEF l
    <3> QED
      BY <1>1, <3>2, <3>3
  <2> QED
    BY <2>1, <2>2 DEF WithoutCR
<1>6. p = Len(t) + 1 \/ (p = Len(t) + 2 /\ b[p - 1] = CR)
  <2>1. p = 0 + Len(t) + 1 \/ (p = 0 + Len(t) + 2 /\ b[p - 1] = CR)
    BY Zenon DEF Framed
  <2> QED
    BY <1>1, <2>1
<1> QED
  BY <1>4, <1>5, <1>6

\* The next places rise, from one LF to the next.
Rise(cut, b, n) ==
  \A k \in 1..n :
    /\ cut[k - 1] \in Nat /\ cut[k] \in Nat /\ cut[k - 1] < cut[k]
    /\ b[cut[k]] = LF
    /\ \A i \in Nat : cut[k - 1] < i /\ i < cut[k] => b[i] # LF

\* The cuts rise.
LEMMA CutsRise ==
  ASSUME NEW n \in Nat, NEW b, NEW texts \in Seq(Texts), NEW done \in 0..Len(texts),
         NEW cut \in [0..Len(texts) - done -> 0..n], Cuts(cut, b, texts, done)
  PROVE  Rise(cut, b, Len(texts) - done)
<1> SUFFICES ASSUME NEW k \in 1..Len(texts) - done
             PROVE  /\ cut[k - 1] \in Nat /\ cut[k] \in Nat /\ cut[k - 1] < cut[k]
                    /\ b[cut[k]] = LF
                    /\ \A i \in Nat : cut[k - 1] < i /\ i < cut[k] => b[i] # LF
  BY DEF Rise
<1>1. k - 1 \in 0..Len(texts) - done /\ k \in 0..Len(texts) - done
  OBVIOUS
<1>2. PICK at \in Nat, to \in Nat, t \in Texts :
        at = cut[k - 1] /\ to = cut[k] /\ t = texts[done + k]
  BY <1>1
<1>3. Framed(b, at, to, t)
  BY <1>2 DEF Cuts
<1>4. /\ at < to /\ b[to] = LF
      /\ \A i \in Nat : at < i /\ i < to => b[i] # LF
  BY <1>3, FrameEnds
<1> QED
  BY <1>2, <1>4

Ordered(cut, n) == \A k \in 0..n : \A j \in 0..k : j < k => cut[j] < cut[k]

\* A later cut is a later place.
LEMMA CutsOrdered ==
  ASSUME NEW n \in Nat, NEW b, NEW texts \in Seq(Texts), NEW done \in 0..Len(texts),
         NEW cut \in [0..Len(texts) - done -> 0..n], Cuts(cut, b, texts, done)
  PROVE  Ordered(cut, Len(texts) - done)
<1> DEFINE l == Len(texts) - done
           T == {k \in Nat : k <= l => \A j \in 0..k : j < k => cut[j] < cut[k]}
<1>1. l \in Nat
  OBVIOUS
<1>2. \A k \in 1..l : cut[k - 1] \in Nat /\ cut[k] \in Nat /\ cut[k - 1] < cut[k]
  BY CutsRise DEF Rise
<1>3. \A k \in 0..l : cut[k] \in Nat
  OBVIOUS
<1> HIDE DEF l
<1>4. 0 \in T
  OBVIOUS
<1>5. ASSUME NEW k \in Nat, k \in T PROVE k + 1 \in T
  <2> SUFFICES ASSUME k + 1 <= l, NEW j \in 0..k + 1, j < k + 1 PROVE cut[j] < cut[k + 1]
    OBVIOUS
  <2>1. k + 1 \in 1..l /\ (k + 1) - 1 = k /\ k \in 0..l /\ j \in 0..l /\ j \in 0..k
    BY <1>1
  <2>2. cut[k] < cut[k + 1] /\ cut[k] \in Nat /\ cut[k + 1] \in Nat /\ cut[j] \in Nat
    BY <1>2, <1>3, <2>1
  <2>3. j < k => cut[j] < cut[k]
    BY <1>1, <1>5, <2>1
  <2>4. CASE j = k
    BY <2>2, <2>4
  <2>5. CASE j # k
    BY <2>1, <2>2, <2>3, <2>5
  <2> QED
    BY <2>4, <2>5
<1> HIDE DEF T
<1>6. \A k \in Nat : k \in T
  BY <1>4, <1>5, SetInduction
<1> QED
  BY <1>1, <1>6 DEF T, l, Ordered

EndsAt(b, n, cut, m) == \A i \in 1..n : b[i] = LF <=> \E k \in 1..m : i = cut[k]

\* A byte is an LF just if it is where a line is cut.
LEMMA EndsAreCuts ==
  ASSUME NEW n \in Nat, NEW b, Len(b) = n, NEW texts \in Seq(Texts), NEW done \in 0..Len(texts),
         NEW cut \in [0..Len(texts) - done -> 0..n], Cuts(cut, b, texts, done)
  PROVE  EndsAt(b, n, cut, Len(texts) - done)
<1> DEFINE l == Len(texts) - done
           T == {k \in Nat : k <= l =>
                   \A i \in 1..cut[k] : b[i] = LF => \E j \in 1..k : i = cut[j]}
<1>1. l \in Nat /\ cut[0] = 0 /\ cut[l] = n
  BY DEF Cuts
<1>2. \A k \in 1..l : /\ cut[k - 1] \in Nat /\ cut[k] \in Nat /\ b[cut[k]] = LF
                      /\ \A i \in Nat : cut[k - 1] < i /\ i < cut[k] => b[i] # LF
  BY CutsRise DEF Rise
<1> HIDE DEF l
<1>3. 0 \in T
  BY <1>1
<1>4. ASSUME NEW k \in Nat, k \in T PROVE k + 1 \in T
  <2> SUFFICES ASSUME k + 1 <= l, NEW i \in 1..cut[k + 1], b[i] = LF
               PROVE  \E j \in 1..k + 1 : i = cut[j]
    OBVIOUS
  <2>1. k + 1 \in 1..l /\ (k + 1) - 1 = k /\ k <= l /\ k + 1 \in 1..k + 1
    BY <1>1
  <2>2. /\ cut[k] \in Nat /\ cut[k + 1] \in Nat
        /\ \A x \in Nat : cut[k] < x /\ x < cut[k + 1] => b[x] # LF
    BY <1>2, <2>1
  <2>3. CASE i <= cut[k]
    <3>1. i \in 1..cut[k]
      BY <2>2, <2>3
    <3>2. PICK j \in 1..k : i = cut[j]
      BY <1>4, <2>1, <3>1
    <3> QED
      BY <3>2
  <2>4. CASE i > cut[k]
    <3>1. i = cut[k + 1]
      BY <2>2, <2>4
    <3> QED
      BY <2>1, <3>1
  <2> QED
    BY <2>2, <2>3, <2>4
<1> HIDE DEF T
<1>5. \A k \in Nat : k \in T
  BY <1>3, <1>4, SetInduction
<1>6. \A i \in 1..n : b[i] = LF => \E k \in 1..l : i = cut[k]
  BY <1>1, <1>5 DEF T
<1> QED
  BY <1>2, <1>6 DEF l, EndsAt

\* c is what lies behind place p of b, of length n.
Behind(c, b, p, n) == Len(c) = n - p /\ \A i \in 1..n - p : c[i] = b[p + i]

\* Without the first line the others are cut where they were.
LEMMA CutsShift ==
  ASSUME NEW n \in Nat, NEW b, Len(b) = n, NEW texts \in Seq(Texts), NEW done \in 0..Len(texts),
         done < Len(texts),
         NEW cut \in [0..Len(texts) - done -> 0..n], Cuts(cut, b, texts, done),
         NEW c, Behind(c, b, cut[1], n)
  PROVE  \E cat \in [0..Len(texts) - (done + 1) -> 0..Len(c)] : Cuts(cat, c, texts, done + 1)
<1> DEFINE l == Len(texts) - done
           p == cut[1]
           cat == [k \in 0..l - 1 |-> cut[k + 1] - p]
<1>1. l \in Nat /\ l >= 1 /\ Len(texts) - (done + 1) = l - 1 /\ cut \in [0..l -> 0..n]
      /\ cut[0] = 0 /\ cut[l] = n
  BY DEF Cuts
<1>2. p \in 0..n
  BY <1>1
<1>3. \A k \in 1..l : p <= cut[k] /\ cut[k] \in 0..n
  <2> SUFFICES ASSUME NEW k \in 1..l PROVE p <= cut[k] /\ cut[k] \in 0..n
    OBVIOUS
  <2>1. k \in 0..l /\ 1 \in 0..k /\ 1 \in 0..l
    BY <1>1
  <2>2. cut[k] \in 0..n /\ cut[1] \in 0..n
    BY <1>1, <2>1
  <2>3. 1 < k => cut[1] < cut[k]
    BY <2>1, CutsOrdered DEF Ordered
  <2>4. CASE k = 1
    BY <2>2, <2>4
  <2>5. CASE k # 1
    BY <2>1, <2>2, <2>3, <2>5
  <2> QED
    BY <2>4, <2>5
<1> HIDE DEF p, l
<1>4. \A k \in 0..l - 1 : cat[k] \in 0..n - p
  <2> SUFFICES ASSUME NEW k \in 0..l - 1 PROVE cat[k] \in 0..n - p
    OBVIOUS
  <2>1. k + 1 \in 1..l
    BY <1>1
  <2>2. p <= cut[k + 1] /\ cut[k + 1] \in 0..n
    BY <1>3, <2>1
  <2> QED
    BY <1>2, <2>2
<1>5. cat[0] = 0 /\ cat[l - 1] = n - p
  BY <1>1, <1>2 DEF p
<1>6. ASSUME NEW k \in 1..l - 1 PROVE Framed(c, cat[k - 1], cat[k], texts[(done + 1) + k])
  <2>1. k \in 1..l /\ k + 1 \in 1..l /\ (k + 1) - 1 = k /\ k - 1 \in 0..l - 1 /\ k \in 0..l - 1
        /\ (k - 1) + 1 = k
    BY <1>1
  <2>2. PICK at \in Nat, to \in Nat, t \in Texts :
          at = cut[k] /\ to = cut[k + 1] /\ t = texts[(done + 1) + k]
    <3>1. cut[k] \in Nat /\ cut[k + 1] \in Nat
      BY <1>3, <2>1
    <3>2. (done + 1) + k \in 1..Len(texts)
      BY <1>1
    <3> QED
      BY <3>1, <3>2
  <2>3. (done + 1) + k = done + (k + 1)
    OBVIOUS
  <2>4. Framed(b, at, to, t)
    BY <2>1, <2>2, <2>3 DEF Cuts, l
  <2>5. cat[k - 1] = at - p /\ cat[k] = to - p /\ p <= at /\ at \in 0..n /\ to \in 0..n
    BY <1>3, <2>1, <2>2
  <2>6. Framed(c, at - p, to - p, t)
    <3>1. Len(t) \in Nat
      BY LineBytes
    <3>2. \A i \in 1..n - p : c[i] = b[p + i]
      BY DEF p, Behind
    <3>3. to >= at + Len(t) + 1
      BY <2>4, <3>1 DEF Framed
    <3>4. \A i \in 1..Len(t) : (at - p) + i \in 1..n - p /\ p + ((at - p) + i) = at + i
      BY <1>2, <2>5, <3>1, <3>3
    <3>5. to - p \in 1..n - p /\ p + (to - p) = to
      BY <1>2, <2>5, <3>1, <3>3
    <3>6. to = at + Len(t) + 2 => (to - p) - 1 \in 1..n - p /\ p + ((to - p) - 1) = to - 1
      BY <1>2, <2>5, <3>1
    <3>7. \A i \in 1..Len(t) : c[(at - p) + i] = t[i]
      BY <2>4, <3>2, <3>4 DEF Framed
    <3>8. c[to - p] = LF
      BY <2>4, <3>2, <3>5 DEF Framed
    <3>9. to = at + Len(t) + 1 \/ (to = at + Len(t) + 2 /\ b[to - 1] = CR)
      BY <2>4 DEF Framed
    <3>10. to = at + Len(t) + 2 /\ b[to - 1] = CR => c[(to - p) - 1] = CR
      BY <3>2, <3>6
    <3>11. /\ to = at + Len(t) + 1 => to - p = (at - p) + Len(t) + 1
           /\ to = at + Len(t) + 2 => to - p = (at - p) + Len(t) + 2
      BY <1>2, <2>5, <3>1
    <3> QED
      BY <3>7, <3>8, <3>9, <3>10, <3>11 DEF Framed
  <2> QED
    BY <2>2, <2>5, <2>6
<1> HIDE DEF cat
<1>7. Len(c) = n - p
  BY DEF p, Behind
<1>8. cat \in [0..l - 1 -> 0..n - p]
  BY <1>4 DEF cat
<1>9. Cuts(cat, c, texts, done + 1)
  BY <1>1, <1>5, <1>6, <1>7 DEF Cuts
<1> QED
  BY <1>1, <1>7, <1>8, <1>9

Endings == {<<LF>>, <<CR, LF>>}

\* The lines of the miner, one after the other.
Outgoing(texts) == [i \in DOMAIN texts |-> Append(texts[i], LF)]

\* A text more to send.
LEMMA OutgoingNext ==
  ASSUME NEW q \in Seq(Texts), NEW t \in Texts
  PROVE  /\ FlattenSeq(Outgoing(Append(q, t))) = FlattenSeq(Outgoing(q)) \o Append(t, LF)
         /\ FlattenSeq(Outgoing(q)) \in Seq(LineByte)
<1> DEFINE n == Len(q)
<1>1. n \in Nat /\ DOMAIN q = 1..n /\ DOMAIN Append(q, t) = 1..n + 1
      /\ (\A i \in 1..n : Append(q, t)[i] = q[i]) /\ Append(q, t)[n + 1] = t
  OBVIOUS
<1>2. \A s \in Texts : Append(s, LF) \in Seq(LineByte)
  BY LineBytes
<1>3. Outgoing(q) \in [1..n -> Seq(LineByte)]
  BY <1>1, <1>2 DEF Outgoing
<1>4. Outgoing(q) \in Seq(Seq(LineByte)) /\ Len(Outgoing(q)) = n
  BY <1>1, <1>3, IsSeq
<1>5. Outgoing(Append(q, t)) = Append(Outgoing(q), Append(t, LF))
  <2> DEFINE a == Outgoing(Append(q, t))
             b == Append(Outgoing(q), Append(t, LF))
  <2>1. a \in [1..n + 1 -> Seq(LineByte)]
    <3>1. \A i \in 1..n + 1 : Append(q, t)[i] \in Texts
      OBVIOUS
    <3> QED
      BY <1>1, <1>2, <3>1 DEF Outgoing
  <2>2. b \in [1..n + 1 -> Seq(LineByte)]
    <3>1. b \in Seq(Seq(LineByte)) /\ Len(b) = n + 1
      BY <1>2, <1>4
    <3> HIDE DEF b, n
    <3> QED
      BY <3>1
  <2>3. ASSUME NEW i \in 1..n + 1 PROVE a[i] = b[i]
    <3>1. CASE i = n + 1
      BY <1>1, <1>4, <3>1 DEF Outgoing
    <3>2. CASE i # n + 1
      <4>1. i \in 1..n
        BY <1>1, <3>2
      <4>2. a[i] = Append(q[i], LF)
        BY <1>1, <4>1 DEF Outgoing
      <4>3. b[i] = Outgoing(q)[i]
        BY <1>4, <4>1
      <4> QED
        BY <1>1, <4>1, <4>2, <4>3 DEF Outgoing
    <3> QED
      BY <3>1, <3>2
  <2> HIDE DEF a, b
  <2>4. a = b
    BY <1>1, <2>1, <2>2, <2>3, SameSeq
  <2> QED
    BY <2>4 DEF a, b
<1>6. Append(t, LF) \in Seq(LineByte)
  BY <1>2
<1> QED
  BY <1>4, <1>5, <1>6, FlattenAppend

-----------------------------------------------------------------------------
(* The steps.                                                              *)

\* Nothing is sent, nothing has arrived.
LEMMA LinesInitially == LinesInit => LinesInv
<1> SUFFICES ASSUME LinesInit PROVE LinesInv
  OBVIOUS
<1> USE DEF LinesInit
<1>1. LinesTypeInv
  <2>1. <<>> \in Seq(LineByte) /\ <<>> \in Seq(Texts)
    OBVIOUS
  <2> QED
    BY <2>1, Zenon DEF LinesTypeInv
<1>2. IsPrefix(handled, from_pool)
  BY DEF IsPrefix
<1>3. \E cut \in [0..Left -> 0..Len(Pending)] : Cuts(cut, Pending, from_pool, Len(handled))
  <2>1. Left = 0 /\ Len(Pending) = 0 /\ Len(from_pool) - Len(handled) = 0
    BY DEF Left, Pending
  <2>2. [k \in 0..0 |-> 0] \in [0..Left -> 0..Len(Pending)]
    BY <2>1
  <2>3. Cuts([k \in 0..0 |-> 0], Pending, from_pool, Len(handled))
    BY <2>1 DEF Cuts
  <2> QED
    BY <2>2, <2>3
<1>4. LineEnds(buf) = {}
  BY DEF LineEnds
<1>5. wire_out \o unsent = FlattenSeq([i \in DOMAIN to_pool |-> Append(to_pool[i], LF)])
  <2>1. [i \in DOMAIN to_pool |-> Append(to_pool[i], LF)] = <<>>
    OBVIOUS
  <2>2. FlattenSeq(<<>>) = <<>>
    BY Zenon DEF FlattenSeq
  <2> QED
    BY <2>1, <2>2
<1> QED
  BY <1>1, <1>2, <1>3, <1>4, <1>5 DEF LinesInv

\* The lines of the pool while the read_loop does nothing to them.
CutInv == /\ IsPrefix(handled, from_pool)
          /\ \E cut \in [0..Left -> 0..Len(Pending)] : Cuts(cut, Pending, from_pool, Len(handled))

\* What a prefix is, place by place.
LEMMA PrefixIs ==
  ASSUME NEW s \in Seq(Texts), NEW t \in Seq(Texts)
  PROVE  IsPrefix(s, t) <=> Len(s) <= Len(t) /\ \A i \in 1..Len(s) : s[i] = t[i]
<1>1. Len(s) \in Nat /\ Len(t) \in Nat
  OBVIOUS
<1>2. SubSeq(s, 1, Len(s)) = s
  OBVIOUS
<1>3. ASSUME Len(s) <= Len(t)
      PROVE  SubSeq(t, 1, Len(s)) \in Seq(Texts) /\ Len(SubSeq(t, 1, Len(s))) = Len(s)
             /\ \A i \in 1..Len(s) : SubSeq(t, 1, Len(s))[i] = t[i]
  BY <1>1, <1>3
<1> QED
  BY <1>1, <1>2, <1>3 DEF IsPrefix

\* A line of the pool makes one more cut.
LEMMA PoolStep ==
  ASSUME LinesInv, NEW t \in Texts, NEW e \in Endings, PoolSends(t, e)
  PROVE  CutInv'
<1>1. /\ wire_in \in Seq(LineByte) /\ buf \in Seq(LineByte) /\ from_pool \in Seq(Texts) /\ handled \in Seq(Texts)
      /\ IsPrefix(handled, from_pool)
  BY DEF LinesInv, LinesTypeInv
<1>2. wire_in' = (wire_in \o t) \o e /\ from_pool' = Append(from_pool, t) /\ UNCHANGED <<buf, handled>>
  BY DEF PoolSends
<1>3. t \in Seq(LineByte) /\ e \in Seq(LineByte) /\ Len(t) \in Nat
  <2>1. <<LF>> \in Seq(LineByte) /\ <<CR, LF>> \in Seq(LineByte)
    BY LineBytes
  <2> QED
    BY <2>1, LineBytes DEF Endings
<1>4. Len(handled) <= Len(from_pool) /\ (\A i \in 1..Len(handled) : handled[i] = from_pool[i])
      /\ Len(handled) \in Nat /\ Len(from_pool) \in Nat
  BY <1>1, PrefixIs
<1>5. IsPrefix(handled', from_pool')
  <2>1. from_pool' \in Seq(Texts) /\ Len(from_pool') = Len(from_pool) + 1
        /\ \A i \in 1..Len(from_pool) : from_pool'[i] = from_pool[i]
    BY <1>1, <1>2
  <2>2. PICK u \in Seq(Texts), h \in Seq(Texts) : u = from_pool' /\ h = handled' /\ h = handled
    BY <1>1, <1>2, <2>1
  <2>3. Len(h) <= Len(u) /\ \A i \in 1..Len(h) : h[i] = u[i]
    BY <1>4, <2>1, <2>2
  <2>4. IsPrefix(h, u)
    BY <2>3, PrefixIs
  <2> QED
    BY <2>2, <2>4
<1>6. PICK cut \in [0..Left -> 0..Len(Pending)] : Cuts(cut, Pending, from_pool, Len(handled))
  BY DEF LinesInv
<1>6a. Pending' \in Seq(LineByte) /\ Pending \in Seq(LineByte) /\ Joined(Pending', Pending, t, e)
  <2>1. Pending' = buf \o ((wire_in \o t) \o e)
    BY <1>2 DEF Pending
  <2>2. Pending' \in Seq(LineByte) /\ Joined(Pending', Pending, t, e)
    BY <1>1, <1>3, <2>1, TwoBehind DEF Pending
  <2> QED
    BY <1>1, <2>2 DEF Pending
<1>6b. PICK n \in Nat, m \in Nat, b \in Seq(LineByte), c \in Seq(LineByte) :
         b = Pending /\ c = Pending' /\ Len(b) = n /\ Len(c) = m
  <2>1. Len(Pending) \in Nat /\ Len(Pending') \in Nat
    BY <1>6a
  <2> QED
    BY <1>6a, <2>1, Zenon
<1>7. /\ b = Pending /\ c = Pending' /\ Len(b) = n /\ Len(c) = m
      /\ m = n + Len(t) + Len(e) /\ BeginsWith(c, b, n)
      /\ \A i \in 1..Len(t) : c[n + i] = t[i]
      /\ \A i \in 1..Len(e) : c[n + Len(t) + i] = e[i]
  BY <1>6a, <1>6b DEF Joined, BeginsWith
<1>8. Framed(c, n, m, t)
  <2>1. CASE e = <<LF>>
    <3>1. Len(e) = 1 /\ e[1] = LF
      BY <2>1
    <3>2. m = n + Len(t) + 1 /\ c[n + Len(t) + 1] = LF
      BY <1>7, <3>1
    <3> QED
      BY <1>7, <3>2 DEF Framed
  <2>2. CASE e = <<CR, LF>>
    <3>1. Len(e) = 2 /\ e[1] = CR /\ e[2] = LF
      BY <2>2
    <3>2. m = n + Len(t) + 2 /\ c[n + Len(t) + 1] = CR /\ c[n + Len(t) + 2] = LF
      BY <1>7, <3>1
    <3>3. m - 1 = n + Len(t) + 1
      BY <1>3, <3>2
    <3> QED
      BY <1>7, <3>2, <3>3 DEF Framed
  <2> QED
    BY <2>1, <2>2 DEF Endings
<1>9. PICK done \in 0..Len(from_pool) : done = Len(handled)
  BY <1>4
<1>10. cut \in [0..Len(from_pool) - done -> 0..n] /\ Cuts(cut, b, from_pool, done) /\ m >= n
  <2>1. Len(e) \in Nat
    BY <1>3
  <2> QED
    BY <1>3, <1>6, <1>7, <1>9, <2>1 DEF Left
<1>11. \E cat \in [0..Len(Append(from_pool, t)) - done -> 0..m] : Cuts(cat, c, Append(from_pool, t), done)
  <2>1. from_pool \in Seq(Texts)
    BY <1>1
  <2>2. Len(b) = n /\ Len(c) = m /\ BeginsWith(c, b, n)
    BY <1>7
  <2> QED
    BY <1>8, <1>10, <2>1, <2>2, CutsGrow, Zenon
<1>12. /\ handled' = handled /\ from_pool' = Append(from_pool, t)
       /\ IsPrefix(handled', from_pool')
  BY <1>2, <1>5
<1>13. /\ Left' = Len(Append(from_pool, t)) - done /\ Len(Pending') = m
       /\ Pending' = c /\ Len(handled') = done
  BY <1>7, <1>9, <1>12 DEF Left
<1>14. \E cat \in [0..Left' -> 0..Len(Pending')] : Cuts(cat, Pending', from_pool', Len(handled'))
  BY <1>11, <1>12, <1>13, Zenon
<1> QED
  BY <1>12, <1>14 DEF CutInv

\* The first and the last elements of a sequence.
LEMMA HeadIs ==
  ASSUME NEW S, NEW v \in Seq(S), NEW n \in Nat, n <= Len(v)
  PROVE  SubSeq(v, 1, n) \in [1..n -> S] /\ Holds(v, 0, SubSeq(v, 1, n), n)
<1>1. PICK o \in Nat : o = 0
  OBVIOUS
<1>2. o + n <= Len(v)
  BY <1>1
<1>3. SubSeq(v, o + 1, o + n) \in [1..n -> S] /\ Holds(v, o, SubSeq(v, o + 1, o + n), n)
  BY <1>2, SubSeqHolds
<1>4. o + 1 = 1 /\ o + n = n
  BY <1>1
<1> QED
  BY <1>1, <1>3, <1>4

\* What is behind a place of a sequence.
LEMMA TailIs ==
  ASSUME NEW S, NEW v \in Seq(S), NEW o \in Nat, NEW n \in Nat, o + n = Len(v)
  PROVE  SubSeq(v, o + 1, Len(v)) \in [1..n -> S] /\ Holds(v, o, SubSeq(v, o + 1, Len(v)), n)
<1>1. o + n <= Len(v)
  OBVIOUS
<1>2. SubSeq(v, o + 1, o + n) \in [1..n -> S] /\ Holds(v, o, SubSeq(v, o + 1, o + n), n)
  BY <1>1, SubSeqHolds
<1> QED
  BY <1>2

\* The first cut is the first LF of the buffer: the line in front of it is
\* the next one the pool has sent, and the other cuts move by its length.
LEMMA TakeStep ==
  ASSUME LinesInv, TakeLine
  PROVE  CutInv' /\ handled' \in Seq(Texts) /\ buf' \in Seq(LineByte)
<1>1. /\ wire_in \in Seq(LineByte) /\ buf \in Seq(LineByte) /\ from_pool \in Seq(Texts) /\ handled \in Seq(Texts)
      /\ IsPrefix(handled, from_pool)
  BY DEF LinesInv, LinesTypeInv
<1>2. Len(handled) <= Len(from_pool) /\ (\A i \in 1..Len(handled) : handled[i] = from_pool[i])
      /\ Len(handled) \in Nat /\ Len(from_pool) \in Nat
  BY <1>1, PrefixIs
<1>3. PICK cut \in [0..Left -> 0..Len(Pending)] : Cuts(cut, Pending, from_pool, Len(handled))
  BY DEF LinesInv
<1>4. PICK n \in Nat, b \in Seq(LineByte), done \in 0..Len(from_pool) :
        b = Pending /\ Len(b) = n /\ done = Len(handled)
  <2>1. Pending \in Seq(LineByte) /\ Len(Pending) \in Nat
    BY <1>1 DEF Pending
  <2> QED
    BY <1>2, <2>1
<1>5. cut \in [0..Len(from_pool) - done -> 0..n] /\ Cuts(cut, b, from_pool, done)
  BY <1>3, <1>4 DEF Left
<1>6. \A i \in 1..n : b[i] = LF <=> \E k \in 1..Len(from_pool) - done : i = cut[k]
  <2>1. EndsAt(b, n, cut, Len(from_pool) - done)
    BY <1>1, <1>4, <1>5, EndsAreCuts
  <2> QED
    BY <2>1 DEF EndsAt
<1>7. /\ Len(buf) \in Nat /\ Len(wire_in) \in Nat /\ n = Len(buf) + Len(wire_in)
      /\ (\A i \in 1..Len(buf) : b[i] = buf[i])
      /\ \A i \in 1..Len(wire_in) : b[Len(buf) + i] = wire_in[i]
  BY <1>1, <1>4 DEF Pending
<1>8. PICK x \in 1..Len(buf) : buf[x] = LF
  BY <1>1 DEF TakeLine, LineEnds
<1>9. PICK k \in 1..Len(from_pool) - done : x = cut[k]
  <2>1. x \in 1..n /\ b[x] = LF
    BY <1>7, <1>8
  <2> QED
    BY <1>6, <2>1
<1>10. done < Len(from_pool) /\ 1 \in 1..Len(from_pool) - done /\ 1 \in 0..Len(from_pool) - done
       /\ k \in 0..Len(from_pool) - done /\ 0 \in 0..Len(from_pool) - done
  BY <1>2
<1>11. PICK p \in Nat : p = cut[1] /\ p \in 0..n
  <2>1. PICK l \in Nat : l = Len(from_pool) - done
    BY <1>2
  <2>2. cut \in [0..l -> 0..n] /\ 1 \in 0..l
    BY <1>5, <1>10, <2>1
  <2>3. cut[1] \in 0..n
    BY <2>2
  <2> QED
    BY <2>3
<1>12. cut[0] = 0 /\ cut[1 - 1] = 0
  BY <1>5 DEF Cuts
<1>13. /\ 0 < p /\ b[p] = LF
       /\ \A i \in Nat : 0 < i /\ i < p => b[i] # LF
  <2>1. Rise(cut, b, Len(from_pool) - done)
    BY <1>1, <1>5, CutsRise
  <2> QED
    BY <1>10, <1>11, <1>12, <2>1 DEF Rise
<1>14. p <= x
  <2>1. 1 < k => cut[1] < cut[k]
    <3>1. 1 \in 0..k
      OBVIOUS
    <3> QED
      BY <1>1, <1>5, <1>10, <3>1, CutsOrdered DEF Ordered
  <2>2. CASE k = 1
    BY <1>9, <1>11, <2>2
  <2>3. CASE k # 1
    <3>1. 1 < k
      BY <2>3
    <3> QED
      BY <1>9, <1>11, <2>1, <3>1
  <2> QED
    BY <2>2, <2>3
<1>15. p \in 1..Len(buf) /\ p \in 1..n
  BY <1>7, <1>8, <1>11, <1>13, <1>14
<1>16. Min(LineEnds(buf)) = p
  <2>1. LineEnds(buf) = {i \in 1..Len(buf) : buf[i] = LF}
    BY <1>1 DEF LineEnds
  <2>2. p \in LineEnds(buf)
    BY <1>7, <1>13, <1>15, <2>1
  <2>3. \A i \in LineEnds(buf) : p <= i
    BY <1>7, <1>13, <1>15, <2>1
  <2>4. \A i \in LineEnds(buf) : i \in Nat
    BY <2>1
  <2>5. \A q \in LineEnds(buf) : (\A i \in LineEnds(buf) : q <= i) => q = p
    BY <2>2, <2>3, <2>4
  <2> HIDE <2>1
  <2> QED
    BY <2>2, <2>3, <2>5, Zenon DEF Min
<1>17. /\ handled' = Append(handled, WithoutCR(SubSeq(buf, 1, p - 1)))
       /\ buf' = SubSeq(buf, p + 1, Len(buf)) /\ UNCHANGED <<wire_in, from_pool>>
  BY <1>16 DEF TakeLine, Rest, senderVars
<1>18. PICK t \in Texts : t = from_pool[done + 1]
  BY <1>1, <1>10
<1>19. Framed(b, 0, p, t)
  BY <1>5, <1>10, <1>11, <1>12, <1>18 DEF Cuts
<1>20. handled' = Append(handled, t)
  <2>1. WithoutCR(SubSeq(b, 1, p - 1)) = t
    BY <1>4, <1>15, <1>19, FirstText
  <2>2. SubSeq(buf, 1, p - 1) = SubSeq(b, 1, p - 1)
    <3>1. /\ SubSeq(buf, 1, p - 1) \in [1..p - 1 -> LineByte] /\ SubSeq(b, 1, p - 1) \in [1..p - 1 -> LineByte]
          /\ \A i \in 1..p - 1 : SubSeq(buf, 1, p - 1)[i] = SubSeq(b, 1, p - 1)[i]
      <4>1. \A i \in 1..p - 1 : i \in 1..Len(buf) /\ i \in 1..n
        BY <1>7, <1>15
      <4>2. PICK m \in Nat : m = p - 1 /\ m <= Len(buf) /\ m <= Len(b)
        BY <1>4, <1>7, <1>15
      <4>3. /\ SubSeq(buf, 1, m) \in [1..m -> LineByte] /\ Holds(buf, 0, SubSeq(buf, 1, m), m)
            /\ SubSeq(b, 1, m) \in [1..m -> LineByte] /\ Holds(b, 0, SubSeq(b, 1, m), m)
        BY <1>1, <1>4, <4>2, HeadIs
      <4>4. \A i \in 1..m : SubSeq(buf, 1, m)[i] = buf[i] /\ SubSeq(b, 1, m)[i] = b[i]
        BY <4>3 DEF Holds
      <4> QED
        BY <1>7, <4>1, <4>2, <4>3, <4>4
    <3>2. p - 1 \in Nat
      BY <1>15
    <3> QED
      BY <3>1, <3>2, SameSeq
  <2> QED
    BY <1>17, <2>1, <2>2
<1>21. IsPrefix(handled', from_pool')
  <2>1. PICK h \in Seq(Texts) : h = handled'
    <3>1. Append(handled, t) \in Seq(Texts)
      BY <1>1
    <3> QED
      BY <1>20, <3>1
  <2>2. Len(h) = Len(handled) + 1 /\ (\A i \in 1..Len(handled) : h[i] = handled[i]) /\ h[Len(handled) + 1] = t
    BY <1>1, <1>20, <2>1
  <2>3. Len(h) <= Len(from_pool) /\ \A i \in 1..Len(h) : h[i] = from_pool[i]
    BY <1>2, <1>4, <1>10, <1>18, <2>2
  <2>4. IsPrefix(h, from_pool)
    BY <1>1, <2>3, PrefixIs
  <2> QED
    BY <1>17, <2>1, <2>4
<1>22. PICK c \in Seq(LineByte) : c = Pending' /\ Len(c) = n - p /\ \A i \in 1..n - p : c[i] = b[p + i]
  <2>1. PICK z \in Nat, l \in Nat, a \in Seq(LineByte), w \in [1..Len(wire_in) -> LineByte] :
          /\ a = buf /\ z = Len(buf) /\ w = wire_in /\ l = Len(wire_in) /\ Len(a) = z
          /\ w \in [1..l -> LineByte]
    <3>1. wire_in \in [1..Len(wire_in) -> LineByte] /\ Len(wire_in) \in Nat /\ Len(buf) \in Nat
          /\ buf \in Seq(LineByte)
      BY <1>1, IsFun
    <3> QED
      BY <3>1, Zenon
  <2>2. PICK m \in Nat : m = z - p /\ p + m = z
    <3>0. p \in 1..z
      BY <1>15, <2>1, Zenon
    <3>1. z - p \in Nat /\ p + (z - p) = z
      BY <3>0
    <3> QED
      BY <3>1
  <2>3. PICK r \in [1..m -> LineByte] : r = buf' /\ Holds(a, p, r, m)
    <3>1. SubSeq(a, p + 1, Len(a)) \in [1..m -> LineByte] /\ Holds(a, p, SubSeq(a, p + 1, Len(a)), m)
      BY <2>1, <2>2, TailIs
    <3> QED
      BY <1>17, <2>1, <3>1
  <2>4. PICK c \in [1..m + l -> LineByte] : c = Pending' /\ Holds(c, 0, r, m) /\ Holds(c, m, w, l)
    <3>1. r \o w \in [1..m + l -> LineByte] /\ Holds(r \o w, 0, r, m) /\ Holds(r \o w, m, w, l)
      BY <2>1, Concat
    <3> QED
      BY <1>17, <2>1, <2>3, <3>1 DEF Pending
  <2>5. p \in 1..z /\ n = z + l /\ (\A i \in 1..z : b[i] = a[i]) /\ \A i \in 1..l : b[z + i] = w[i]
    BY <1>7, <1>15, <2>1
  <2>6. m + l = n - p
    BY <2>2, <2>5
  <2>7. ASSUME NEW i \in 1..m + l PROVE c[i] = b[p + i]
    <3>1. CASE i <= m
      <4>1. i \in 1..m /\ p + i \in 1..z /\ 0 + i = i
        BY <2>2, <3>1
      <4>2. c[i] = r[i] /\ r[i] = a[p + i] /\ b[p + i] = a[p + i]
        BY <2>3, <2>4, <2>5, <4>1 DEF Holds
      <4> QED
        BY <4>2
    <3>2. CASE i > m
      <4>1. PICK j \in 1..l : i = m + j /\ p + i = z + j
        <5>1. i \in Nat /\ i <= m + l
          OBVIOUS
        <5>2. i - m \in 1..l /\ i = m + (i - m)
          BY <3>2, <5>1
        <5>3. p + i = (p + m) + (i - m)
          BY <5>1
        <5> QED
          BY <2>2, <5>2, <5>3
      <4>2. c[m + j] = w[j] /\ b[z + j] = w[j]
        BY <2>4, <2>5, <4>1 DEF Holds
      <4> QED
        BY <4>1, <4>2
    <3> QED
      BY <3>1, <3>2
  <2>8. c \in Seq(LineByte) /\ Len(c) = m + l
    <3>1. m + l \in Nat
      OBVIOUS
    <3> QED
      BY <3>1, IsSeq
  <2>9. Len(c) = n - p /\ \A i \in 1..n - p : c[i] = b[p + i]
    BY <2>6, <2>7, <2>8
  <2> QED
    BY <2>4, <2>8, <2>9, Zenon
<1>23. \E cat \in [0..Len(from_pool) - (done + 1) -> 0..Len(c)] : Cuts(cat, c, from_pool, done + 1)
  <2>1. Behind(c, b, cut[1], n)
    BY <1>11, <1>22 DEF Behind
  <2> QED
    BY <1>1, <1>4, <1>5, <1>10, <2>1, CutsShift
<1>24. Len(handled') = done + 1 /\ handled' \in Seq(Texts)
  BY <1>1, <1>4, <1>20
<1>25. SubSeq(buf, p + 1, Len(buf)) \in Seq(LineByte)
  BY <1>1, <1>15
<1> QED
  BY <1>17, <1>21, <1>22, <1>23, <1>24, <1>25 DEF CutInv, Left

\* A sequence is its first part and the rest.
LEMMA PartAndRest ==
  ASSUME NEW S, NEW v \in Seq(S), NEW n \in Nat, n <= Len(v)
  PROVE  /\ SubSeq(v, 1, n) \in Seq(S) /\ SubSeq(v, n + 1, Len(v)) \in Seq(S)
         /\ SubSeq(v, 1, n) \o SubSeq(v, n + 1, Len(v)) = v
<1>1. SubSeq(v, 1, n) \in Seq(S) /\ SubSeq(v, n + 1, Len(v)) \in Seq(S)
  <2>1. \A i \in 1..Len(v) : v[i] \in S
    OBVIOUS
  <2>2. SubSeq(v, 1, n) \in Seq(S)
    BY <2>1
  <2>3. SubSeq(v, n + 1, Len(v)) \in Seq(S)
    BY <2>1
  <2> QED
    BY <2>2, <2>3
<1>2. PICK m \in Nat : n + m = Len(v)
  <2>1. Len(v) - n \in Nat /\ n + (Len(v) - n) = Len(v)
    OBVIOUS
  <2> QED
    BY <2>1
<1>3. PICK a \in [1..n -> S] : a = SubSeq(v, 1, n) /\ Holds(v, 0, a, n)
  BY HeadIs
<1>4. PICK b \in [1..m -> S] : b = SubSeq(v, n + 1, Len(v)) /\ Holds(v, n, b, m)
  BY <1>2, TailIs
<1>5. a \o b \in [1..n + m -> S] /\ Holds(a \o b, 0, a, n) /\ Holds(a \o b, n, b, m)
  BY Concat
<1>6. v \in [1..n + m -> S]
  BY <1>2, IsFun
<1>7. ASSUME NEW i \in 1..n + m PROVE (a \o b)[i] = v[i]
  <2>1. CASE i <= n
    <3>1. i \in 1..n /\ 0 + i = i
      BY <2>1
    <3> QED
      BY <1>3, <1>5, <3>1 DEF Holds
  <2>2. CASE i > n
    <3>1. PICK j \in 1..m : i = n + j
      <4>1. i \in Nat /\ i <= n + m
        OBVIOUS
      <4>2. i - n \in 1..m /\ i = n + (i - n)
        BY <2>2, <4>1
      <4> QED
        BY <4>2
    <3> QED
      BY <1>4, <1>5, <3>1 DEF Holds
  <2> QED
    BY <2>1, <2>2
<1>8. a \o b = v
  <2>1. n + m \in Nat
    OBVIOUS
  <2>2. PICK c \in [1..n + m -> S] : c = a \o b
    BY <1>5
  <2> QED
    BY <1>6, <1>7, <2>1, <2>2, SameSeq
<1> QED
  BY <1>1, <1>3, <1>4, <1>8

\* Where a sequence is cut does not matter.
LEMMA Regrouped ==
  ASSUME NEW S, NEW a \in Seq(S), NEW b \in Seq(S), NEW c \in Seq(S)
  PROVE  (a \o b) \o c = a \o (b \o c)
  OBVIOUS

\* What is received was on its way.
LEMMA RecvStep ==
  ASSUME LinesInv, NEW n \in 1..TmpSize, Recv(n)
  PROVE  CutInv' /\ buf' \in Seq(LineByte) /\ wire_in' \in Seq(LineByte)
<1>1. wire_in \in Seq(LineByte) /\ buf \in Seq(LineByte) /\ Len(wire_in) \in Nat
  BY DEF LinesInv, LinesTypeInv
<1>2. n \in Nat /\ n <= Len(wire_in)
  <2>1. Min({Len(wire_in), TmpSize}) <= Len(wire_in) /\ Min({Len(wire_in), TmpSize}) \in Int
    <3>1. Len(wire_in) \in Int /\ TmpSize \in Int
      BY <1>1, TextsAssumption
    <3> QED
      BY <3>1, MinOfTwo
  <2> QED
    BY <1>1, <2>1, TextsAssumption DEF Recv
<1>3. PICK a \in Seq(LineByte), b \in Seq(LineByte) :
        a = SubSeq(wire_in, 1, n) /\ b = SubSeq(wire_in, n + 1, Len(wire_in)) /\ a \o b = wire_in
  <2>1. /\ SubSeq(wire_in, 1, n) \in Seq(LineByte) /\ SubSeq(wire_in, n + 1, Len(wire_in)) \in Seq(LineByte)
        /\ SubSeq(wire_in, 1, n) \o SubSeq(wire_in, n + 1, Len(wire_in)) = wire_in
    BY <1>1, <1>2, PartAndRest
  <2> QED
    BY <2>1, Zenon
<1>4. buf' = buf \o a /\ wire_in' = b /\ UNCHANGED <<handled, from_pool>>
  BY <1>3 DEF Recv, senderVars
<1>5. Pending' = Pending
  <2>0. PICK v \in Seq(LineByte) : v = buf
    BY <1>1
  <2>1. (v \o a) \o b = v \o (a \o b)
    BY Regrouped
  <2> QED
    BY <1>3, <1>4, <2>0, <2>1, Zenon DEF Pending
<1>6. CutInv
  BY DEF LinesInv, CutInv
<1>7. CutInv'
  <2>1. Left' = Left
    BY <1>4 DEF Left
  <2> QED
    BY <1>4, <1>5, <1>6, <2>1 DEF CutInv
<1>8. buf \o a \in Seq(LineByte)
  BY <1>1
<1> QED
  BY <1>4, <1>7, <1>8

\* What the miner sends.
OutInv == ~failed => wire_out \o unsent = FlattenSeq(Outgoing(to_pool))

\* What was sent and what is left of the line make up the lines.
LEMMA SenderStep ==
  ASSUME LinesInv,
         \/ \E t \in Texts : StartLine(t)
         \/ \E n \in 1..Len(unsent) : Send(n)
         \/ SendLineFails
  PROVE  /\ OutInv' /\ to_pool' \in Seq(Texts) /\ failed' \in BOOLEAN
         /\ unsent' \in Seq(LineByte) /\ wire_out' \in Seq(LineByte)
<1>1. /\ unsent \in Seq(LineByte) /\ wire_out \in Seq(LineByte) /\ to_pool \in Seq(Texts) /\ failed \in BOOLEAN
      /\ OutInv
  BY DEF LinesInv, LinesTypeInv, OutInv, Outgoing
<1>2. CASE \E t \in Texts : StartLine(t)
  <2>1. PICK t \in Texts : StartLine(t)
    BY <1>2
  <2>2. unsent = <<>> /\ unsent' = Append(t, LF) /\ to_pool' = Append(to_pool, t)
        /\ wire_out' = wire_out /\ failed' = failed
    BY <2>1 DEF StartLine
  <2>3. Append(t, LF) \in Seq(LineByte)
    BY LineBytes
  <2>4. to_pool' \in Seq(Texts)
    BY <1>1, <2>2
  <2>5. OutInv'
    <3>1. FlattenSeq(Outgoing(to_pool')) = FlattenSeq(Outgoing(to_pool)) \o Append(t, LF)
      BY <1>1, <2>2, OutgoingNext
    <3>2. wire_out \o <<>> = wire_out
      BY <1>1
    <3>3. ~failed => wire_out' \o unsent' = FlattenSeq(Outgoing(to_pool'))
      BY <1>1, <2>2, <3>1, <3>2 DEF OutInv
    <3> QED
      BY <2>2, <3>3 DEF OutInv
  <2> QED
    BY <1>1, <2>2, <2>3, <2>4, <2>5
<1>3. CASE \E n \in 1..Len(unsent) : Send(n)
  <2>1. PICK n \in 1..Len(unsent) : Send(n)
    BY <1>3
  <2>2. PICK a \in Seq(LineByte), b \in Seq(LineByte) :
          a = SubSeq(unsent, 1, n) /\ b = SubSeq(unsent, n + 1, Len(unsent)) /\ a \o b = unsent
    <3>1. n \in Nat /\ n <= Len(unsent)
      BY <1>1
    <3>2. /\ SubSeq(unsent, 1, n) \in Seq(LineByte) /\ SubSeq(unsent, n + 1, Len(unsent)) \in Seq(LineByte)
          /\ SubSeq(unsent, 1, n) \o SubSeq(unsent, n + 1, Len(unsent)) = unsent
      BY <1>1, <3>1, PartAndRest
    <3> QED
      BY <3>2, Zenon
  <2>3. wire_out' = wire_out \o a /\ unsent' = b /\ to_pool' = to_pool /\ failed' = failed
    BY <2>1, <2>2 DEF Send
  <2>4. wire_out' \o unsent' = wire_out \o unsent
    <3>0. PICK v \in Seq(LineByte) : v = wire_out
      BY <1>1
    <3>1. (v \o a) \o b = v \o (a \o b)
      BY Regrouped
    <3> QED
      BY <2>2, <2>3, <3>0, <3>1, Zenon
  <2>5. OutInv'
    BY <1>1, <2>3, <2>4 DEF OutInv
  <2>6. wire_out \o a \in Seq(LineByte)
    BY <1>1
  <2> QED
    BY <1>1, <2>3, <2>5, <2>6
<1>4. CASE SendLineFails
  <2>1. unsent' = <<>> /\ failed' = TRUE /\ wire_out' = wire_out /\ to_pool' = to_pool
    BY <1>4 DEF SendLineFails
  <2>2. OutInv'
    BY <2>1 DEF OutInv
  <2>3. <<>> \in Seq(LineByte)
    OBVIOUS
  <2> QED
    BY <1>1, <2>1, <2>2, <2>3
<1> QED
  BY <1>2, <1>3, <1>4

\* The parts of the invariant.
LinesParts == /\ LinesTypeInv /\ CutInv /\ OutInv
              /\ read_loop = "recv" => LineEnds(buf) = {}

\* The invariant by the names of its parts.
LEMMA InParts == LinesInv <=> LinesParts
  BY DEF LinesInv, LinesParts, CutInv, OutInv, Outgoing

\* Every step of both sides keeps the invariant.
LEMMA LinesStep ==
  ASSUME LinesInv, LinesNext
  PROVE  LinesInv'
<1>0. LinesTypeInv /\ CutInv /\ OutInv /\ (read_loop = "recv" => LineEnds(buf) = {})
  BY InParts DEF LinesParts
<1>1. SUFFICES LinesParts'
  BY DEF LinesInv, LinesParts, CutInv, OutInv, Outgoing
<1>2. ASSUME UNCHANGED readerVars
      PROVE  /\ CutInv' /\ (read_loop' = "recv" => LineEnds(buf') = {})
             /\ wire_in' \in Seq(LineByte) /\ buf' \in Seq(LineByte) /\ handled' \in Seq(Texts)
             /\ from_pool' \in Seq(Texts) /\ read_loop' \in {"recv", "lines", "ended"}
  <2>1. /\ wire_in' = wire_in /\ buf' = buf /\ read_loop' = read_loop
        /\ handled' = handled /\ from_pool' = from_pool
    BY <1>2 DEF readerVars
  <2>2. Pending' = Pending /\ Left' = Left
    BY <2>1 DEF Pending, Left
  <2>3. CutInv'
    BY <1>0, <2>1, <2>2 DEF CutInv
  <2> QED
    BY <1>0, <2>1, <2>3 DEF LinesTypeInv
<1>3. ASSUME UNCHANGED senderVars
      PROVE  /\ OutInv' /\ unsent' \in Seq(LineByte) /\ wire_out' \in Seq(LineByte)
             /\ to_pool' \in Seq(Texts) /\ failed' \in BOOLEAN
  <2>1. unsent' = unsent /\ wire_out' = wire_out /\ to_pool' = to_pool /\ failed' = failed
    BY <1>3 DEF senderVars
  <2>2. OutInv'
    BY <1>0, <2>1 DEF OutInv
  <2> QED
    BY <1>0, <2>1, <2>2 DEF LinesTypeInv
<1>4. ASSUME NEW t \in Texts, NEW e \in {<<LF>>, <<CR, LF>>}, PoolSends(t, e) PROVE LinesParts'
  <2>1. CutInv'
    BY <1>4, PoolStep DEF Endings
  <2>2. wire_in' = (wire_in \o t) \o e /\ from_pool' = Append(from_pool, t)
        /\ buf' = buf /\ read_loop' = read_loop /\ handled' = handled /\ UNCHANGED senderVars
    BY <1>4 DEF PoolSends
  <2>3. t \in Seq(LineByte) /\ e \in Seq(LineByte)
    <3>1. <<LF>> \in Seq(LineByte) /\ <<CR, LF>> \in Seq(LineByte)
      BY LineBytes
    <3> QED
      BY <3>1, LineBytes
  <2>4. wire_in' \in Seq(LineByte)
    BY <1>0, <2>2, <2>3 DEF LinesTypeInv
  <2>5. from_pool' \in Seq(Texts)
    BY <1>0, <2>2 DEF LinesTypeInv
  <2>6. LinesTypeInv'
    BY <1>0, <1>3, <2>2, <2>4, <2>5 DEF LinesTypeInv
  <2>7. read_loop' = "recv" => LineEnds(buf)' = {}
    BY <1>0, <2>2 DEF LineEnds
  <2> QED
    BY <1>3, <2>1, <2>2, <2>6, <2>7 DEF LinesParts
<1>5. ASSUME NEW n \in 1..TmpSize, Recv(n) PROVE LinesParts'
  <2>1. CutInv' /\ buf' \in Seq(LineByte) /\ wire_in' \in Seq(LineByte)
    BY <1>5, RecvStep
  <2>2. read_loop' = "lines" /\ handled' = handled /\ from_pool' = from_pool /\ UNCHANGED senderVars
    BY <1>5 DEF Recv
  <2>3. LinesTypeInv'
    BY <1>0, <1>3, <2>1, <2>2 DEF LinesTypeInv
  <2> QED
    BY <1>3, <2>1, <2>2, <2>3 DEF LinesParts
<1>6. ASSUME TakeLine PROVE LinesParts'
  <2>1. CutInv'
    BY <1>6, TakeStep
  <2>2. /\ handled' = Append(handled, WithoutCR(SubSeq(buf, 1, Min(LineEnds(buf)) - 1)))
        /\ buf' = SubSeq(buf, Min(LineEnds(buf)) + 1, Len(buf))
        /\ read_loop = "lines" /\ UNCHANGED <<wire_in, read_loop, from_pool>> /\ UNCHANGED senderVars
    BY <1>6 DEF TakeLine, Rest
  <2>3. handled' \in Seq(Texts)
    BY <1>6, TakeStep
  <2>4. buf' \in Seq(LineByte)
    BY <1>6, TakeStep
  <2>5. LinesTypeInv'
    BY <1>0, <1>3, <2>2, <2>3, <2>4 DEF LinesTypeInv
  <2> QED
    BY <1>3, <2>1, <2>2, <2>5 DEF LinesParts
<1>7. CASE NoMoreLines
  <2>1. LineEnds(buf) = {} /\ read_loop' = "recv" /\ buf' = buf
        /\ UNCHANGED <<wire_in, handled, from_pool>> /\ UNCHANGED senderVars
    BY <1>7 DEF NoMoreLines
  <2>2. Pending' = Pending /\ Left' = Left
    BY <2>1 DEF Pending, Left
  <2>3. CutInv'
    BY <1>0, <2>1, <2>2 DEF CutInv
  <2>4. LinesTypeInv'
    BY <1>0, <1>3, <2>1 DEF LinesTypeInv
  <2>5. LineEnds(buf)' = {}
    BY <2>1 DEF LineEnds
  <2> QED
    BY <1>3, <2>1, <2>3, <2>4, <2>5 DEF LinesParts
<1>8. CASE ConnectionEnds
  <2>1. read_loop' = "ended" /\ UNCHANGED <<wire_in, buf, handled, from_pool>> /\ UNCHANGED senderVars
    BY <1>8 DEF ConnectionEnds
  <2>2. Pending' = Pending /\ Left' = Left
    BY <2>1 DEF Pending, Left
  <2>3. CutInv'
    BY <1>0, <2>1, <2>2 DEF CutInv
  <2>4. LinesTypeInv'
    BY <1>0, <1>3, <2>1 DEF LinesTypeInv
  <2> QED
    BY <1>3, <2>1, <2>3, <2>4 DEF LinesParts
<1>9. CASE (\E t \in Texts : StartLine(t)) \/ (\E n \in 1..Len(unsent) : Send(n)) \/ SendLineFails
  <2>1. UNCHANGED readerVars
    BY <1>9 DEF StartLine, Send, SendLineFails
  <2>2. /\ OutInv' /\ to_pool' \in Seq(Texts) /\ failed' \in BOOLEAN
        /\ unsent' \in Seq(LineByte) /\ wire_out' \in Seq(LineByte)
    BY <1>9, SenderStep
  <2>3. LinesTypeInv'
    BY <1>2, <2>1, <2>2 DEF LinesTypeInv
  <2>4. read_loop' = "recv" => LineEnds(buf)' = {}
    BY <1>2, <2>1 DEF LineEnds
  <2> QED
    BY <1>2, <2>1, <2>2, <2>3, <2>4 DEF LinesParts
<1>10. CASE LinesDone
  <2>1. UNCHANGED readerVars /\ UNCHANGED senderVars
    BY <1>10 DEF LinesDone, linesVars, readerVars, senderVars
  <2>2. LinesTypeInv'
    BY <1>2, <1>3, <2>1 DEF LinesTypeInv
  <2>3. read_loop' = "recv" => LineEnds(buf)' = {}
    BY <1>2, <2>1 DEF LineEnds
  <2> QED
    BY <1>2, <1>3, <2>1, <2>2, <2>3 DEF LinesParts
<1> QED
  BY <1>4, <1>5, <1>6, <1>7, <1>8, <1>9, <1>10 DEF LinesNext

\* Whatever portions the operating system delivers and takes: there are places
\* that cut what has arrived and is on its way into the lines not handled yet
\* (StratumClient::read_loop), and send_line has sent whole lines and the front
\* of the last.
THEOREM LinesInvariance == LinesSpec => []LinesInv
<1>1. ASSUME LinesInv, UNCHANGED linesVars PROVE LinesInv'
  <2>1. /\ wire_in' = wire_in /\ buf' = buf /\ read_loop' = read_loop /\ handled' = handled
        /\ from_pool' = from_pool /\ unsent' = unsent /\ wire_out' = wire_out
        /\ to_pool' = to_pool /\ failed' = failed
    BY <1>1 DEF linesVars
  <2>2. Pending' = Pending /\ Left' = Left /\ LineEnds(buf)' = LineEnds(buf)
    BY <2>1 DEF Pending, Left, LineEnds
  <2>3. LinesTypeInv'
    BY <1>1, <2>1 DEF LinesInv, LinesTypeInv
  <2>4. CutInv'
    BY <1>1, <2>1, <2>2 DEF LinesInv, CutInv
  <2>5. OutInv'
    BY <1>1, <2>1 DEF LinesInv, OutInv, Outgoing
  <2> QED
    BY <1>1, <2>1, <2>2, <2>3, <2>4, <2>5 DEF LinesInv, CutInv, OutInv, Outgoing
<1> QED
  BY LinesInitially, LinesStep, <1>1, PTL DEF LinesSpec

\* When no line waits in the buffer, the lines on their way are those not handled.
LEMMA OnTheirWay ==
  ASSUME LinesInv, LineEnds(buf) = {}
  PROVE  Cardinality(LineEnds(wire_in)) = Left
<1>1. /\ wire_in \in Seq(LineByte) /\ buf \in Seq(LineByte) /\ from_pool \in Seq(Texts) /\ handled \in Seq(Texts)
      /\ IsPrefix(handled, from_pool)
  BY DEF LinesInv, LinesTypeInv
<1>2. PICK cut \in [0..Left -> 0..Len(Pending)] : Cuts(cut, Pending, from_pool, Len(handled))
  BY DEF LinesInv
<1>3. PICK n \in Nat, b \in Seq(LineByte), done \in 0..Len(from_pool), l \in Nat, m \in Nat, w \in Nat :
        /\ b = Pending /\ Len(b) = n /\ done = Len(handled) /\ l = Left /\ l = Len(from_pool) - done
        /\ m = Len(buf) /\ w = Len(wire_in) /\ n = m + w
  <2>1. Pending \in Seq(LineByte) /\ Len(Pending) = Len(buf) + Len(wire_in)
        /\ Len(buf) \in Nat /\ Len(wire_in) \in Nat /\ Len(Pending) \in Nat
    BY <1>1 DEF Pending
  <2>2. Len(handled) <= Len(from_pool) /\ Len(handled) \in Nat /\ Len(from_pool) \in Nat
    BY <1>1, PrefixIs
  <2>3. Left \in Nat /\ Len(handled) \in 0..Len(from_pool)
    BY <2>2 DEF Left
  <2> QED
    BY <2>1, <2>3 DEF Left
<1>4. cut \in [0..l -> 0..n] /\ cut \in [0..Len(from_pool) - done -> 0..n] /\ Cuts(cut, b, from_pool, done)
  BY <1>2, <1>3 DEF Left
<1>5. \A i \in 1..n : b[i] = LF <=> \E k \in 1..l : i = cut[k]
  <2>1. EndsAt(b, n, cut, Len(from_pool) - done)
    BY <1>1, <1>3, <1>4, EndsAreCuts
  <2> QED
    BY <1>3, <2>1 DEF EndsAt
<1>6. /\ \A i \in 1..m : b[i] = buf[i] /\ buf[i] # LF
      /\ \A i \in 1..w : b[m + i] = wire_in[i]
      /\ LineEnds(wire_in) = {i \in 1..w : wire_in[i] = LF}
  <2>1. LineEnds(wire_in) = {i \in 1..w : wire_in[i] = LF}
        /\ LineEnds(buf) = {i \in 1..m : buf[i] = LF}
    BY <1>1, <1>3 DEF LineEnds
  <2>2. \A i \in 1..m : buf[i] # LF
    BY <2>1
  <2>3. \A i \in 1..m : b[i] = buf[i]
    BY <1>1, <1>3 DEF Pending
  <2>4. \A i \in 1..w : b[m + i] = wire_in[i]
    BY <1>1, <1>3 DEF Pending
  <2> QED
    BY <2>1, <2>2, <2>3, <2>4
<1>7. \A k \in 1..l : cut[k] \in m + 1..n
  <2> SUFFICES ASSUME NEW k \in 1..l PROVE cut[k] \in m + 1..n
    OBVIOUS
  <2>1. k \in 0..l /\ 0 \in 0..k /\ 0 < k
    OBVIOUS
  <2>2. Ordered(cut, Len(from_pool) - done)
    BY <1>1, <1>4, CutsOrdered
  <2>3. cut[0] < cut[k]
    BY <1>3, <2>1, <2>2 DEF Ordered
  <2>4. cut[0] = 0 /\ cut[k] \in 0..n
    BY <1>4, <2>1 DEF Cuts
  <2>5. cut[k] \in 1..n
    BY <2>3, <2>4
  <2>6. b[cut[k]] = LF
    BY <1>5, <2>5
  <2>7. ~(cut[k] \in 1..m)
    BY <1>6, <2>6
  <2> QED
    BY <2>5, <2>7
<1>8. \A j \in 1..l : \A k \in 1..l : cut[j] = cut[k] => j = k
  <2> SUFFICES ASSUME NEW j \in 1..l, NEW k \in 1..l, j # k PROVE cut[j] # cut[k]
    OBVIOUS
  <2>1. Ordered(cut, l)
    <3>1. Ordered(cut, Len(from_pool) - done)
      BY <1>1, <1>4, CutsOrdered
    <3> QED
      BY <1>3, <3>1
  <2>2. j \in 0..l /\ k \in 0..l /\ (j < k \/ k < j) /\ (j < k => j \in 0..k) /\ (k < j => k \in 0..j)
    OBVIOUS
  <2>3. cut[j] \in m + 1..n /\ cut[k] \in m + 1..n
    BY <1>7
  <2>4. cut[j] < cut[k] \/ cut[k] < cut[j]
    BY <2>1, <2>2 DEF Ordered
  <2> QED
    BY <2>3, <2>4
<1> DEFINE f == [k \in 1..l |-> cut[k] - m]
<1>9. f \in [1..l -> LineEnds(wire_in)]
  <2> SUFFICES ASSUME NEW k \in 1..l PROVE cut[k] - m \in LineEnds(wire_in)
    OBVIOUS
  <2>1. cut[k] \in m + 1..n
    BY <1>7
  <2>2. cut[k] - m \in 1..w /\ m + (cut[k] - m) = cut[k] /\ cut[k] \in 1..n
    BY <1>3, <2>1
  <2>3. b[cut[k]] = LF
    BY <1>5, <2>2
  <2> QED
    BY <1>6, <2>2, <2>3
<1>10. \A j \in 1..l : \A k \in 1..l : f[j] = f[k] => j = k
  <2> SUFFICES ASSUME NEW j \in 1..l, NEW k \in 1..l, cut[j] - m = cut[k] - m PROVE j = k
    OBVIOUS
  <2>1. cut[j] \in m + 1..n /\ cut[k] \in m + 1..n
    BY <1>7
  <2>2. cut[j] = cut[k]
    BY <2>1
  <2> QED
    BY <1>8, <2>2
<1>11. \A i \in LineEnds(wire_in) : \E k \in 1..l : f[k] = i
  <2> SUFFICES ASSUME NEW i \in LineEnds(wire_in) PROVE \E k \in 1..l : f[k] = i
    OBVIOUS
  <2>1. i \in 1..w /\ wire_in[i] = LF
    BY <1>6
  <2>2. m + i \in 1..n /\ b[m + i] = LF
    BY <1>3, <1>6, <2>1
  <2>3. PICK k \in 1..l : m + i = cut[k]
    BY <1>5, <2>2
  <2>4. cut[k] - m = i
    BY <2>1, <2>3
  <2> QED
    BY <2>4
<1> HIDE DEF f
<1>12. ExistsBijection(1..l, LineEnds(wire_in))
  <2>1. f \in Injection(1..l, LineEnds(wire_in))
    BY <1>9, <1>10, Zenon DEF Injection, IsInjective
  <2>2. f \in Surjection(1..l, LineEnds(wire_in))
    BY <1>9, <1>11, Zenon DEF Surjection
  <2> QED
    BY <2>1, <2>2 DEF ExistsBijection, Bijection
<1>13. IsFiniteSet(1..l) /\ Cardinality(1..l) = l
  <2>1. 1 \in Int /\ l \in Int
    OBVIOUS
  <2>2. \A j \in Int, k \in Int : IsFiniteSet(j..k) /\ Cardinality(j..k) = IF j > k THEN 0 ELSE k - j + 1
    BY FS_Interval
  <2>3. IsFiniteSet(1..l) /\ Cardinality(1..l) = IF 1 > l THEN 0 ELSE l - 1 + 1
    BY <2>1, <2>2
  <2> QED
    BY <2>1, <2>3
<1> QED
  BY <1>3, <1>12, <1>13, FS_Bijection

\* The parsers get the lines the pool has sent, in its order and without their
\* endings, however the bytes are cut into receives; nothing is left waiting
\* when the thread goes back to recv; the pool gets whole lines.
THEOREM LinesArrive == LinesSpec => []LinesAsSent
<1>1. LinesInv => LinesAsSent
  <2> SUFFICES ASSUME LinesInv PROVE LinesAsSent
    OBVIOUS
  <2>1. read_loop = "recv" => Len(handled) + Cardinality(LineEnds(wire_in)) = Len(from_pool)
    <3> SUFFICES ASSUME read_loop = "recv"
                 PROVE  Len(handled) + Cardinality(LineEnds(wire_in)) = Len(from_pool)
      OBVIOUS
    <3>1. Cardinality(LineEnds(wire_in)) = Len(from_pool) - Len(handled)
      BY OnTheirWay DEF LinesInv, Left
    <3>2. Len(handled) \in Nat /\ Len(from_pool) \in Nat
      BY DEF LinesInv, LinesTypeInv
    <3> QED
      BY <3>1, <3>2
  <2> QED
    BY <2>1 DEF LinesInv, LinesAsSent
<1> QED
  BY LinesInvariance, <1>1, PTL

-----------------------------------------------------------------------------
(* HashStream: what is stored, and the pieces it arrives in.               *)

Span == Power(Radix, WLEN)

\* What the sizes are.
LEMMA Sizes ==
  /\ BLEN \in Nat \ {0} /\ WLEN \in Nat \ {0} /\ Radix \in Nat \ {0} /\ Span \in Nat \ {0}
  /\ 4 * WLEN < BLEN /\ MaxLength \in Nat /\ MaxLength < Span /\ Span % 8 = 0
<1>1. BLEN \in Nat \ {0} /\ WLEN \in Nat \ {0} /\ Radix \in Nat \ {0} /\ 4 * WLEN < BLEN /\ MaxLength \in Nat
  BY StreamAssumption
<1>2. Span \in Nat \ {0}
  BY <1>1, PowerPositive DEF Span
<1> QED
  BY <1>1, <1>2, StreamAssumption DEF Span

\* What may stand in a block.
Symbol == Int \cup {ContentByte(m, i) : m \in Nat, i \in Nat}

Block == [1..BLEN -> Symbol]

\* c begins with the n bytes of message m from behind place o on.
Content(c, m, o, n) == \A i \in 1..n : c[i] = ContentByte(m, o + i)

\* The whole blocks of a message.
ContentBlock(m, q)  == [i \in 1..BLEN |-> ContentByte(m, BLEN * q + i)]
ContentBlocks(m, q) == [b \in 1..q |-> ContentBlock(m, b - 1)]

Contexts == [buf : Block, val : Seq(Block), count : Nat]

\* The context when q blocks and r bytes of message m were written.
Absorbed(sc, m, q, r) ==
  /\ sc \in Contexts /\ sc.count = BLEN * q + r
  /\ sc.val = ContentBlocks(m, q)
  /\ Content(sc.buf, m, BLEN * q, r)

\* The blocks of a message are blocks, and are appended to in order.
LEMMA BlocksAre ==
  ASSUME NEW m \in Nat, NEW q \in Nat
  PROVE  /\ ContentBlock(m, q) \in Block /\ ContentBlocks(m, q) \in Seq(Block)
         /\ Append(ContentBlocks(m, q), ContentBlock(m, q)) = ContentBlocks(m, q + 1)
         /\ ContentBlocks(m, 0) = <<>>
<1>1. ASSUME NEW k \in Nat PROVE ContentBlock(m, k) \in Block
  <2> SUFFICES ASSUME NEW i \in 1..BLEN PROVE ContentByte(m, BLEN * k + i) \in Symbol
    BY DEF ContentBlock, Block
  <2>1. BLEN * k + i \in Nat
    BY Sizes
  <2> QED
    BY <2>1 DEF Symbol
<1>2. ASSUME NEW k \in Nat PROVE ContentBlocks(m, k) \in [1..k -> Block]
  <2> SUFFICES ASSUME NEW b \in 1..k PROVE ContentBlock(m, b - 1) \in Block
    BY DEF ContentBlocks
  <2>1. b - 1 \in Nat
    OBVIOUS
  <2> QED
    BY <1>1, <2>1
<1>3. ContentBlocks(m, q) \in Seq(Block) /\ Len(ContentBlocks(m, q)) = q
  BY <1>2, IsSeq
<1>4. Append(ContentBlocks(m, q), ContentBlock(m, q)) = ContentBlocks(m, q + 1)
  <2> DEFINE a == Append(ContentBlocks(m, q), ContentBlock(m, q))
             b == ContentBlocks(m, q + 1)
  <2>1. a \in [1..q + 1 -> Block]
    <3>1. a \in Seq(Block) /\ Len(a) = q + 1
      BY <1>1, <1>3
    <3> HIDE DEF a
    <3> QED
      BY <3>1
  <2>2. b \in [1..q + 1 -> Block] /\ q + 1 \in Nat
    BY <1>2
  <2>3. ASSUME NEW i \in 1..q + 1 PROVE a[i] = b[i]
    <3>1. b[i] = ContentBlock(m, i - 1)
      BY DEF ContentBlocks
    <3>2. CASE i = q + 1
      <4>1. a[i] = ContentBlock(m, q) /\ i - 1 = q
        BY <1>3, <3>2
      <4> QED
        BY <3>1, <4>1
    <3>3. CASE i # q + 1
      <4>1. i \in 1..q
        BY <3>3
      <4>2. a[i] = ContentBlocks(m, q)[i]
        BY <1>3, <4>1
      <4> QED
        BY <3>1, <4>1, <4>2 DEF ContentBlocks
    <3> QED
      BY <3>2, <3>3
  <2> HIDE DEF a, b
  <2>4. a = b
    BY <2>1, <2>2, <2>3, SameSeq
  <2> QED
    BY <2>4 DEF a, b
<1>5. ContentBlocks(m, 0) = <<>>
  BY DEF ContentBlocks
<1> QED
  BY <1>1, <1>3, <1>4, <1>5

\* What is copied is there, and the rest is left alone.
Copied(c, mem, at, data, l) ==
  /\ Holds(c, at, data, l)
  /\ \A i \in 1..BLEN : i <= at \/ i > at + l => c[i] = mem[i]

\* Memcpy, byte by byte.
LEMMA MemcpyIs ==
  ASSUME NEW mem \in Block, NEW at \in Nat, NEW l \in Nat, NEW data \in [1..l -> Symbol], at + l <= BLEN
  PROVE  Md!Memcpy(mem, at, data) \in Block /\ Copied(Md!Memcpy(mem, at, data), mem, at, data, l)
<1> DEFINE c == Md!Memcpy(mem, at, data)
<1>1. Len(data) = l
  BY IsSeq
<1>2. c = [i \in 1..BLEN |-> IF i - at \in 1..l THEN data[i - at] ELSE mem[i]]
  BY <1>1 DEF Md!Memcpy
<1>3. c \in Block
  <2> SUFFICES ASSUME NEW i \in 1..BLEN
               PROVE  (IF i - at \in 1..l THEN data[i - at] ELSE mem[i]) \in Symbol
    BY <1>2 DEF Block
  <2> QED
    BY DEF Block
<1>4. ASSUME NEW i \in 1..l PROVE c[at + i] = data[i]
  <2>1. at + i \in 1..BLEN /\ (at + i) - at = i
    BY Sizes
  <2> QED
    BY <1>2, <2>1
<1>5. ASSUME NEW i \in 1..BLEN, i <= at \/ i > at + l PROVE c[i] = mem[i]
  <2>1. i - at \notin 1..l
    BY <1>5
  <2> QED
    BY <1>2, <2>1
<1> QED
  BY <1>3, <1>4, <1>5 DEF Copied, Holds

\* How far the current block has come.
LEMMA CurrentIs ==
  ASSUME NEW sc, NEW m, NEW q \in Nat, NEW r \in 0..BLEN - 1, Absorbed(sc, m, q, r)
  PROVE  Md!current(sc) = r
<1>1. PICK n \in Int : n = BLEN * q + r
  BY Sizes
<1>2. PICK p \in Int, s \in 0..BLEN - 1 : s = n % BLEN /\ n = BLEN * p + s
  BY Sizes, Division
<1>3. r = s
  <2>1. BLEN * q + r = BLEN * p + s /\ BLEN \in Nat \ {0} /\ q \in Int
    BY <1>1, <1>2, Sizes
  <2> QED
    BY <2>1, Remainder
<1> QED
  BY <1>1, <1>2, <1>3 DEF Md!current, Absorbed

\* A piece of a message.
PieceOf(data, m, o, l) == data \in [1..l -> Symbol] /\ Content(data, m, o, l)

\* Its first part, and the rest.
LEMMA PieceParts ==
  ASSUME NEW m, NEW o \in Nat, NEW l \in Nat, NEW k \in Nat, k <= l, NEW data, PieceOf(data, m, o, l)
  PROVE  /\ data \in Seq(Symbol) /\ Len(data) = l
         /\ PieceOf(SubSeq(data, 1, k), m, o, k)
         /\ PieceOf(SubSeq(data, k + 1, Len(data)), m, o + k, l - k)
<1>1. data \in Seq(Symbol) /\ Len(data) = l
  BY IsSeq DEF PieceOf
<1>2. PICK j \in Nat : j = l - k /\ k + j = l
  <2>1. l - k \in Nat /\ k + (l - k) = l
    OBVIOUS
  <2> QED
    BY <2>1
<1>3. PICK z \in Nat : z = 0
  OBVIOUS
<1>4. SubSeq(data, 1, k) \in [1..k -> Symbol] /\ \A i \in 1..k : SubSeq(data, 1, k)[i] = data[i]
  <2>1. /\ SubSeq(data, z + 1, z + k) \in [1..k -> Symbol]
        /\ \A i \in 1..k : SubSeq(data, z + 1, z + k)[i] = data[z + i]
    <3>1. z + k <= Len(data) /\ data \in Seq(Symbol)
      BY <1>1, <1>3
    <3> QED
      BY <3>1, SubSeqIs
  <2>2. z + 1 = 1 /\ z + k = k /\ \A i \in 1..k : z + i = i
    BY <1>3
  <2> QED
    BY <2>1, <2>2
<1>5. /\ SubSeq(data, k + 1, Len(data)) \in [1..j -> Symbol]
      /\ \A i \in 1..j : SubSeq(data, k + 1, Len(data))[i] = data[k + i]
  <2>1. /\ SubSeq(data, k + 1, k + j) \in [1..j -> Symbol]
        /\ \A i \in 1..j : SubSeq(data, k + 1, k + j)[i] = data[k + i]
    <3>1. PICK s \in Seq(Symbol) : s = data
      BY <1>1
    <3>2. k + j <= Len(s) /\ k \in Nat /\ j \in Nat
      BY <1>1, <1>2, <3>1
    <3>3. /\ SubSeq(s, k + 1, k + j) \in [1..j -> Symbol]
          /\ \A i \in 1..j : SubSeq(s, k + 1, k + j)[i] = s[k + i]
      BY <3>2, SubSeqIs
    <3> QED
      BY <3>1, <3>3, Zenon
  <2> QED
    BY <1>1, <1>2, <2>1
<1>6. \A i \in 1..k : i \in 1..l
  OBVIOUS
<1>7. \A i \in 1..j : k + i \in 1..l /\ o + (k + i) = (o + k) + i
  BY <1>2
<1>8. Content(SubSeq(data, 1, k), m, o, k)
  BY <1>4, <1>6 DEF PieceOf, Content
<1>9. Content(SubSeq(data, k + 1, Len(data)), m, o + k, j)
  <2> SUFFICES ASSUME NEW i \in 1..j
               PROVE  SubSeq(data, k + 1, Len(data))[i] = ContentByte(m, (o + k) + i)
    BY DEF Content
  <2>1. data[k + i] = ContentByte(m, o + (k + i))
    BY <1>7 DEF PieceOf, Content
  <2> QED
    BY <1>5, <1>7, <2>1
<1> QED
  BY <1>1, <1>2, <1>4, <1>5, <1>8, <1>9 DEF PieceOf

-----------------------------------------------------------------------------
(* HashStream: the loops of short and Long, and update.                    *)

\* More of the message goes behind what is there.
LEMMA CopyContent ==
  ASSUME NEW m, NEW o \in Nat, NEW r \in Nat, NEW k \in Nat, r + k <= BLEN,
         NEW mem \in Block, Content(mem, m, o, r), NEW data, PieceOf(data, m, o + r, k)
  PROVE  Md!Memcpy(mem, r, data) \in Block /\ Content(Md!Memcpy(mem, r, data), m, o, r + k)
<1>1. PICK d \in [1..k -> Symbol] : d = data
  BY DEF PieceOf
<1>2. Md!Memcpy(mem, r, d) \in Block /\ Copied(Md!Memcpy(mem, r, d), mem, r, d, k)
  BY MemcpyIs
<1>3. PICK c \in Block : c = Md!Memcpy(mem, r, d) /\ Copied(c, mem, r, d, k)
  BY <1>2
<1>4. Content(c, m, o, r + k)
  <2> SUFFICES ASSUME NEW i \in 1..r + k PROVE c[i] = ContentByte(m, o + i)
    BY DEF Content
  <2>1. CASE i <= r
    <3>1. i \in 1..BLEN /\ i \in 1..r
      BY <2>1, Sizes
    <3>2. c[i] = mem[i]
      BY <1>3, <2>1, <3>1 DEF Copied
    <3> QED
      BY <3>1, <3>2 DEF Content
  <2>2. CASE i > r
    <3>1. PICK j \in 1..k : i = r + j /\ o + i = (o + r) + j
      <4>1. i - r \in 1..k /\ i = r + (i - r) /\ o + i = (o + r) + (i - r)
        BY <2>2
      <4> QED
        BY <4>1
    <3>2. c[r + j] = d[j]
      BY <1>3 DEF Copied, Holds
    <3>3. d[j] = ContentByte(m, (o + r) + j)
      BY <1>1 DEF PieceOf, Content
    <3> QED
      BY <3>1, <3>2, <3>3
  <2> QED
    BY <2>1, <2>2
<1> QED
  BY <1>1, <1>3, <1>4

\* A block with BLEN bytes of the message is one of its blocks.
LEMMA WholeBlock ==
  ASSUME NEW m \in Nat, NEW q \in Nat, NEW mem \in Block, Content(mem, m, BLEN * q, BLEN)
  PROVE  mem = ContentBlock(m, q)
<1>1. ContentBlock(m, q) \in Block
  BY BlocksAre
<1>2. \A i \in 1..BLEN : mem[i] = ContentBlock(m, q)[i]
  BY DEF Content, ContentBlock
<1> QED
  BY <1>1, <1>2, Sizes, SameSeq DEF Block

\* One turn of the loop of short: what fits into the block.
LEMMA TurnFills ==
  ASSUME NEW m \in Nat, NEW q \in Nat, NEW r \in 0..BLEN - 1, NEW l \in Nat, NEW sc, NEW data,
         Absorbed(sc, m, q, r), PieceOf(data, m, BLEN * q + r, l), r + l < BLEN,
         BLEN * q + r + l < Span
  PROVE  Absorbed(Md!ShortTurn(sc, data), m, q, r + l)
<1>1. PICK o \in Nat : o = BLEN * q
  BY Sizes
<1>2. Md!current(sc) = r
  BY CurrentIs
<1>3. /\ data \in Seq(Symbol) /\ Len(data) = l /\ PieceOf(SubSeq(data, 1, l), m, o + r, l)
  <2>1. o + r \in Nat /\ l <= l /\ PieceOf(data, m, o + r, l)
    BY <1>1
  <2> QED
    BY <2>1, PieceParts
<1>4. sc \in Contexts /\ sc.count = o + r /\ sc.val = ContentBlocks(m, q) /\ Content(sc.buf, m, o, r)
  BY <1>1 DEF Absorbed
<1> DEFINE mem == Md!Memcpy(sc.buf, r, SubSeq(data, 1, l))
<1>5. mem \in Block /\ Content(mem, m, o, r + l)
  <2>1. sc.buf \in Block /\ r \in Nat /\ r + l <= BLEN
    BY <1>4, Sizes DEF Contexts
  <2> QED
    BY <1>3, <1>4, <2>1, CopyContent
<1>6. Md!ShortTurn(sc, data)
        = [buf |-> mem, val |-> sc.val, count |-> (sc.count + l) % Span]
  <2>1. BLEN - r > l /\ r + l # BLEN
    BY Sizes
  <2> QED
    BY <1>2, <1>3, <2>1 DEF Md!ShortTurn, Span
<1> HIDE DEF mem
<1>7. (sc.count + l) % Span = o + (r + l) /\ o + (r + l) \in Nat
  <2>1. o + (r + l) \in Nat /\ o + (r + l) < Span /\ Span \in Nat
    BY <1>1, Sizes
  <2> QED
    BY <1>4, <2>1, Wrapping
<1>8. sc.val \in Seq(Block)
  BY <1>4 DEF Contexts
<1> QED
  BY <1>1, <1>4, <1>5, <1>6, <1>7, <1>8 DEF Absorbed, Contexts

\* One turn: the block is full.
LEMMA TurnEnds ==
  ASSUME NEW m \in Nat, NEW q \in Nat, NEW r \in 0..BLEN - 1, NEW l \in Nat, NEW sc, NEW data,
         Absorbed(sc, m, q, r), PieceOf(data, m, BLEN * q + r, l), r + l >= BLEN,
         BLEN * q + r + l < Span
  PROVE  Absorbed(Md!ShortTurn(sc, data), m, q + 1, 0)
<1>1. PICK o \in Nat : o = BLEN * q
  BY Sizes
<1>2. Md!current(sc) = r
  BY CurrentIs
<1>2a. PICK k \in Nat : k = BLEN - r /\ k <= l /\ r + k = BLEN
  <2>1. BLEN - r \in Nat /\ BLEN - r <= l /\ r + (BLEN - r) = BLEN
    BY Sizes
  <2> QED
    BY <2>1
<1>3. /\ data \in Seq(Symbol) /\ Len(data) = l /\ PieceOf(SubSeq(data, 1, k), m, o + r, k)
  <2>1. o + r \in Nat /\ k <= l /\ PieceOf(data, m, o + r, l)
    BY <1>1, <1>2a
  <2> QED
    BY <2>1, PieceParts
<1>4. sc \in Contexts /\ sc.count = o + r /\ sc.val = ContentBlocks(m, q) /\ Content(sc.buf, m, o, r)
  BY <1>1 DEF Absorbed
<1> DEFINE mem == Md!Memcpy(sc.buf, r, SubSeq(data, 1, k))
<1>5. mem \in Block /\ Content(mem, m, o, r + k)
  <2>1. sc.buf \in Block /\ r \in Nat /\ r + k <= BLEN
    BY <1>2a, <1>4, Sizes DEF Contexts
  <2> QED
    BY <1>3, <1>4, <2>1, CopyContent
<1>6. Md!ShortTurn(sc, data)
        = [buf |-> mem, val |-> Append(sc.val, mem), count |-> (sc.count + k) % Span]
  <2>1. (IF BLEN - r > l THEN l ELSE BLEN - r) = k /\ r + k = BLEN
    BY <1>2a, Sizes
  <2> QED
    BY <1>2, <1>3, <2>1 DEF Md!ShortTurn, Span, Remember
<1> HIDE DEF mem
<1>7. (sc.count + k) % Span = BLEN * (q + 1) + 0 /\ BLEN * (q + 1) + 0 \in Nat
  <2>1. o + (r + k) \in Nat /\ o + (r + k) < Span /\ Span \in Nat
    BY <1>1, <1>2a, Sizes
  <2>2. BLEN * (q + 1) = o + BLEN
    BY <1>1, Sizes
  <2>3. (o + (r + k)) % Span = o + (r + k)
    BY <2>1, Wrapping
  <2>4. sc.count + k = o + (r + k)
    BY <1>2a, <1>4
  <2> QED
    BY <1>1, <1>2a, <2>2, <2>3, <2>4, Sizes
<1>8. mem = ContentBlock(m, q)
  BY <1>1, <1>2a, <1>5, WholeBlock
<1>9. Append(sc.val, mem) = ContentBlocks(m, q + 1) /\ ContentBlocks(m, q + 1) \in Seq(Block)
  <2>1. q + 1 \in Nat
    OBVIOUS
  <2> QED
    BY <1>4, <1>8, <2>1, BlocksAre
<1>10. Content(mem, m, BLEN * (q + 1), 0)
  BY DEF Content
<1> QED
  BY <1>5, <1>6, <1>7, <1>9, <1>10 DEF Absorbed, Contexts

\* What is left behind the turn.
LEMMA TurnLeaves ==
  ASSUME NEW m \in Nat, NEW q \in Nat, NEW r \in 0..BLEN - 1, NEW l \in Nat, NEW data,
         PieceOf(data, m, BLEN * q + r, l), r + l >= BLEN
  PROVE  PieceOf(SubSeq(data, 1 + BLEN - r, Len(data)), m, BLEN * (q + 1), (r + l) - BLEN)
<1>1. PICK o \in Nat : o = BLEN * q
  BY Sizes
<1>2. PICK k \in Nat : k = BLEN - r /\ k <= l /\ r + k = BLEN
  <2>1. BLEN - r \in Nat /\ BLEN - r <= l /\ r + (BLEN - r) = BLEN
    BY Sizes
  <2> QED
    BY <2>1
<1>3. PieceOf(SubSeq(data, k + 1, Len(data)), m, (o + r) + k, l - k)
  <2>1. o + r \in Nat /\ k <= l /\ PieceOf(data, m, o + r, l)
    BY <1>1, <1>2
  <2> QED
    BY <2>1, PieceParts
<1>4. 1 + BLEN - r = k + 1 /\ l - k = (r + l) - BLEN /\ (o + r) + k = BLEN * (q + 1)
  <2>1. BLEN * (q + 1) = o + BLEN
    BY <1>1, Sizes
  <2> QED
    BY <1>1, <1>2, <2>1, Sizes
<1> QED
  BY <1>3, <1>4

\* In the loop of short: total bytes of message m are absorbed or left.
Doing(at, m, total, q) ==
  \E r \in 0..BLEN - 1, l \in Nat :
    /\ BLEN * q + r + l = total
    /\ Absorbed(at.sc, m, q, r) /\ PieceOf(at.left, m, BLEN * q + r, l)

Loops(m, total) ==
  {at \in [sc : Contexts, left : Seq(Symbol)] : \E q \in Nat : Doing(at, m, total, q)}

LoopTurn(at) ==
  IF at.left = <<>> THEN at
  ELSE [sc |-> Md!ShortTurn(at.sc, at.left),
        left |-> SubSeq(at.left, 1 + BLEN - Md!current(at.sc), Len(at.left))]

\* Each turn but the last ends a block.
Progress(at, next, m, total, q) ==
  /\ next \in [sc : Contexts, left : Seq(Symbol)]
  /\ at.left = <<>> => next = at
  /\ at.left # <<>> => \/ next.left = <<>> /\ Doing(next, m, total, q)
                       \/ Doing(next, m, total, q + 1)

\* Every turn of the loop keeps what is absorbed and left together.
LEMMA LoopStep ==
  ASSUME NEW m \in Nat, NEW total \in Nat, total < Span,
         NEW at \in [sc : Contexts, left : Seq(Symbol)], NEW q \in Nat, Doing(at, m, total, q)
  PROVE  Progress(at, LoopTurn(at), m, total, q)
<1>1. CASE at.left = <<>>
  <2>1. LoopTurn(at) = at
    BY <1>1 DEF LoopTurn
  <2> QED
    BY <1>1, <2>1 DEF Progress
<1>2. CASE at.left # <<>>
  <2>1. PICK r \in 0..BLEN - 1, l \in Nat :
          /\ BLEN * q + r + l = total
          /\ Absorbed(at.sc, m, q, r) /\ PieceOf(at.left, m, BLEN * q + r, l)
    BY DEF Doing
  <2>2. PICK o \in Nat : o = BLEN * q
    BY Sizes
  <2>3. PICK sc, data : sc = at.sc /\ data = at.left
    OBVIOUS
  <2>4. Absorbed(sc, m, q, r) /\ PieceOf(data, m, BLEN * q + r, l) /\ BLEN * q + r + l < Span
    BY <2>1, <2>3
  <2>5. Md!current(sc) = r
    BY <2>4, CurrentIs
  <2>6. data \in Seq(Symbol) /\ Len(data) = l
    BY <2>4, IsSeq DEF PieceOf
  <2> DEFINE next == [sc |-> Md!ShortTurn(sc, data),
                      left |-> SubSeq(data, 1 + BLEN - r, Len(data))]
  <2>7. LoopTurn(at) = next
    BY <1>2, <2>3, <2>5 DEF LoopTurn
  <2>8. CASE r + l < BLEN
    <3>1. Absorbed(Md!ShortTurn(sc, data), m, q, r + l)
      BY <2>4, <2>8, TurnFills
    <3>2. SubSeq(data, 1 + BLEN - r, Len(data)) = <<>>
      <4>1. PICK a \in Int : a = 1 + BLEN - r /\ a > l
        BY <2>8, Sizes
      <4>2. SubSeq(data, a, l) = <<>>
        BY <2>6, <4>1
      <4> QED
        BY <2>6, <4>1, <4>2
    <3>3. PieceOf(<<>>, m, BLEN * q + (r + l), 0)
      BY DEF PieceOf, Content
    <3>4. r + l \in 0..BLEN - 1 /\ 0 \in Nat /\ BLEN * q + (r + l) + 0 = total
      BY <2>1, <2>2, <2>8, Sizes
    <3>5. next.sc = Md!ShortTurn(sc, data) /\ next.left = <<>>
      BY <3>2
    <3>6. next \in [sc : Contexts, left : Seq(Symbol)]
      <4>1. Md!ShortTurn(sc, data) \in Contexts
        BY <3>1 DEF Absorbed
      <4>2. <<>> \in Seq(Symbol)
        OBVIOUS
      <4>3. SubSeq(data, 1 + BLEN - r, Len(data)) \in Seq(Symbol)
        BY <3>2, <4>2
      <4> QED
        BY <4>1, <4>3
    <3> HIDE DEF next
    <3>7. Doing(next, m, total, q)
      BY <3>1, <3>3, <3>4, <3>5 DEF Doing
    <3> QED
      BY <1>2, <2>7, <3>5, <3>6, <3>7 DEF Progress
  <2>9. CASE r + l >= BLEN
    <3>1. Absorbed(Md!ShortTurn(sc, data), m, q + 1, 0)
      BY <2>4, <2>9, TurnEnds
    <3>2. PieceOf(SubSeq(data, 1 + BLEN - r, Len(data)), m, BLEN * (q + 1), (r + l) - BLEN)
      BY <2>4, <2>9, TurnLeaves
    <3>3. PICK k \in Nat : k = (r + l) - BLEN /\ BLEN * (q + 1) + 0 + k = total
                           /\ BLEN * (q + 1) + 0 = BLEN * (q + 1)
      <4>1. BLEN * (q + 1) = o + BLEN
        BY <2>2, Sizes
      <4>2. (r + l) - BLEN \in Nat /\ (o + BLEN) + 0 + ((r + l) - BLEN) = o + r + l
        BY <2>9, Sizes
      <4> QED
        BY <2>1, <2>2, <4>1, <4>2, Sizes
    <3>4. next.sc = Md!ShortTurn(sc, data) /\ next.left = SubSeq(data, 1 + BLEN - r, Len(data))
      OBVIOUS
    <3>5. next \in [sc : Contexts, left : Seq(Symbol)]
      <4>1. Md!ShortTurn(sc, data) \in Contexts
        BY <3>1 DEF Absorbed
      <4>2. SubSeq(data, 1 + BLEN - r, Len(data)) \in Seq(Symbol)
        <5>1. PICK d : d = SubSeq(data, 1 + BLEN - r, Len(data))
          OBVIOUS
        <5>2. d \in [1..k -> Symbol]
          BY <3>2, <3>3, <5>1 DEF PieceOf
        <5> QED
          BY <5>1, <5>2, IsSeq
      <4> QED
        BY <4>1, <4>2
    <3> HIDE DEF next
    <3>6. 0 \in 0..BLEN - 1
      BY Sizes
    <3>7. Doing(next, m, total, q + 1)
      <4>1. Absorbed(next.sc, m, q + 1, 0) /\ PieceOf(next.left, m, BLEN * (q + 1) + 0, k)
        BY <3>1, <3>2, <3>3, <3>4
      <4> QED
        BY <3>3, <3>6, <4>1 DEF Doing
    <3> QED
      BY <1>2, <2>7, <3>5, <3>7 DEF Progress
  <2>10. r + l < BLEN \/ r + l >= BLEN
    BY Sizes
  <2> QED
    BY <2>8, <2>9, <2>10
<1> QED
  BY <1>1, <1>2

\* f goes through the turns.
TurnByTurn(f, at, n) == f[0] = at /\ \A i \in 0..n - 1 : f[i + 1] = LoopTurn(f[i])

\* The fold of short.
LEMMA ShortIs ==
  ASSUME NEW m \in Nat, NEW total \in Nat, total < Span, NEW sc, NEW data, NEW n \in Nat,
         [sc |-> sc, left |-> data] \in Loops(m, total),
         n = (Md!current(sc) + Len(data)) \div BLEN + 1
  PROVE  \E f \in [0..n -> Loops(m, total)] :
           /\ TurnByTurn(f, [sc |-> sc, left |-> data], n)
           /\ Md!short(sc, data) = f[n].sc
<1> DEFINE V == Loops(m, total)
           a == [sc |-> sc, left |-> data]
           h == [p \in (1..n) \X V |-> LoopTurn(p[2])]
<1>1. ASSUME NEW v \in V PROVE LoopTurn(v) \in V
  <2>1. v \in [sc : Contexts, left : Seq(Symbol)]
    BY DEF Loops
  <2>2. PICK q \in Nat : Doing(v, m, total, q)
    BY DEF Loops
  <2>3. Progress(v, LoopTurn(v), m, total, q)
    BY <2>1, <2>2, LoopStep
  <2>4. LoopTurn(v) \in [sc : Contexts, left : Seq(Symbol)]
    BY <2>3 DEF Progress
  <2>5. \E p \in Nat : Doing(LoopTurn(v), m, total, p)
    <3>1. LoopTurn(v) = v \/ Doing(LoopTurn(v), m, total, q) \/ Doing(LoopTurn(v), m, total, q + 1)
      BY <2>3 DEF Progress
    <3>2. q + 1 \in Nat
      OBVIOUS
    <3> QED
      BY <2>2, <3>1, <3>2, Zenon
  <2> QED
    BY <2>4, <2>5 DEF Loops
<1>2. \A i \in 1..n : \A v \in V : h[<<i, v>>] = LoopTurn(v)
  <2> SUFFICES ASSUME NEW i \in 1..n, NEW v \in V PROVE h[<<i, v>>] = LoopTurn(v)
    OBVIOUS
  <2>1. <<i, v>> \in (1..n) \X V /\ <<i, v>>[2] = v
    OBVIOUS
  <2> HIDE DEF V
  <2> QED
    BY <2>1, Zenon
<1>3. a \in V
  OBVIOUS
<1> HIDE DEF h, V
<1>4. Closed(h, 1..n, V)
  BY <1>1, <1>2 DEF Closed
<1>5. PICK byset \in [SUBSET (1..n) -> V], f \in [0..n -> V] : FoldsInOrder(byset, f, a, h, n)
  <2> HIDE DEF a
  <2> QED
    BY <1>3, <1>4, FoldInOrder
<1> DEFINE seq == [i \in 1..((Md!current(sc) + Len(data)) \div BLEN + 1) |-> i]
           OneTurn(v, i) == IF v.left = <<>> THEN v
                         ELSE [sc |-> Md!ShortTurn(v.sc, v.left),
                               left |-> SubSeq(v.left, 1 + BLEN - Md!current(v.sc), Len(v.left))]
           Is(x) == x = [s \in SUBSET DOMAIN seq |->
                           IF s = {} THEN a ELSE OneTurn(x[s \ {Md!Max(s)}], seq[Md!Max(s)])]
           x == CHOOSE y : Is(y)
<1>6. Md!short(sc, data) = x[DOMAIN seq].sc
  BY Zenon DEF Md!short, Md!FoldLeft, Md!MapThenFoldSet
<1>7. DOMAIN seq = 1..n
  OBVIOUS
<1>8. \A s : Md!Max(s) = Max(s)
  BY Zenon DEF Max, Md!Max
<1>9. Is(byset)
  <2>1. byset = [s \in SUBSET (1..n) |-> IF s = {} THEN a ELSE h[<<Max(s), byset[s \ {Max(s)}]>>]]
    BY <1>5 DEF FoldsInOrder
  <2>2. ASSUME NEW s \in SUBSET (1..n)
        PROVE  (IF s = {} THEN a ELSE h[<<Max(s), byset[s \ {Max(s)}]>>])
                 = (IF s = {} THEN a ELSE OneTurn(byset[s \ {Md!Max(s)}], seq[Md!Max(s)]))
    <3>1. CASE s = {}
      BY <3>1
    <3>2. CASE s # {}
      <4>1. Max(s) \in s /\ s \ {Max(s)} \in SUBSET (1..n)
        BY <3>2, MaxOf
      <4>2. Max(s) \in 1..n /\ byset[s \ {Max(s)}] \in V
        BY <4>1
      <4>3. h[<<Max(s), byset[s \ {Max(s)}]>>] = LoopTurn(byset[s \ {Max(s)}])
        BY <1>2, <4>2
      <4>4. \A v, i : OneTurn(v, i) = LoopTurn(v)
        BY Zenon DEF LoopTurn
      <4> HIDE DEF OneTurn, seq
      <4> QED
        BY <1>8, <3>2, <4>3, <4>4
    <3> QED
      BY <3>1, <3>2
  <2>3. byset = [s \in SUBSET (1..n) |-> IF s = {} THEN a ELSE OneTurn(byset[s \ {Md!Max(s)}], seq[Md!Max(s)])]
    <3> HIDE DEF OneTurn, seq, a
    <3> QED
      BY <2>1, <2>2
  <2> HIDE DEF OneTurn, a
  <2> QED
    BY <1>7, <2>3
<1>10. Is(x)
  <2> HIDE DEF Is
  <2> QED
    BY <1>9, Zenon
<1>11. x[1..n] = byset[1..n]
  <2> HIDE DEF x, OneTurn, seq, a
  <2>1. x[{}] = byset[{}]
    BY <1>7, <1>9, <1>10
  <2>2. \A s \in SUBSET (1..n) :
          s # {} => (x[s \ {Max(s)}] = byset[s \ {Max(s)}] => x[s] = byset[s])
    <3> SUFFICES ASSUME NEW s \in SUBSET (1..n), s # {}, x[s \ {Max(s)}] = byset[s \ {Max(s)}]
                 PROVE  x[s] = byset[s]
      OBVIOUS
    <3>1. x[s] = OneTurn(x[s \ {Md!Max(s)}], seq[Md!Max(s)])
      BY <1>7, <1>10
    <3>2. byset[s] = OneTurn(byset[s \ {Md!Max(s)}], seq[Md!Max(s)])
      BY <1>7, <1>9
    <3> HIDE DEF Is
    <3> QED
      BY <1>8, <3>1, <3>2
  <2> HIDE DEF Is
  <2> QED
    BY <2>1, <2>2, FoldIsOne
<1> HIDE DEF x, Is, seq
<1>12. Md!short(sc, data) = f[n].sc
  BY <1>5, <1>6, <1>7, <1>11 DEF FoldsInOrder
<1>13. TurnByTurn(f, a, n)
  <2>1. f[0] = a /\ \A i \in 0..n - 1 : f[i + 1] = h[<<i + 1, f[i]>>]
    BY <1>5 DEF FoldsInOrder
  <2>2. \A i \in 0..n - 1 : i + 1 \in 1..n /\ i \in 0..n
    OBVIOUS
  <2>3. \A i \in 0..n - 1 : f[i + 1] = LoopTurn(f[i])
    <3> SUFFICES ASSUME NEW i \in 0..n - 1 PROVE f[i + 1] = LoopTurn(f[i])
      OBVIOUS
    <3>1. PICK k \in 1..n, v \in V : k = i + 1 /\ v = f[i]
      BY <2>2
    <3>2. h[<<k, v>>] = LoopTurn(v)
      BY <1>2, Zenon
    <3> QED
      BY <2>1, <3>1, <3>2, Zenon
  <2> QED
    BY <2>1, <2>3 DEF TurnByTurn
<1> QED
  BY <1>12, <1>13 DEF V

\* The context when n bytes of message m were written.
AbsorbedTo(sc, m, n) ==
  \E q \in Nat, r \in 0..BLEN - 1 : n = BLEN * q + r /\ Absorbed(sc, m, q, r)

\* When nothing is left, everything was absorbed.
LEMMA NothingLeft ==
  ASSUME NEW at, NEW m \in Nat, NEW total \in Nat, NEW q \in Nat, Doing(at, m, total, q), at.left = <<>>
  PROVE  AbsorbedTo(at.sc, m, total)
<1>1. PICK r \in 0..BLEN - 1, l \in Nat :
        BLEN * q + r + l = total /\ Absorbed(at.sc, m, q, r) /\ PieceOf(at.left, m, BLEN * q + r, l)
  BY DEF Doing
<1>2. l = 0
  <2>1. PICK d : d = at.left
    OBVIOUS
  <2>2. d \in [1..l -> Symbol]
    BY <1>1, <2>1 DEF PieceOf
  <2>3. Len(d) = l
    BY <2>2, IsSeq
  <2>4. Len(d) = 0
    BY <2>1
  <2> QED
    BY <2>3, <2>4
<1>3. total = BLEN * q + r
  <2>1. BLEN * q \in Nat
    BY Sizes
  <2> QED
    BY <1>1, <1>2, <2>1, Sizes
<1> QED
  BY <1>1, <1>3 DEF AbsorbedTo

\* What is never enough for all turns has ended before.
LEMMA TurnsSuffice ==
  ASSUME NEW m \in Nat, NEW total \in Nat, total < Span, NEW n \in Nat,
         NEW f \in [0..n -> Loops(m, total)], NEW q \in Nat, NEW r \in 0..BLEN - 1, NEW l \in Nat,
         BLEN * q + r + l = total, n = (r + l) \div BLEN + 1,
         NEW at, TurnByTurn(f, at, n), Doing(at, m, total, q)
  PROVE  AbsorbedTo(f[n].sc, m, total)
<1> DEFINE Ended(i) == f[i].left = <<>> /\ \E p \in Nat : Doing(f[i], m, total, p)
           T == {i \in Nat : i <= n => Ended(i) \/ Doing(f[i], m, total, q + i)}
<1>1. 0 \in T
  <2>1. f[0] = at /\ q + 0 = q
    BY DEF TurnByTurn
  <2> QED
    BY <2>1
<1>2. ASSUME NEW i \in Nat, i \in T PROVE i + 1 \in T
  <2> SUFFICES ASSUME i + 1 <= n PROVE Ended(i + 1) \/ Doing(f[i + 1], m, total, q + (i + 1))
    OBVIOUS
  <2>1. i \in 0..n - 1 /\ i \in 0..n /\ i <= n
    OBVIOUS
  <2>2. f[i + 1] = LoopTurn(f[i])
    BY <2>1 DEF TurnByTurn
  <2>3. f[i] \in [sc : Contexts, left : Seq(Symbol)]
    BY <2>1 DEF Loops
  <2>4. Ended(i) \/ Doing(f[i], m, total, q + i)
    BY <1>2, <2>1
  <2> HIDE DEF T
  <2>5. ASSUME NEW p \in Nat, Doing(f[i], m, total, p)
        PROVE  Progress(f[i], f[i + 1], m, total, p)
    BY <2>2, <2>3, <2>5, LoopStep
  <2>6. CASE Ended(i)
    <3>1. PICK p \in Nat : Doing(f[i], m, total, p)
      BY <2>6
    <3>2. f[i + 1] = f[i]
      BY <2>5, <2>6, <3>1 DEF Progress
    <3> QED
      BY <2>6, <3>2, Zenon
  <2>7. CASE Doing(f[i], m, total, q + i) /\ f[i].left = <<>>
    <3>1. q + i \in Nat
      OBVIOUS
    <3>2. f[i + 1] = f[i]
      BY <2>5, <2>7, <3>1 DEF Progress
    <3> QED
      BY <2>7, <3>1, <3>2, Zenon
  <2>8. CASE Doing(f[i], m, total, q + i) /\ f[i].left # <<>>
    <3>1. q + i \in Nat /\ (q + i) + 1 = q + (i + 1)
      OBVIOUS
    <3>2. Progress(f[i], f[i + 1], m, total, q + i)
      BY <2>5, <2>8, <3>1
    <3>3. \/ f[i + 1].left = <<>> /\ Doing(f[i + 1], m, total, q + i)
          \/ Doing(f[i + 1], m, total, q + (i + 1))
      BY <2>8, <3>1, <3>2, Zenon DEF Progress
    <3> QED
      BY <3>1, <3>3, Zenon
  <2> QED
    BY <2>4, <2>6, <2>7, <2>8, Zenon
<1> HIDE DEF T
<1>3. \A i \in Nat : i \in T
  BY <1>1, <1>2, SetInduction, Zenon
<1>4. Ended(n) \/ Doing(f[n], m, total, q + n)
  BY <1>3 DEF T
<1>5. ~Doing(f[n], m, total, q + n)
  <2> SUFFICES ASSUME NEW s \in 0..BLEN - 1, NEW k \in Nat, BLEN * (q + n) + s + k = total PROVE FALSE
    BY DEF Doing
  <2>1. PICK a \in Int, b \in Int, c \in Int : a = BLEN * q /\ b = BLEN * (n - 1) /\ c = BLEN * (q + n)
    BY Sizes
  <2>2. PICK t \in Int : t = r + l
    BY Sizes
  <2>3. c = a + b + BLEN
    BY <2>1, Sizes
  <2>4. PICK u \in 0..BLEN - 1 : t = b + u
    <3>1. PICK p \in Int, u \in 0..BLEN - 1 : p = t \div BLEN /\ t = BLEN * p + u
      BY Sizes, DivMod
    <3>2. p = n - 1
      BY <2>2, <3>1, Sizes
    <3> QED
      BY <2>1, <3>1, <3>2
  <2> QED
    BY <2>1, <2>2, <2>3, <2>4, Sizes
<1>6. PICK p \in Nat : Doing(f[n], m, total, p) /\ f[n].left = <<>>
  BY <1>4, <1>5
<1> QED
  BY <1>6, NothingLeft

\* The copying loop absorbs all it is given.
LEMMA ShortAbsorbs ==
  ASSUME NEW m \in Nat, NEW o \in Nat, NEW l \in Nat, o + l < Span, NEW sc, NEW data,
         AbsorbedTo(sc, m, o), PieceOf(data, m, o, l)
  PROVE  AbsorbedTo(Md!short(sc, data), m, o + l)
<1>1. PICK q \in Nat, r \in 0..BLEN - 1 : o = BLEN * q + r /\ Absorbed(sc, m, q, r)
  BY DEF AbsorbedTo
<1>2. PICK total \in Nat : total = o + l
  OBVIOUS
<1>3. Md!current(sc) = r
  BY <1>1, CurrentIs
<1>4. data \in Seq(Symbol) /\ Len(data) = l
  BY IsSeq DEF PieceOf
<1>5. sc \in Contexts
  BY <1>1 DEF Absorbed
<1> DEFINE at == [sc |-> sc, left |-> data]
<1>6. Doing(at, m, total, q)
  <2>1. at.sc = sc /\ at.left = data
    OBVIOUS
  <2>2. BLEN * q + r + l = total
    BY <1>1, <1>2
  <2> HIDE DEF at
  <2> QED
    BY <1>1, <2>1, <2>2 DEF Doing
<1>7. at \in Loops(m, total)
  <2>1. at \in [sc : Contexts, left : Seq(Symbol)]
    BY <1>4, <1>5
  <2> HIDE DEF at
  <2> QED
    BY <1>6, <2>1 DEF Loops
<1>8. PICK n \in Nat : n = (r + l) \div BLEN + 1
  <2>1. r + l \in Nat
    BY Sizes
  <2>2. (r + l) \div BLEN \in Nat
    BY <2>1, Sizes, DivNat
  <2> QED
    BY <2>2
<1>9. PICK f \in [0..n -> Loops(m, total)] :
        TurnByTurn(f, at, n) /\ Md!short(sc, data) = f[n].sc
  BY <1>2, <1>3, <1>4, <1>7, <1>8, ShortIs
<1>10. AbsorbedTo(f[n].sc, m, total)
  <2>1. BLEN * q + r + l = total /\ total < Span
    BY <1>1, <1>2
  <2> HIDE DEF at
  <2>2. \E z : z = at
    OBVIOUS
  <2>3. PICK z : z = at
    BY <2>2
  <2>4. TurnByTurn(f, z, n) /\ Doing(z, m, total, q)
    BY <1>6, <1>9, <2>3
  <2> QED
    BY <1>8, <2>1, <2>4, TurnsSuffice
<1> QED
  BY <1>2, <1>9, <1>10

\* A whole block of the data.
LEMMA BlockOf ==
  ASSUME NEW m \in Nat, NEW q \in Nat, NEW l \in Nat, NEW data, PieceOf(data, m, BLEN * q, l),
         NEW k \in Nat, BLEN * (k + 1) <= l
  PROVE  SubSeq(data, k * BLEN + 1, (k + 1) * BLEN) = ContentBlock(m, q + k)
<1>1. PICK o \in Nat, z \in Nat : o = BLEN * q /\ z = BLEN * k
  BY Sizes
<1>2. k * BLEN = z /\ (k + 1) * BLEN = z + BLEN /\ BLEN * (k + 1) = z + BLEN /\ BLEN * (q + k) = o + z
      /\ z + BLEN <= l
  BY <1>1, Sizes
<1>3. PICK s \in Seq(Symbol) : s = data /\ Len(s) = l
  BY IsSeq DEF PieceOf
<1>4. PICK d : d = SubSeq(data, k * BLEN + 1, (k + 1) * BLEN)
  OBVIOUS
<1>5. d \in Block /\ \A i \in 1..BLEN : d[i] = s[z + i]
  <2>1. z + BLEN <= Len(s) /\ z \in Nat /\ BLEN \in Nat
    BY <1>2, <1>3, Sizes
  <2>2. PICK b \in Nat : b = BLEN
    BY <2>1
  <2>3. z + b <= Len(s)
    BY <2>1, <2>2
  <2>4. /\ SubSeq(s, z + 1, z + b) \in [1..b -> Symbol]
        /\ \A i \in 1..b : SubSeq(s, z + 1, z + b)[i] = s[z + i]
    BY <2>3, SubSeqIs
  <2> QED
    BY <1>2, <1>3, <1>4, <2>2, <2>4 DEF Block
<1>6. \A i \in 1..BLEN : s[z + i] = ContentByte(m, BLEN * (q + k) + i)
  <2> SUFFICES ASSUME NEW i \in 1..BLEN PROVE s[z + i] = ContentByte(m, BLEN * (q + k) + i)
    OBVIOUS
  <2>1. z + i \in 1..l /\ o + (z + i) = (o + z) + i
    BY <1>2, Sizes
  <2>2. s[z + i] = ContentByte(m, o + (z + i))
    BY <1>1, <1>3, <2>1 DEF PieceOf, Content
  <2> QED
    BY <1>2, <2>1, <2>2
<1>7. ContentBlock(m, q + k) \in Block
  <2> q + k \in Nat
    OBVIOUS
  <2> QED
    BY BlocksAre
<1>8. \A i \in 1..BLEN : d[i] = ContentBlock(m, q + k)[i]
  BY <1>5, <1>6 DEF ContentBlock
<1>9. d = ContentBlock(m, q + k)
  BY <1>5, <1>7, <1>8, Sizes, SameSeq DEF Block
<1> QED
  BY <1>4, <1>9

\* As many blocks as there are whole ones fit.
LEMMA WholeBlocks ==
  ASSUME NEW l \in Nat, NEW i \in Nat, i <= l \div BLEN
  PROVE  BLEN * i <= l
<1>1. PICK n \in Int : n = l
  OBVIOUS
<1>2. PICK c \in Int, d \in 0..BLEN - 1 : c = n \div BLEN /\ n = BLEN * c + d
  BY Sizes, DivMod
<1>3. PICK e \in Nat : e = c - i /\ c = i + e
  <2>1. c - i \in Nat /\ c = i + (c - i)
    BY <1>1, <1>2
  <2> QED
    BY <2>1
<1>4. PICK u \in Nat, v \in Nat, w \in Nat : u = BLEN * i /\ v = BLEN * e /\ w = BLEN * c
  <2>1. BLEN * i \in Nat /\ BLEN * e \in Nat /\ c \in Nat
    BY <1>3, Sizes
  <2>2. BLEN * c \in Nat
    BY <2>1, Sizes
  <2> QED
    BY <2>1, <2>2
<1>5. w = u + v
  BY <1>3, <1>4, Sizes
<1> QED
  BY <1>1, <1>2, <1>4, <1>5, Sizes

\* The blocks that are not copied.
LEMMA LongBlocks ==
  ASSUME NEW m \in Nat, NEW q \in Nat, NEW l \in Nat, NEW data, PieceOf(data, m, BLEN * q, l),
         NEW p \in Nat, p = l \div BLEN, NEW sc, sc.val = ContentBlocks(m, q)
  PROVE  Md!Long(sc, data).val = ContentBlocks(m, q + p)
<1> DEFINE V == Seq(Block)
           D(i) == ContentBlock(m, q + (i - 1))
           h == [z \in (1..p) \X V |-> Append(z[2], D(z[1]))]
           a == ContentBlocks(m, q)
<1>1. \A i \in 1..p : D(i) \in Block
  <2> SUFFICES ASSUME NEW i \in 1..p PROVE ContentBlock(m, q + (i - 1)) \in Block
    OBVIOUS
  <2>1. q + (i - 1) \in Nat
    OBVIOUS
  <2> QED
    BY <2>1, BlocksAre
<1>2. \A i \in 1..p : \A v \in V : h[<<i, v>>] = Append(v, D(i)) /\ Append(v, D(i)) \in V
  <2> SUFFICES ASSUME NEW i \in 1..p, NEW v \in V
               PROVE  h[<<i, v>>] = Append(v, D(i)) /\ Append(v, D(i)) \in V
    OBVIOUS
  <2>1. <<i, v>> \in (1..p) \X V /\ <<i, v>>[2] = v /\ <<i, v>>[1] = i
    OBVIOUS
  <2>2. D(i) \in Block
    BY <1>1
  <2>3. Append(v, D(i)) \in V
    <3> HIDE DEF D
    <3> QED
      BY <2>2
  <2> HIDE DEF V, D
  <2>4. h[<<i, v>>] = Append(v, D(i))
    BY <2>1, Zenon
  <2> QED
    BY <2>3, <2>4
<1>3. a \in V
  BY BlocksAre
<1>4. Closed(h, 1..p, V)
  <2> HIDE DEF h, V, D
  <2> QED
    BY <1>2 DEF Closed
<1> HIDE DEF h, V, D
<1>5. PICK byset \in [SUBSET (1..p) -> V], f \in [0..p -> V] : FoldsInOrder(byset, f, a, h, p)
  <2> HIDE DEF a
  <2> QED
    BY <1>3, <1>4, FoldInOrder
<1>6. Len(data) = l
  BY IsSeq DEF PieceOf
<1> DEFINE seq == [i \in 1..(Len(data) \div BLEN) |-> i]
           S(i) == SubSeq(data, (i - 1) * BLEN + 1, i * BLEN)
           Is(x) == x = [s \in SUBSET DOMAIN seq |->
                           IF s = {} THEN sc.val
                           ELSE Append(x[s \ {Md!Max(s)}], S(seq[Md!Max(s)]))]
           x == CHOOSE y : Is(y)
<1>7. Md!Long(sc, data).val = x[DOMAIN seq]
  BY Zenon DEF Md!Long, Md!FoldLeft, Md!MapThenFoldSet, Remember
<1>8. DOMAIN seq = 1..p /\ \A i \in 1..p : seq[i] = i
  BY <1>6
<1>9. \A s : Md!Max(s) = Max(s)
  BY Zenon DEF Max, Md!Max
<1>10. ASSUME NEW i \in 1..p PROVE S(i) = D(i)
  <2>1. PICK k \in Nat : k = i - 1 /\ i = k + 1
    <3>1. i - 1 \in Nat /\ i = (i - 1) + 1
      OBVIOUS
    <3> QED
      BY <3>1
  <2>2. BLEN * (k + 1) <= l
    <3>1. k + 1 \in Nat /\ k + 1 <= l \div BLEN
      BY <2>1
    <3> QED
      BY <3>1, WholeBlocks
  <2>3. SubSeq(data, k * BLEN + 1, (k + 1) * BLEN) = ContentBlock(m, q + k)
    BY <2>2, BlockOf
  <2> QED
    BY <2>1, <2>3 DEF D
<1>11. Is(byset)
  <2>1. byset = [s \in SUBSET (1..p) |-> IF s = {} THEN a ELSE h[<<Max(s), byset[s \ {Max(s)}]>>]]
    BY <1>5 DEF FoldsInOrder
  <2>2. ASSUME NEW s \in SUBSET (1..p)
        PROVE  (IF s = {} THEN a ELSE h[<<Max(s), byset[s \ {Max(s)}]>>])
                 = (IF s = {} THEN sc.val ELSE Append(byset[s \ {Md!Max(s)}], S(seq[Md!Max(s)])))
    <3>1. CASE s = {}
      BY <3>1
    <3>2. CASE s # {}
      <4>1. Max(s) \in s /\ s \ {Max(s)} \in SUBSET (1..p)
        BY <3>2, MaxOf
      <4>2. Max(s) \in 1..p /\ byset[s \ {Max(s)}] \in V
        BY <4>1
      <4>3. h[<<Max(s), byset[s \ {Max(s)}]>>] = Append(byset[s \ {Max(s)}], D(Max(s)))
        BY <1>2, <4>2
      <4>4. seq[Max(s)] = Max(s) /\ S(Max(s)) = D(Max(s))
        <5> HIDE DEF seq, S
        <5> QED
          BY <1>8, <1>10, <4>2
      <4> HIDE DEF S, seq
      <4> QED
        BY <1>9, <3>2, <4>3, <4>4
    <3> QED
      BY <3>1, <3>2
  <2>3. byset = [s \in SUBSET (1..p) |-> IF s = {} THEN sc.val
                                     ELSE Append(byset[s \ {Md!Max(s)}], S(seq[Md!Max(s)]))]
    <3> HIDE DEF S, seq, a
    <3> QED
      BY <2>1, <2>2
  <2> HIDE DEF S, a
  <2> QED
    BY <1>8, <2>3
<1>12. Is(x)
  <2> HIDE DEF Is
  <2> QED
    BY <1>11, Zenon
<1>13. x[1..p] = byset[1..p]
  <2> HIDE DEF x, S, seq, a
  <2>1. x[{}] = byset[{}]
    BY <1>8, <1>11, <1>12
  <2>2. \A s \in SUBSET (1..p) :
          s # {} => (x[s \ {Max(s)}] = byset[s \ {Max(s)}] => x[s] = byset[s])
    <3> SUFFICES ASSUME NEW s \in SUBSET (1..p), s # {}, x[s \ {Max(s)}] = byset[s \ {Max(s)}]
                 PROVE  x[s] = byset[s]
      OBVIOUS
    <3>1. x[s] = Append(x[s \ {Md!Max(s)}], S(seq[Md!Max(s)]))
      BY <1>8, <1>12
    <3>2. byset[s] = Append(byset[s \ {Md!Max(s)}], S(seq[Md!Max(s)]))
      BY <1>8, <1>11
    <3> HIDE DEF Is
    <3> QED
      BY <1>9, <3>1, <3>2
  <2> HIDE DEF Is
  <2> QED
    BY <2>1, <2>2, FoldIsOne
<1> HIDE DEF x, Is, seq, S
<1> DEFINE T == {i \in Nat : i <= p => f[i] = ContentBlocks(m, q + i)}
<1>14. 0 \in T
  <2>1. f[0] = a /\ q + 0 = q
    BY <1>5 DEF FoldsInOrder
  <2> QED
    BY <2>1
<1>15. ASSUME NEW i \in Nat, i \in T PROVE i + 1 \in T
  <2> SUFFICES ASSUME i + 1 <= p PROVE f[i + 1] = ContentBlocks(m, q + (i + 1))
    OBVIOUS
  <2>1. i \in 0..p - 1 /\ i + 1 \in 1..p /\ i \in 0..p /\ i <= p /\ q + i \in Nat
        /\ (q + i) + 1 = q + (i + 1) /\ (i + 1) - 1 = i
    OBVIOUS
  <2>2. f[i + 1] = h[<<i + 1, f[i]>>]
    BY <1>5, <2>1 DEF FoldsInOrder
  <2>3. f[i + 1] = Append(f[i], D(i + 1))
    BY <1>2, <2>1, <2>2
  <2>4. f[i] = ContentBlocks(m, q + i)
    BY <1>15, <2>1
  <2>5. Append(ContentBlocks(m, q + i), ContentBlock(m, q + i)) = ContentBlocks(m, (q + i) + 1)
    BY <2>1, BlocksAre
  <2> QED
    BY <2>1, <2>3, <2>4, <2>5 DEF D
<1> HIDE DEF T
<1>16. \A i \in Nat : i \in T
  BY <1>14, <1>15, SetInduction, Zenon
<1>17. f[p] = ContentBlocks(m, q + p)
  BY <1>16 DEF T
<1> QED
  BY <1>5, <1>7, <1>8, <1>13, <1>17 DEF FoldsInOrder

\* Blocks from the caller's memory, and the rest into the buffer.
LEMMA LongAbsorbs ==
  ASSUME NEW m \in Nat, NEW q \in Nat, NEW l \in Nat, NEW sc, NEW data,
         Absorbed(sc, m, q, 0), PieceOf(data, m, BLEN * q, l), BLEN * q + l < Span
  PROVE  AbsorbedTo(Md!Long(sc, data), m, BLEN * q + l)
<1>1. PICK p \in Nat, r \in 0..BLEN - 1 : p = l \div BLEN /\ l = BLEN * p + r
  <2>1. PICK c \in Int, d \in 0..BLEN - 1 : c = l \div BLEN /\ l = BLEN * c + d
    <3>1. PICK n \in Int : n = l
      OBVIOUS
    <3>2. PICK c \in Int, d \in 0..BLEN - 1 : c = n \div BLEN /\ n = BLEN * c + d
      BY Sizes, DivMod
    <3> QED
      BY <3>1, <3>2
  <2>2. l \div BLEN \in Nat
    BY Sizes, DivNat
  <2> QED
    BY <2>1, <2>2
<1>2. PICK o \in Nat, z \in Nat : o = BLEN * q /\ z = BLEN * p
  BY Sizes
<1>3. p * BLEN = z /\ BLEN * (q + p) = o + z /\ l = z + r /\ z <= l /\ l - z = r
  BY <1>1, <1>2, Sizes
<1>4. /\ data \in Seq(Symbol) /\ Len(data) = l
      /\ PieceOf(SubSeq(data, z + 1, Len(data)), m, o + z, l - z)
  <2>1. PieceOf(data, m, o, l) /\ z <= l
    BY <1>2, <1>3
  <2> QED
    BY <2>1, PieceParts
<1>5. sc \in Contexts /\ sc.count = o + 0 /\ sc.val = ContentBlocks(m, q)
  BY <1>2 DEF Absorbed
<1> DEFINE rest == SubSeq(data, z + 1, Len(data))
           mem == Md!Memcpy(sc.buf, 0, rest)
<1>6. mem \in Block /\ Content(mem, m, o + z, r)
  <2>1. PieceOf(rest, m, (o + z) + 0, r) /\ o + z \in Nat /\ r \in Nat /\ 0 + r <= BLEN /\ 0 + r = r
    BY <1>3, <1>4, Sizes
  <2>2. sc.buf \in Block /\ Content(sc.buf, m, o + z, 0)
    BY <1>5 DEF Contexts, Content
  <2> HIDE DEF rest
  <2>3. mem \in Block /\ Content(mem, m, o + z, 0 + r)
    BY <2>1, <2>2, CopyContent
  <2> QED
    BY <2>1, <2>3
<1>7. Md!Long(sc, data).val = ContentBlocks(m, q + p)
  BY <1>1, <1>5, LongBlocks
<1>8. (sc.count + Len(data)) % Span = o + l
  <2>1. sc.count + Len(data) = o + l /\ o + l \in Nat /\ o + l < Span /\ Span \in Nat
    BY <1>2, <1>4, <1>5, Sizes
  <2> QED
    BY <2>1, Wrapping
<1>9. /\ Md!Long(sc, data).buf = mem /\ Md!Long(sc, data).count = o + l
      /\ Md!Long(sc, data) = [buf |-> mem, val |-> Md!Long(sc, data).val, count |-> o + l]
  <2>1. (Len(data) \div BLEN) * BLEN = z
    BY <1>1, <1>3, <1>4
  <2>2. (sc.count + Len(data)) % Power(Radix, WLEN) = o + l
    BY <1>8 DEF Span
  <2> QED
    BY <2>1, <2>2 DEF Md!Long
<1> HIDE DEF mem
<1>10. Md!Long(sc, data) = [buf |-> mem, val |-> ContentBlocks(m, q + p), count |-> o + l]
  BY <1>7, <1>9
<1>11. ContentBlocks(m, q + p) \in Seq(Block) /\ q + p \in Nat
  <2> q + p \in Nat
    OBVIOUS
  <2> QED
    BY BlocksAre
<1>12. BLEN * (q + p) + r = o + l
  BY <1>3
<1>13. Absorbed(Md!Long(sc, data), m, q + p, r)
  <2>1. PICK c : c = Md!Long(sc, data)
    OBVIOUS
  <2>2. c \in Contexts /\ c.count = o + l /\ c.val = ContentBlocks(m, q + p) /\ c.buf = mem
    <3>1. o + l \in Nat
      OBVIOUS
    <3> QED
      BY <1>6, <1>10, <1>11, <2>1, <3>1 DEF Contexts
  <2> QED
    BY <1>3, <1>6, <1>12, <2>1, <2>2 DEF Absorbed
<1> QED
  BY <1>2, <1>11, <1>12, <1>13 DEF AbsorbedTo

\* Whichever way update takes.
LEMMA UpdateAbsorbs ==
  ASSUME NEW m \in Nat, NEW o \in Nat, NEW l \in Nat, o + l < Span, NEW sc, NEW data, NEW aligned,
         AbsorbedTo(sc, m, o), PieceOf(data, m, o, l)
  PROVE  AbsorbedTo(Md!update(sc, data, aligned), m, o + l)
<1>1. PICK q \in Nat, r \in 0..BLEN - 1 : o = BLEN * q + r /\ Absorbed(sc, m, q, r)
  BY DEF AbsorbedTo
<1>2. Md!current(sc) = r
  BY <1>1, CurrentIs
<1>3. Len(data) = l
  BY IsSeq DEF PieceOf
<1>4. PICK t \in Nat : t = (IF r > 0 THEN BLEN - r ELSE 0) /\ t <= BLEN
  <2>1. (IF r > 0 THEN BLEN - r ELSE 0) \in Nat /\ (IF r > 0 THEN BLEN - r ELSE 0) <= BLEN
    BY Sizes
  <2> QED
    BY <2>1
<1> DEFINE after == Md!short(sc, SubSeq(data, 1, t))
           rest  == SubSeq(data, t + 1, Len(data))
<1>5. Md!update(sc, data, aligned)
        = IF l < 2 * BLEN THEN Md!short(sc, data)
          ELSE IF ~UnalignedWords /\ ~aligned THEN Md!short(after, rest)
          ELSE Md!Long(after, rest)
  BY <1>2, <1>3, <1>4, Zenon DEF Md!update
<1>6. CASE l < 2 * BLEN
  BY <1>5, <1>6, ShortAbsorbs
<1>7. CASE ~(l < 2 * BLEN)
  <2>1. t <= l /\ o + t < Span /\ (o + t) + (l - t) = o + l /\ (o + t) + (l - t) < Span
        /\ o + t \in Nat /\ l - t \in Nat
    BY <1>4, <1>7, Sizes
  <2>2. PieceOf(SubSeq(data, 1, t), m, o, t) /\ PieceOf(rest, m, o + t, l - t)
    BY <2>1, PieceParts
  <2>3. AbsorbedTo(after, m, o + t)
    BY <2>1, <2>2, ShortAbsorbs
  <2> HIDE DEF after, rest
  <2>4. AbsorbedTo(Md!short(after, rest), m, o + l)
    <3>1. AbsorbedTo(Md!short(after, rest), m, (o + t) + (l - t))
      BY <2>1, <2>2, <2>3, ShortAbsorbs
    <3> QED
      BY <2>1, <3>1
  <2>5. AbsorbedTo(Md!Long(after, rest), m, o + l)
    <3>1. PICK p \in Nat, s \in 0..BLEN - 1 : o + t = BLEN * p + s /\ Absorbed(after, m, p, s)
      BY <2>3 DEF AbsorbedTo
    <3>2. s = 0
      <4>1. PICK c \in Nat : o + t = BLEN * c + 0
        <5>1. CASE r > 0
          <6>1. o + t = BLEN * (q + 1) + 0 /\ q + 1 \in Nat
            <7>1. PICK u \in Int : u = BLEN * q
              BY Sizes
            <7>2. BLEN * (q + 1) = u + BLEN
              BY <7>1, Sizes
            <7> QED
              BY <1>1, <1>4, <5>1, <7>1, <7>2, Sizes
          <6> QED
            BY <6>1
        <5>2. CASE ~(r > 0)
          <6>1. o + t = BLEN * q + 0
            BY <1>1, <1>4, <5>2, Sizes
          <6> QED
            BY <6>1
        <5> QED
          BY <5>1, <5>2
      <4>2. BLEN * p + s = BLEN * c + 0 /\ BLEN \in Nat \ {0} /\ 0 \in 0..BLEN - 1
        BY <3>1, <4>1, Sizes
      <4> QED
        BY <4>2, Remainder
    <3>3. BLEN * p = o + t
      <4>1. BLEN * p \in Nat
        BY Sizes
      <4> QED
        BY <3>1, <3>2, <4>1
    <3>4. AbsorbedTo(Md!Long(after, rest), m, BLEN * p + (l - t))
      <4>1. PICK w \in Nat : w = l - t
        BY <2>1
      <4>2. Absorbed(after, m, p, 0) /\ PieceOf(rest, m, BLEN * p, w) /\ BLEN * p + w < Span
        BY <2>1, <2>2, <3>1, <3>2, <3>3, <4>1
      <4> QED
        BY <4>1, <4>2, LongAbsorbs
    <3> QED
      BY <2>1, <3>3, <3>4
  <2> QED
    BY <1>5, <1>7, <2>4, <2>5
<1> QED
  BY <1>6, <1>7

-----------------------------------------------------------------------------
(* HashStream: the words of length.                                        *)

\* Digit e of x in base Radix.
DigitAt(x, e) == (x \div Power(Radix, e)) % Radix

\* What is left of x before each digit.
Halves(n, x) == [i \in 1..n |-> x \div Power(Radix, n - i)]

IsRest(f, n, x) == f = [i \in 1..n |-> IF i = n THEN x ELSE f[i + 1] \div Radix]

\* Dividing by a power, one base at a time.
LEMMA DivPower ==
  ASSUME NEW x \in Nat, NEW e \in Nat
  PROVE  x \div Power(Radix, e + 1) = (x \div Power(Radix, e)) \div Radix
<1>1. PICK p \in Nat \ {0} : p = Power(Radix, e)
  BY Sizes, PowerPositive
<1>2. Power(Radix, e + 1) = Radix * p
  BY <1>1, Sizes, PowerNext
<1>3. x \div (Radix * p) = (x \div p) \div Radix
  BY <1>1, Sizes, DivDiv
<1> QED
  BY <1>1, <1>2, <1>3

\* The recursion that peels off digits is dividing by powers.
LEMMA RestIs ==
  ASSUME NEW n \in Nat \ {0}, NEW x \in Nat
  PROVE  (CHOOSE y : IsRest(y, n, x)) = Halves(n, x)
<1> DEFINE h == Halves(n, x)
           f == CHOOSE y : IsRest(y, n, x)
<1>1. \A i \in 1..n - 1 : h[i] = h[i + 1] \div Radix
  <2> SUFFICES ASSUME NEW i \in 1..n - 1 PROVE h[i] = h[i + 1] \div Radix
    OBVIOUS
  <2>1. PICK e \in Nat : e = n - (i + 1) /\ n - i = e + 1
    <3>1. n - (i + 1) \in Nat /\ n - i = (n - (i + 1)) + 1
      OBVIOUS
    <3> QED
      BY <3>1
  <2>2. i \in 1..n /\ i + 1 \in 1..n
    OBVIOUS
  <2>3. h[i] = x \div Power(Radix, e + 1) /\ h[i + 1] = x \div Power(Radix, e)
    BY <2>1, <2>2 DEF Halves
  <2> QED
    BY <2>3, DivPower
<1>2. h[n] = x
  <2>1. h[n] = x \div Power(Radix, 0)
    <3>1. n \in 1..n /\ n - n = 0
      OBVIOUS
    <3> QED
      BY <3>1 DEF Halves
  <2>2. Power(Radix, 0) = 1
    BY Sizes, PowerZero
  <2>3. x \div 1 = x
    OBVIOUS
  <2> QED
    BY <2>1, <2>2, <2>3
<1>3. IsRest(h, n, x)
  <2>1. \A i \in 1..n : h[i] = IF i = n THEN x ELSE h[i + 1] \div Radix
    <3> SUFFICES ASSUME NEW i \in 1..n PROVE h[i] = IF i = n THEN x ELSE h[i + 1] \div Radix
      OBVIOUS
    <3>1. i # n => i \in 1..n - 1
      OBVIOUS
    <3> HIDE DEF h
    <3> QED
      BY <1>1, <1>2, <3>1
  <2>2. h = [i \in 1..n |-> h[i]]
    BY DEF Halves
  <2> HIDE DEF h
  <2> QED
    BY <2>1, <2>2 DEF IsRest
<1>4. IsRest(f, n, x)
  <2> HIDE DEF h
  <2> QED
    BY <1>3, Zenon
<1> HIDE DEF f
<1> DEFINE T == {i \in 1..n : f[i] = h[i]}
<1>5. (n - 1) + 1 \in T
  <2>1. n \in 1..n /\ (n - 1) + 1 = n
    OBVIOUS
  <2>2. f[n] = x
    BY <1>4, <2>1 DEF IsRest
  <2> HIDE DEF h
  <2> QED
    BY <1>2, <2>1, <2>2
<1>6. \A i \in 1..n - 1 : i + 1 \in T => i \in T
  <2> SUFFICES ASSUME NEW i \in 1..n - 1, i + 1 \in T PROVE i \in T
    OBVIOUS
  <2>1. i \in 1..n /\ i # n
    OBVIOUS
  <2>2. f[i] = f[i + 1] \div Radix
    BY <1>4, <2>1 DEF IsRest
  <2>3. f[i + 1] = h[i + 1]
    OBVIOUS
  <2> HIDE DEF h
  <2> QED
    BY <1>1, <2>1, <2>2, <2>3
<1> HIDE DEF T
<1>7. \A i \in 1..(n - 1) + 1 : i \in T
  <2> n - 1 \in Nat
    OBVIOUS
  <2> QED
    BY <1>5, <1>6, DownInduction
<1>8. \A i \in 1..n : f[i] = h[i]
  <2>1. (n - 1) + 1 = n
    OBVIOUS
  <2> QED
    BY <1>7, <2>1 DEF T
<1>9. f = [i \in 1..n |-> f[i]] /\ h = [i \in 1..n |-> h[i]]
  <2>1. f = [i \in 1..n |-> f[i]]
    BY <1>4 DEF IsRest
  <2> QED
    BY <2>1 DEF Halves
<1>10. f = h
  <2> HIDE DEF h
  <2> QED
    BY <1>8, <1>9
<1> QED
  BY <1>10 DEF f

\* sph_enc64be, digit by digit.
LEMMA WordIs ==
  ASSUME NEW x \in Nat
  PROVE  Md!sph_enc64be(x) = [i \in 1..WLEN |-> DigitAt(x, WLEN - i)]
<1> DEFINE f == CHOOSE y : IsRest(y, WLEN, x)
<1>1. Md!sph_enc64be(x) = [i \in 1..WLEN |-> f[i] % Radix]
  BY Zenon DEF Md!sph_enc64be, IsRest
<1>2. f = Halves(WLEN, x)
  BY Sizes, RestIs
<1> HIDE DEF f
<1> QED
  BY <1>1, <1>2 DEF Halves, DigitAt

\* A quotient has no digits where the number is smaller.
LEMMA DigitZero ==
  ASSUME NEW x \in Nat, NEW d \in Nat, NEW e \in Nat, e >= d, x < Power(Radix, d)
  PROVE  DigitAt(x, e) = 0
<1>1. PICK j \in Nat : e = d + j
  <2>1. e - d \in Nat /\ e = d + (e - d)
    OBVIOUS
  <2> QED
    BY <2>1
<1>2. PICK p \in Nat \ {0}, s \in Nat \ {0} : p = Power(Radix, d) /\ s = Power(Radix, j)
  BY Sizes, PowerPositive
<1>3. Power(Radix, e) = p * s
  BY <1>1, <1>2, Sizes, PowerAdd
<1>4. x \div (s * p) = (x \div p) \div s /\ s * p = p * s
  <2>1. x \div (s * p) = (x \div p) \div s
    BY <1>2, DivDiv
  <2> QED
    BY <1>2, <2>1
<1>5. x \div p = 0
  BY <1>2, DivNat
<1>6. 0 \div s = 0 /\ 0 % Radix = 0
  BY <1>2, Sizes
<1> QED
  BY <1>3, <1>4, <1>5, <1>6 DEF DigitAt

\* The digits behind another.
LEMMA DigitAbove ==
  ASSUME NEW x \in Nat, NEW d \in Nat, NEW e \in Nat
  PROVE  DigitAt(x \div Power(Radix, d), e) = DigitAt(x, d + e)
<1>1. PICK p \in Nat \ {0}, s \in Nat \ {0} : p = Power(Radix, d) /\ s = Power(Radix, e)
  BY Sizes, PowerPositive
<1>2. Power(Radix, d + e) = s * p
  <2>1. Power(Radix, d + e) = p * s
    BY <1>1, Sizes, PowerAdd
  <2> QED
    BY <1>1, <2>1
<1>3. x \div (s * p) = (x \div p) \div s
  BY <1>1, DivDiv
<1> QED
  BY <1>1, <1>2, <1>3 DEF DigitAt

\* The digits of a remainder.
LEMMA DigitBelow ==
  ASSUME NEW x \in Nat, NEW d \in Nat, NEW e \in Nat, e < d
  PROVE  DigitAt(x % Power(Radix, d), e) = DigitAt(x, e)
<1>1. PICK j \in Nat : d = e + (j + 1)
  <2>1. d - e - 1 \in Nat /\ d = e + ((d - e - 1) + 1)
    OBVIOUS
  <2> QED
    BY <2>1
<1>2. PICK p \in Nat \ {0}, s \in Nat \ {0}, u \in Nat \ {0} :
        p = Power(Radix, e) /\ s = Power(Radix, j) /\ u = Power(Radix, d)
  BY Sizes, PowerPositive
<1>3. Power(Radix, j + 1) = Radix * s
  BY <1>2, Sizes, PowerNext
<1>4. u = p * (Radix * s)
  <2>1. u = p * Power(Radix, j + 1)
    BY <1>1, <1>2, Sizes, PowerAdd
  <2> QED
    BY <1>3, <2>1
<1>5. PICK a \in Int, y \in 0..u - 1 : a = x \div u /\ y = x % u /\ x = u * a + y
  <2>1. x \div u \in Int /\ x % u \in 0..u - 1 /\ x = u * (x \div u) + (x % u)
    <3>1. x \in Int /\ u \in Nat \ {0}
      BY <1>2
    <3> QED
      BY <3>1, DivMod
  <2> QED
    BY <2>1
<1>6. PICK b \in Int, c \in Int : b = s * a /\ c = b * Radix
  BY <1>2, <1>5, Sizes
<1>7. x = c * p + y
  <2>1. u * a = p * (Radix * s) * a
    BY <1>4
  <2>2. (p * (Radix * s)) * a = ((s * a) * Radix) * p
    BY <1>2, <1>5, Sizes
  <2> QED
    BY <1>5, <1>6, <2>1, <2>2
<1>8. x \div p = c + (y \div p)
  <2> y \in Int
    OBVIOUS
  <2> QED
    BY <1>2, <1>6, <1>7, AddDiv
<1>9. y \div p \in Int
  <2>1. y \in Nat /\ p \in Nat \ {0}
    BY <1>2, <1>5
  <2>2. y \div p \in Nat
    BY <2>1, DivNat
  <2> QED
    BY <2>2
<1>10. (b * Radix + (y \div p)) % Radix = (y \div p) % Radix
  BY <1>6, <1>9, Sizes, AddDiv
<1> QED
  BY <1>2, <1>5, <1>6, <1>8, <1>10 DEF DigitAt

\* The four words of length.
LengthDigits(len) == [i \in 1..4 * WLEN |-> DigitAt(8 * len, 4 * WLEN - i)]

ClosingLength(sc) ==
  Md!Zeros(2 * WLEN) \o Md!sph_enc64be(sc.count \div (Span \div 8))
    \o Md!sph_enc64be((8 * sc.count) % Span)

\* Eighths of the span are eight times as long in bits.
LEMMA EighthIs ==
  ASSUME NEW len \in Nat
  PROVE  len \div (Span \div 8) = (8 * len) \div Span
<1>1. PICK s \in Nat \ {0} : s = Span \div 8 /\ Span = s * 8
  <2>1. PICK n \in Int : n = Span /\ n > 0 /\ n % 8 = 0
    BY Sizes
  <2>2. n = 8 * (n \div 8) + (n % 8) /\ n \div 8 \in Int
    BY DivMod
  <2>3. n \div 8 \in Nat \ {0} /\ n = (n \div 8) * 8
    BY <2>1, <2>2
  <2> QED
    BY <2>1, <2>3
<1>2. PICK x \in Nat : x = 8 * len
  OBVIOUS
<1>3. x \div (s * 8) = (x \div 8) \div s
  <2>1. PICK e \in Nat \ {0} : e = 8
    OBVIOUS
  <2>2. x \div (s * e) = (x \div e) \div s
    BY DivDiv
  <2> QED
    BY <2>1, <2>2
<1>4. x \div 8 = len
  BY <1>2
<1> QED
  BY <1>1, <1>2, <1>3, <1>4

\* The length in bits stands in two words, and two more have no digits.
LEMMA LengthIs ==
  ASSUME NEW sc, NEW len \in Nat, len < Span, sc.count = len
  PROVE  ClosingLength(sc) = LengthDigits(len)
<1>1. PICK x \in Nat : x = 8 * len
  OBVIOUS
<1>2. PICK w \in Nat \ {0} : w = WLEN
  BY Sizes
<1>3. PICK zs, hi, lo :
        /\ zs = Md!Zeros(2 * WLEN) /\ hi = Md!sph_enc64be(x \div Span) /\ lo = Md!sph_enc64be(x % Span)
        /\ ClosingLength(sc) = (zs \o hi) \o lo
  BY <1>1, EighthIs DEF ClosingLength
<1>4. zs \in [1..2 * w -> Int] /\ \A i \in 1..2 * w : zs[i] = 0
  BY <1>2, <1>3 DEF Md!Zeros
<1>5. x \div Span \in Nat /\ x % Span \in Nat
  <2>1. Span \in Nat \ {0} /\ x \in Int
    BY Sizes
  <2>2. x % Span \in 0..Span - 1
    BY <2>1, DivMod
  <2> QED
    BY <2>1, <2>2, DivNat
<1>6. \A y, e : y \in Nat /\ e \in Nat => DigitAt(y, e) \in Int
  <2> SUFFICES ASSUME NEW y \in Nat, NEW e \in Nat PROVE DigitAt(y, e) \in Int
    OBVIOUS
  <2>1. PICK p \in Nat \ {0} : p = Power(Radix, e)
    BY Sizes, PowerPositive
  <2>2. PICK d \in Nat : d = y \div p
    BY DivNat
  <2>3. d % Radix \in 0..Radix - 1
    <3> d \in Int
      OBVIOUS
    <3> QED
      BY Sizes, DivMod
  <2> QED
    BY <2>1, <2>2, <2>3 DEF DigitAt
<1>7. ASSUME NEW y \in Nat, NEW v, v = Md!sph_enc64be(y)
      PROVE  v \in [1..w -> Int] /\ \A i \in 1..w : v[i] = DigitAt(y, w - i)
  <2>1. v = [i \in 1..w |-> DigitAt(y, w - i)]
    BY <1>2, <1>7, WordIs
  <2>2. \A i \in 1..w : w - i \in Nat
    OBVIOUS
  <2> QED
    BY <1>6, <2>1, <2>2
<1>8. hi \in [1..w -> Int] /\ \A i \in 1..w : hi[i] = DigitAt(x \div Span, w - i)
  BY <1>3, <1>5, <1>7
<1>9. lo \in [1..w -> Int] /\ \A i \in 1..w : lo[i] = DigitAt(x % Span, w - i)
  BY <1>3, <1>5, <1>7
<1> DEFINE zh == zs \o hi
           all == zh \o lo
<1>10. zh \in [1..2 * w + w -> Int] /\ Holds(zh, 0, zs, 2 * w) /\ Holds(zh, 2 * w, hi, w)
  <2>1. 2 * w \in Nat /\ w \in Nat
    OBVIOUS
  <2> QED
    BY <1>4, <1>8, <2>1, Concat
<1> HIDE DEF zh
<1>11. PICK k \in Nat : k = 2 * w + w
  OBVIOUS
<1>12. all \in [1..k + w -> Int] /\ Holds(all, 0, zh, k) /\ Holds(all, k, lo, w)
  BY <1>9, <1>10, <1>11, Concat
<1> HIDE DEF all
<1>13. k + w = 4 * w
  BY <1>11
<1>14. Power(Radix, w) = Span
  BY <1>2 DEF Span
<1>15. ASSUME NEW i \in 1..4 * w PROVE all[i] = DigitAt(x, 4 * w - i)
  <2>1. CASE i \in 1..2 * w
    <3>1. all[0 + i] = zh[i]
      <4> i \in 1..k
        BY <1>11, <2>1
      <4> QED
        BY <1>12 DEF Holds
    <3>2. zh[0 + i] = zs[i]
      BY <1>10, <2>1 DEF Holds
    <3>3. all[i] = 0
      BY <1>4, <2>1, <3>1, <3>2
    <3>4. x < Power(Radix, 2 * w)
      <4>1. Power(Radix, w + w) = Span * Span
        <5>1. Power(Radix, w + w) = Power(Radix, w) * Power(Radix, w)
          BY Sizes, PowerAdd
        <5> QED
          BY <1>14, <5>1
      <4>2. PICK s \in Nat : s = Span /\ s >= 8 /\ len < s
        BY Sizes
      <4>3. 8 * s <= s * s
        <5>1. PICK e \in Nat : s = 8 + e
          <6> s - 8 \in Nat /\ s = 8 + (s - 8)
            BY <4>2
          <6> QED
            OBVIOUS
        <5>2. s * s = 8 * s + e * s /\ e * s \in Nat
          BY <5>1
        <5> QED
          BY <5>2
      <4>4. w + w = 2 * w
        OBVIOUS
      <4>5. x < 8 * s
        BY <1>1, <4>2
      <4>6. PICK p \in Nat : p = s * s
        OBVIOUS
      <4> QED
        BY <4>1, <4>2, <4>3, <4>4, <4>5, <4>6
    <3>5. 4 * w - i \in Nat /\ 2 * w \in Nat /\ 4 * w - i >= 2 * w
      BY <2>1
    <3>6. DigitAt(x, 4 * w - i) = 0
      BY <3>4, <3>5, DigitZero
    <3> QED
      BY <3>3, <3>6
  <2>2. CASE i \in 2 * w + 1..3 * w
    <3>1. PICK j \in 1..w : i = 2 * w + j /\ 4 * w - i = w + (w - j) /\ w - j \in Nat
      <4> i - 2 * w \in 1..w /\ i = 2 * w + (i - 2 * w) /\ 4 * w - i = w + (w - (i - 2 * w))
          /\ w - (i - 2 * w) \in Nat
        BY <2>2
      <4> QED
        OBVIOUS
    <3>2. all[0 + i] = zh[i]
      <4> i \in 1..k
        BY <1>11, <2>2
      <4> QED
        BY <1>12 DEF Holds
    <3>3. zh[2 * w + j] = hi[j]
      BY <1>10 DEF Holds
    <3>4. hi[j] = DigitAt(x \div Span, w - j)
      BY <1>8
    <3>5. DigitAt(x \div Power(Radix, w), w - j) = DigitAt(x, w + (w - j))
      BY <3>1, DigitAbove
    <3> QED
      BY <1>14, <3>1, <3>2, <3>3, <3>4, <3>5
  <2>3. CASE i \in 3 * w + 1..4 * w
    <3>1. PICK j \in 1..w : i = k + j /\ 4 * w - i = w - j /\ w - j \in Nat /\ w - j < w
      <4> i - 3 * w \in 1..w /\ i = k + (i - 3 * w) /\ 4 * w - i = w - (i - 3 * w)
          /\ w - (i - 3 * w) \in Nat /\ w - (i - 3 * w) < w
        BY <1>11, <2>3
      <4> QED
        OBVIOUS
    <3>2. all[k + j] = lo[j]
      BY <1>12 DEF Holds
    <3>3. lo[j] = DigitAt(x % Span, w - j)
      BY <1>9
    <3>4. DigitAt(x % Power(Radix, w), w - j) = DigitAt(x, w - j)
      BY <3>1, DigitBelow
    <3> QED
      BY <1>14, <3>1, <3>2, <3>3, <3>4
  <2>4. i \in 1..2 * w \/ i \in 2 * w + 1..3 * w \/ i \in 3 * w + 1..4 * w
    OBVIOUS
  <2> QED
    BY <2>1, <2>2, <2>3, <2>4
<1>16. PICK d : d = LengthDigits(len)
  OBVIOUS
<1>17. d \in [1..4 * w -> Int] /\ \A i \in 1..4 * w : d[i] = DigitAt(x, 4 * w - i)
  <2>1. d = [i \in 1..4 * w |-> DigitAt(x, 4 * w - i)]
    BY <1>1, <1>2, <1>16 DEF LengthDigits
  <2>2. \A i \in 1..4 * w : 4 * w - i \in Nat
    OBVIOUS
  <2> QED
    BY <1>6, <2>1, <2>2
<1>18. all = d
  <2>1. all \in [1..4 * w -> Int] /\ 4 * w \in Nat
    BY <1>12, <1>13
  <2>2. \A i \in 1..4 * w : all[i] = d[i]
    BY <1>15, <1>17
  <2> QED
    BY <1>17, <2>1, <2>2, SameSeq
<1> QED
  BY <1>3, <1>16, <1>18 DEF all, zh

-----------------------------------------------------------------------------
(* HashStream: the padding.                                                *)

\* Byte i of a padded message whose words of length begin behind place room.
PadByte(m, len, room, i) ==
  IF i <= len THEN ContentByte(m, i)
  ELSE IF i = len + 1 THEN Radix \div 2
  ELSE IF i <= room THEN 0
  ELSE DigitAt(8 * len, room + 4 * WLEN - i)

\* mem begins with n bytes of the padded message from behind place o on.
Fills(mem, m, len, room, o, n) == \A i \in 1..n : mem[i] = PadByte(m, len, room, o + i)

IsPadded(p, m, len, room, n) == p \in [1..n -> Symbol] /\ Fills(p, m, len, room, 0, n)

\* Halves and digits are numbers.
LEMMA LengthNumbers ==
  /\ Radix \div 2 \in Int
  /\ \A x, e : x \in Nat /\ e \in Nat => DigitAt(x, e) \in Int
<1>1. Radix \div 2 \in Int
  <2>1. PICK r \in Nat : r = Radix
    BY Sizes
  <2>2. r \div 2 \in Int
    OBVIOUS
  <2> QED
    BY <2>1, <2>2
<1>2. ASSUME NEW x \in Nat, NEW e \in Nat PROVE DigitAt(x, e) \in Int
  <2>1. PICK p \in Nat \ {0} : p = Power(Radix, e)
    BY Sizes, PowerPositive
  <2>2. PICK d \in Int : d = x \div p
    <3> x \div p \in Nat
      BY DivNat
    <3> QED
      OBVIOUS
  <2>3. d % Radix \in 0..Radix - 1
    BY Sizes, DivMod
  <2> QED
    BY <2>1, <2>2, <2>3 DEF DigitAt
<1> QED
  BY <1>1, <1>2

\* The words of length, digit by digit.
LEMMA DigitsAre ==
  ASSUME NEW len \in Nat
  PROVE  /\ LengthDigits(len) \in [1..4 * WLEN -> Symbol]
         /\ \A i \in 1..4 * WLEN : LengthDigits(len)[i] = DigitAt(8 * len, 4 * WLEN - i)
<1>1. PICK w \in Nat : w = 4 * WLEN
  BY Sizes
<1>2. PICK x \in Nat : x = 8 * len
  OBVIOUS
<1>3. \A i \in 1..w : w - i \in Nat
  OBVIOUS
<1>4. \A i \in 1..w : DigitAt(x, w - i) \in Int
  BY <1>3, LengthNumbers
<1> QED
  BY <1>1, <1>2, <1>4 DEF LengthDigits, Symbol

\* There is one number of zeros that ends the padding at the end of a block.
LEMMA ZerosIs ==
  ASSUME NEW len \in Nat, NEW z \in 0..BLEN - 1, (len + 1 + z + 4 * WLEN) % BLEN = 0
  PROVE  (CHOOSE y \in 0..BLEN - 1 : (len + 1 + y + 4 * WLEN) % BLEN = 0) = z
<1> SUFFICES ASSUME NEW y \in 0..BLEN - 1, (len + 1 + y + 4 * WLEN) % BLEN = 0 PROVE y = z
  OBVIOUS
<1>1. PICK i \in Int, j \in Int : i = len + 1 + y + 4 * WLEN /\ j = len + 1 + z + 4 * WLEN
  BY Sizes
<1>2. i - j = y - z /\ j - i = z - y
  BY <1>1, Sizes
<1>3. i - j < BLEN /\ j - i < BLEN /\ i % BLEN = j % BLEN
  BY <1>1, <1>2, Sizes
<1>4. i = j
  BY <1>3, Sizes, Apart
<1> QED
  BY <1>2, <1>4, Sizes

\* The padded message, byte by byte.
LEMMA PaddedIs ==
  ASSUME NEW m \in Nat, NEW len \in Nat, NEW z \in 0..BLEN - 1, (len + 1 + z + 4 * WLEN) % BLEN = 0
  PROVE  IsPadded(PaddedMessage(m, len), m, len, len + 1 + z, len + 1 + z + 4 * WLEN)
<1>1. PICK w \in Nat \ {0} : w = 4 * WLEN
  BY Sizes
<1>2. PICK x \in Nat : x = 8 * len
  OBVIOUS
<1>3. PICK ct, hf, zs, ds :
        /\ ct = [i \in 1..len |-> ContentByte(m, i)] /\ hf = <<Radix \div 2>>
        /\ zs = [i \in 1..z |-> 0] /\ ds = LengthDigits(len)
  OBVIOUS
<1>4. PaddedMessage(m, len) = ((ct \o hf) \o zs) \o ds
  <2> DEFINE f == CHOOSE y : IsRest(y, w, x)
  <2>1. PaddedMessage(m, len) = ((ct \o hf) \o zs) \o [i \in 1..w |-> f[i] % Radix]
    <3> DEFINE zz == CHOOSE y \in 0..BLEN - 1 : (len + 1 + y + 4 * WLEN) % BLEN = 0
               ff == CHOOSE y : IsRest(y, 4 * WLEN, 8 * len)
    <3>1. PaddedMessage(m, len)
            = (([i \in 1..len |-> ContentByte(m, i)] \o <<Radix \div 2>>)
                 \o [i \in 1..zz |-> 0]) \o [i \in 1..4 * WLEN |-> ff[i] % Radix]
      BY Zenon DEF PaddedMessage, IsRest
    <3>2. zz = z
      BY ZerosIs
    <3> HIDE DEF zz
    <3> QED
      BY <1>1, <1>2, <1>3, <3>1, <3>2
  <2>2. f = Halves(w, x)
    BY RestIs
  <2> HIDE DEF f
  <2>3. [i \in 1..w |-> f[i] % Radix] = [i \in 1..w |-> DigitAt(x, w - i)]
    BY <2>2 DEF Halves, DigitAt
  <2>4. ds = [i \in 1..w |-> DigitAt(x, w - i)]
    BY <1>1, <1>2, <1>3 DEF LengthDigits
  <2> QED
    BY <2>1, <2>3, <2>4
<1>5. ct \in [1..len -> Symbol] /\ \A i \in 1..len : ct[i] = ContentByte(m, i)
  <2>1. \A i \in 1..len : ContentByte(m, i) \in Symbol
    BY DEF Symbol
  <2> QED
    BY <1>3, <2>1
<1>6. hf \in [1..1 -> Symbol] /\ hf[1] = Radix \div 2
  <2>1. Radix \div 2 \in Symbol
    BY LengthNumbers DEF Symbol
  <2> QED
    BY <1>3, <2>1
<1>7. zs \in [1..z -> Symbol] /\ \A i \in 1..z : zs[i] = 0
  BY <1>3 DEF Symbol
<1>8. ds \in [1..w -> Symbol] /\ \A i \in 1..w : ds[i] = DigitAt(x, w - i)
  BY <1>1, <1>2, <1>3, DigitsAre
<1> DEFINE a == ct \o hf
           b == a \o zs
           c == b \o ds
<1>9. PICK n1 \in Nat : n1 = len + 1
  OBVIOUS
<1>9a. PICK n2 \in Nat : n2 = n1 + z
  BY Sizes
<1>10. a \in [1..n1 -> Symbol] /\ Holds(a, 0, ct, len) /\ Holds(a, len, hf, 1)
  BY <1>5, <1>6, <1>9, Concat
<1> HIDE DEF a
<1>11. b \in [1..n2 -> Symbol] /\ Holds(b, 0, a, n1) /\ Holds(b, n1, zs, z)
  <2> z \in Nat
    BY Sizes
  <2> QED
    BY <1>7, <1>9a, <1>10, Concat
<1> HIDE DEF b
<1>12. c \in [1..n2 + w -> Symbol] /\ Holds(c, 0, b, n2) /\ Holds(c, n2, ds, w)
  BY <1>8, <1>11, Concat
<1> HIDE DEF c
<1>13. PICK room \in Nat : room = n2 /\ room = len + 1 + z
  BY <1>9, <1>9a
<1>14. ASSUME NEW i \in 1..n2 + w PROVE c[i] = PadByte(m, len, room, i)
  <2>1. CASE i \in 1..len
    <3>1. c[0 + i] = b[i] /\ b[0 + i] = a[i] /\ a[0 + i] = ct[i] /\ i <= len
      <4>1. i \in 1..n2 /\ i \in 1..n1 /\ i <= len
        BY <1>9, <1>9a, <2>1, Sizes
      <4> QED
        BY <1>10, <1>11, <1>12, <2>1, <4>1 DEF Holds
    <3>2. PadByte(m, len, room, i) = ContentByte(m, i)
      BY <3>1 DEF PadByte
    <3> QED
      BY <1>5, <2>1, <3>1, <3>2
  <2>2. CASE i = len + 1
    <3>1. c[0 + i] = b[i] /\ b[0 + i] = a[i] /\ a[len + 1] = hf[1] /\ ~(i <= len)
      <4>1. i \in 1..n2 /\ i \in 1..n1 /\ ~(i <= len) /\ 1 \in 1..1
        BY <1>9, <1>9a, <2>2, Sizes
      <4> QED
        BY <1>10, <1>11, <1>12, <4>1 DEF Holds
    <3>2. PadByte(m, len, room, i) = Radix \div 2
      BY <2>2, <3>1 DEF PadByte
    <3> QED
      BY <1>6, <2>2, <3>1, <3>2
  <2>3. CASE i \in n1 + 1..n2
    <3>1. PICK j \in 1..z : i = n1 + j
      <4> i - n1 \in 1..z /\ i = n1 + (i - n1)
        BY <1>9, <1>9a, <2>3, Sizes
      <4> QED
        OBVIOUS
    <3>2. c[0 + i] = b[i] /\ b[n1 + j] = zs[j] /\ ~(i <= len) /\ i # len + 1 /\ i <= room
      <4>1. i \in 1..n2 /\ ~(i <= len) /\ i # len + 1 /\ i <= room
        BY <1>9, <1>9a, <1>13, <2>3, Sizes
      <4> QED
        BY <1>11, <1>12, <4>1 DEF Holds
    <3>3. PadByte(m, len, room, i) = 0
      BY <3>2 DEF PadByte
    <3> QED
      BY <1>7, <3>1, <3>2, <3>3
  <2>4. CASE i \in n2 + 1..n2 + w
    <3>1. PICK j \in 1..w : i = n2 + j
      <4> i - n2 \in 1..w /\ i = n2 + (i - n2)
        BY <2>4
      <4> QED
        OBVIOUS
    <3>2. c[n2 + j] = ds[j] /\ ~(i <= len) /\ i # len + 1 /\ ~(i <= room) /\ room + w - i = w - j
      <4>1. ~(i <= len) /\ i # len + 1 /\ ~(i <= room) /\ room + w - i = w - j
        BY <1>9, <1>9a, <1>13, <3>1, Sizes
      <4> QED
        BY <1>12, <4>1 DEF Holds
    <3>3. PadByte(m, len, room, i) = DigitAt(x, w - j)
      BY <1>1, <1>2, <3>2 DEF PadByte
    <3> QED
      BY <1>8, <3>1, <3>2, <3>3
  <2>5. i \in 1..len \/ i = len + 1 \/ i \in n1 + 1..n2 \/ i \in n2 + 1..n2 + w
    BY <1>9, <1>9a
  <2> QED
    BY <2>1, <2>2, <2>3, <2>4, <2>5
<1>15. \A i \in 1..n2 + w : 0 + i = i
  OBVIOUS
<1>16. Fills(c, m, len, room, 0, n2 + w)
  BY <1>14, <1>15 DEF Fills
<1>17. c = PaddedMessage(m, len)
  BY <1>4 DEF c, b, a
<1>18. len + 1 + z = room /\ len + 1 + z + 4 * WLEN = n2 + w
  BY <1>1, <1>13
<1> QED
  BY <1>12, <1>16, <1>17, <1>18 DEF IsPadded

\* The 1 bit behind the message.
LEMMA MarkFills ==
  ASSUME NEW m \in Nat, NEW o \in Nat, NEW r \in Nat, r < BLEN, NEW len \in Nat, len = o + r,
         NEW room, NEW mem \in Block, Content(mem, m, o, r)
  PROVE  /\ Md!Memcpy(mem, r, <<Radix \div 2>>) \in Block
         /\ Fills(Md!Memcpy(mem, r, <<Radix \div 2>>), m, len, room, o, r + 1)
<1>1. PICK d \in [1..1 -> Symbol] : d = <<Radix \div 2>> /\ d[1] = Radix \div 2
  <2>1. Radix \div 2 \in Symbol
    BY LengthNumbers DEF Symbol
  <2>2. <<Radix \div 2>> \in [1..1 -> Symbol] /\ <<Radix \div 2>>[1] = Radix \div 2
    BY <2>1
  <2> QED
    BY <2>2
<1>2. PICK n \in Nat : n = 1 /\ r + n <= BLEN
  BY Sizes
<1>3. Md!Memcpy(mem, r, d) \in Block /\ Copied(Md!Memcpy(mem, r, d), mem, r, d, n)
  BY <1>2, MemcpyIs
<1>4. PICK c \in Block : c = Md!Memcpy(mem, r, d) /\ Copied(c, mem, r, d, n)
  BY <1>3
<1>5. ASSUME NEW i \in 1..r + 1 PROVE c[i] = PadByte(m, len, room, o + i)
  <2>1. CASE i <= r
    <3>1. i \in 1..BLEN /\ i \in 1..r /\ o + i <= len
      BY <2>1, Sizes
    <3>2. c[i] = mem[i]
      BY <1>4, <2>1, <3>1 DEF Copied
    <3> QED
      BY <3>1, <3>2 DEF Content, PadByte
  <2>2. CASE i = r + 1
    <3>1. c[r + 1] = d[1]
      BY <1>2, <1>4 DEF Copied, Holds
    <3>2. o + i = len + 1 /\ ~(o + i <= len)
      BY <2>2
    <3> QED
      BY <1>1, <2>2, <3>1, <3>2 DEF PadByte
  <2> QED
    BY <2>1, <2>2
<1> QED
  BY <1>1, <1>4, <1>5 DEF Fills

\* Zeros up to the place of the length.
LEMMA ZerosFill ==
  ASSUME NEW m, NEW o \in Nat, NEW at \in Nat, NEW n \in Nat, at + n <= BLEN, NEW len \in Nat,
         NEW room \in Nat, len + 1 <= o + at, o + at + n <= room,
         NEW mem \in Block, Fills(mem, m, len, room, o, at)
  PROVE  /\ Md!Memcpy(mem, at, Md!Zeros(n)) \in Block
         /\ Fills(Md!Memcpy(mem, at, Md!Zeros(n)), m, len, room, o, at + n)
<1>1. PICK d \in [1..n -> Symbol] : d = Md!Zeros(n) /\ \A i \in 1..n : d[i] = 0
  <2>1. Md!Zeros(n) \in [1..n -> Symbol] /\ \A i \in 1..n : Md!Zeros(n)[i] = 0
    BY DEF Md!Zeros, Symbol
  <2> QED
    BY <2>1
<1>2. Md!Memcpy(mem, at, d) \in Block /\ Copied(Md!Memcpy(mem, at, d), mem, at, d, n)
  BY MemcpyIs
<1>3. PICK c \in Block : c = Md!Memcpy(mem, at, d) /\ Copied(c, mem, at, d, n)
  BY <1>2
<1>4. ASSUME NEW i \in 1..at + n PROVE c[i] = PadByte(m, len, room, o + i)
  <2>1. CASE i <= at
    <3>1. i \in 1..BLEN /\ i \in 1..at
      BY <2>1, Sizes
    <3>2. c[i] = mem[i]
      BY <1>3, <2>1, <3>1 DEF Copied
    <3> QED
      BY <3>1, <3>2 DEF Fills
  <2>2. CASE i > at
    <3>1. PICK j \in 1..n : i = at + j
      <4> i - at \in 1..n /\ i = at + (i - at)
        BY <2>2
      <4> QED
        OBVIOUS
    <3>2. c[at + j] = d[j]
      BY <1>3 DEF Copied, Holds
    <3>3. ~(o + i <= len) /\ o + i # len + 1 /\ o + i <= room
      BY <2>2
    <3> QED
      BY <1>1, <3>1, <3>2, <3>3 DEF PadByte
  <2> QED
    BY <2>1, <2>2
<1> QED
  BY <1>1, <1>3, <1>4 DEF Fills

\* The words of length at the end of the block.
LEMMA LengthFills ==
  ASSUME NEW m, NEW o \in Nat, NEW at \in Nat, at + 4 * WLEN = BLEN, NEW len \in Nat,
         NEW room \in Nat, room = o + at, len + 1 <= room,
         NEW mem \in Block, Fills(mem, m, len, room, o, at)
  PROVE  /\ Md!Memcpy(mem, at, LengthDigits(len)) \in Block
         /\ Fills(Md!Memcpy(mem, at, LengthDigits(len)), m, len, room, o, BLEN)
<1>1. PICK w \in Nat : w = 4 * WLEN
  BY Sizes
<1>2. PICK d \in [1..w -> Symbol] :
        d = LengthDigits(len) /\ \A i \in 1..w : d[i] = DigitAt(8 * len, w - i)
  BY <1>1, DigitsAre
<1>3. Md!Memcpy(mem, at, d) \in Block /\ Copied(Md!Memcpy(mem, at, d), mem, at, d, w)
  <2> at + w <= BLEN
    BY <1>1, Sizes
  <2> QED
    BY MemcpyIs
<1>4. PICK c \in Block : c = Md!Memcpy(mem, at, d) /\ Copied(c, mem, at, d, w)
  BY <1>3
<1>5. ASSUME NEW i \in 1..BLEN PROVE c[i] = PadByte(m, len, room, o + i)
  <2>1. CASE i <= at
    <3>1. i \in 1..at
      BY <2>1, Sizes
    <3>2. c[i] = mem[i]
      BY <1>4, <2>1 DEF Copied
    <3> QED
      BY <3>1, <3>2 DEF Fills
  <2>2. CASE i > at
    <3>1. PICK j \in 1..w : i = at + j
      <4> i - at \in 1..w /\ i = at + (i - at)
        BY <1>1, <2>2, Sizes
      <4> QED
        OBVIOUS
    <3>2. c[at + j] = d[j]
      BY <1>4 DEF Copied, Holds
    <3>3. ~(o + i <= len) /\ o + i # len + 1 /\ ~(o + i <= room) /\ room + w - (o + i) = w - j
      BY <2>2, <3>1
    <3>4. PadByte(m, len, room, o + i) = DigitAt(8 * len, w - j)
      BY <1>1, <3>3 DEF PadByte
    <3> QED
      BY <1>2, <3>1, <3>2, <3>4
  <2>3. i <= at \/ i > at
    BY Sizes
  <2> QED
    BY <2>1, <2>2, <2>3
<1> QED
  BY <1>2, <1>4, <1>5 DEF Fills

\* v are the s blocks of the padded message.
Closes(v, m, len, room, s) ==
  /\ v \in [1..s -> Block]
  /\ \A b \in 1..s : Fills(v[b], m, len, room, BLEN * (b - 1), BLEN)

\* The whole blocks of the message are blocks of the padded one.
LEMMA WholeClose ==
  ASSUME NEW m \in Nat, NEW q \in Nat, NEW len \in Nat, BLEN * q <= len, NEW room
  PROVE  Closes(ContentBlocks(m, q), m, len, room, q)
<1>1. ContentBlocks(m, q) \in [1..q -> Block]
  <2> SUFFICES ASSUME NEW b \in 1..q PROVE ContentBlock(m, b - 1) \in Block
    BY DEF ContentBlocks
  <2>1. b - 1 \in Nat
    OBVIOUS
  <2> QED
    BY <2>1, BlocksAre
<1>2. ASSUME NEW b \in 1..q, NEW i \in 1..BLEN
      PROVE  ContentBlocks(m, q)[b][i] = PadByte(m, len, room, BLEN * (b - 1) + i)
  <2>1. ContentBlocks(m, q)[b][i] = ContentByte(m, BLEN * (b - 1) + i)
    BY DEF ContentBlocks, ContentBlock
  <2>2. BLEN * (b - 1) + i <= len
    <3>1. PICK e \in Nat : q = (b - 1) + 1 + e
      <4> q - b \in Nat /\ q = (b - 1) + 1 + (q - b)
        OBVIOUS
      <4> QED
        OBVIOUS
    <3>2. PICK u \in Int, v \in Nat, w \in Int : u = BLEN * (b - 1) /\ v = BLEN * e /\ w = BLEN * q
      <4> BLEN * (b - 1) \in Int /\ BLEN * e \in Nat /\ BLEN * q \in Int
        BY Sizes
      <4> QED
        OBVIOUS
    <3>3. w = u + BLEN + v
      BY <3>1, <3>2, Sizes
    <3> QED
      BY <3>2, <3>3, Sizes
  <2> QED
    BY <2>1, <2>2 DEF PadByte
<1> QED
  BY <1>1, <1>2 DEF Closes, Fills

\* One block more.
LEMMA OneMore ==
  ASSUME NEW m, NEW len, NEW room, NEW s \in Nat, NEW v, Closes(v, m, len, room, s),
         NEW mem \in Block, Fills(mem, m, len, room, BLEN * s, BLEN)
  PROVE  Closes(Append(v, mem), m, len, room, s + 1)
<1>1. v \in Seq(Block) /\ Len(v) = s
  BY IsSeq DEF Closes
<1>2. PICK a : a = Append(v, mem)
  OBVIOUS
<1>3. a \in Seq(Block) /\ Len(a) = s + 1 /\ a[s + 1] = mem /\ \A i \in 1..s : a[i] = v[i]
  BY <1>1, <1>2
<1>4. a \in [1..s + 1 -> Block]
  BY <1>3
<1>5. ASSUME NEW b \in 1..s + 1 PROVE Fills(a[b], m, len, room, BLEN * (b - 1), BLEN)
  <2>1. CASE b = s + 1
    <3>1. b - 1 = s
      BY <2>1
    <3> QED
      BY <1>3, <2>1, <3>1
  <2>2. CASE b # s + 1
    <3>1. b \in 1..s
      BY <2>2
    <3> QED
      BY <1>3, <3>1 DEF Closes
  <2> QED
    BY <2>1, <2>2
<1> QED
  BY <1>2, <1>4, <1>5 DEF Closes

\* How many zeros and how many blocks.
ClosingOf(v, m, len) ==
  \E s \in Nat, z \in 0..BLEN - 1 :
    len + 1 + z + 4 * WLEN = BLEN * s /\ Closes(v, m, len, len + 1 + z, s)

ClosedInto(sc, m, len) == sc \in Contexts /\ ClosingOf(sc.val, m, len)

\* What holds the closed blocks is a context again.
LEMMA ClosedIs ==
  ASSUME NEW m, NEW len, NEW mem \in Block, NEW v, NEW n \in Nat, ClosingOf(v, m, len), NEW sc,
         sc = [buf |-> mem, val |-> v, count |-> n]
  PROVE  ClosedInto(sc, m, len)
<1>1. v \in Seq(Block)
  <2>1. PICK s \in Nat, z \in 0..BLEN - 1 : Closes(v, m, len, len + 1 + z, s)
    BY DEF ClosingOf
  <2>2. v \in [1..s -> Block]
    BY <2>1 DEF Closes
  <2> QED
    BY <2>2, IsSeq
<1>2. sc \in Contexts /\ sc.val = v
  BY <1>1 DEF Contexts
<1> QED
  BY <1>2 DEF ClosedInto

\* What closing folds in.
LEMMA CloseIs ==
  ASSUME NEW m \in Nat, NEW sc, NEW len \in Nat, len < Span, AbsorbedTo(sc, m, len)
  PROVE  ClosedInto(Md!addbits_and_close(sc), m, len)
<1>1. PICK q \in Nat, r \in 0..BLEN - 1 : len = BLEN * q + r /\ Absorbed(sc, m, q, r)
  BY DEF AbsorbedTo
<1>2. PICK o \in Nat : o = BLEN * q /\ len = o + r
  <2> BLEN * q \in Nat
    BY Sizes
  <2> QED
    BY <1>1
<1>3. Md!current(sc) = r
  BY <1>1, CurrentIs
<1>4. PICK pad \in Nat : pad = Md!MAXPAD /\ pad = BLEN - 4 * WLEN /\ pad + 4 * WLEN = BLEN /\ pad >= 1
                         /\ pad <= BLEN
  <2> BLEN - 4 * WLEN \in Nat /\ (BLEN - 4 * WLEN) + 4 * WLEN = BLEN /\ BLEN - 4 * WLEN >= 1
      /\ BLEN - 4 * WLEN <= BLEN
    BY Sizes
  <2> QED
    BY DEF Md!MAXPAD
<1>5. ClosingLength(sc) = LengthDigits(len)
  <2> sc.count = len
    BY <1>1 DEF Absorbed
  <2> QED
    BY LengthIs
<1>6. sc.buf \in Block /\ sc.val = ContentBlocks(m, q) /\ Content(sc.buf, m, o, r) /\ sc \in Contexts
  BY <1>1, <1>2 DEF Absorbed, Contexts
<1> DEFINE Stored(mem, val) == [buf |-> mem, val |-> Append(val, mem), count |-> sc.count]
<1>6a. sc.count \in Nat
  BY <1>6 DEF Contexts
<1>7. Md!addbits_and_close(sc)
        = Stored(Md!Memcpy(Md!Padded(sc).buf, pad, LengthDigits(len)), Md!Padded(sc).val)
  <2>1. Md!addbits_and_close(sc)
          = Stored(Md!Memcpy(Md!Padded(sc).buf, pad, ClosingLength(sc)), Md!Padded(sc).val)
    <3>1. sc = [buf |-> sc.buf, val |-> sc.val, count |-> sc.count]
      BY <1>6 DEF Contexts
    <3>2. Md!addbits_and_close(sc)
            = [sc EXCEPT !.buf = Md!Memcpy(Md!Padded(sc).buf, Md!MAXPAD, ClosingLength(sc)),
                         !.val = Append(Md!Padded(sc).val,
                                        Md!Memcpy(Md!Padded(sc).buf, Md!MAXPAD, ClosingLength(sc)))]
      BY Zenon DEF Md!addbits_and_close, ClosingLength, Span, Remember
    <3>3. PICK b, u : b = Md!Memcpy(Md!Padded(sc).buf, Md!MAXPAD, ClosingLength(sc))
                      /\ u = Append(Md!Padded(sc).val, b)
      OBVIOUS
    <3>4. Md!addbits_and_close(sc) = [sc EXCEPT !.buf = b, !.val = u]
      BY <3>2, <3>3
    <3>5. Md!addbits_and_close(sc) = [buf |-> b, val |-> u, count |-> sc.count]
      BY <3>1, <3>4
    <3> QED
      BY <1>4, <3>3, <3>5
  <2> QED
    BY <1>5, <2>1
<1> DEFINE c == Md!Memcpy(sc.buf, r, <<Radix \div 2>>)
<1>8. r \in Nat /\ r < BLEN /\ r + 1 \in Nat
  BY Sizes
<1>9. ASSUME NEW room PROVE c \in Block /\ Fills(c, m, len, room, o, r + 1)
  BY <1>2, <1>6, <1>8, MarkFills
<1>10. ContentBlocks(m, q) = sc.val /\ BLEN * q <= len
  BY <1>2, <1>6, Sizes
<1>11. CASE r + 1 <= pad
  <2>1. PICK z \in 0..BLEN - 1 : z = pad - (r + 1) /\ z \in Nat
    <3> pad - (r + 1) \in 0..BLEN - 1 /\ pad - (r + 1) \in Nat
      BY <1>4, <1>8, <1>11, Sizes
    <3> QED
      OBVIOUS
  <2>2. PICK room \in Nat : room = len + 1 + z /\ room = o + pad /\ (r + 1) + z = pad
                            /\ len + 1 <= o + (r + 1) /\ o + (r + 1) + z <= room /\ (r + 1) + z <= BLEN
                            /\ len + 1 <= room
    <3> len + 1 + z \in Nat /\ len + 1 + z = o + pad /\ (r + 1) + z = pad
        /\ len + 1 <= o + (r + 1) /\ o + (r + 1) + z <= len + 1 + z /\ (r + 1) + z <= BLEN
        /\ len + 1 <= len + 1 + z
      BY <1>2, <1>4, <1>8, <2>1, Sizes
    <3> QED
      OBVIOUS
  <2> DEFINE d == Md!Memcpy(c, r + 1, Md!Zeros(z))
             e == Md!Memcpy(d, pad, LengthDigits(len))
  <2>3. Md!Padded(sc).val = sc.val /\ Md!Padded(sc).buf = d
    <3>1. ~(r + 1 > pad)
      BY <1>4, <1>8, <1>11
    <3> QED
      BY <1>3, <1>4, <2>1, <3>1 DEF Md!Padded
  <2> HIDE DEF c
  <2>4. d \in Block /\ Fills(d, m, len, room, o, (r + 1) + z)
    BY <1>8, <1>9, <2>1, <2>2, ZerosFill
  <2> HIDE DEF d
  <2>5. e \in Block /\ Fills(e, m, len, room, o, BLEN)
    <3> Fills(d, m, len, room, o, pad)
      BY <2>2, <2>4
    <3> QED
      BY <1>4, <2>2, <2>4, LengthFills
  <2> HIDE DEF e
  <2>6. Closes(sc.val, m, len, room, q)
    BY <1>10, WholeClose
  <2>7. Closes(Append(sc.val, e), m, len, room, q + 1)
    BY <1>2, <2>5, <2>6, OneMore
  <2>8. len + 1 + z + 4 * WLEN = BLEN * (q + 1)
    <3>1. BLEN * (q + 1) = o + BLEN
      BY <1>2, Sizes
    <3> QED
      BY <1>4, <2>2, <3>1, Sizes
  <2>9. Md!addbits_and_close(sc) = [buf |-> e, val |-> Append(sc.val, e), count |-> sc.count]
    BY <1>7, <2>3 DEF e
  <2>10. ClosingOf(Append(sc.val, e), m, len)
    BY <2>1, <2>2, <2>7, <2>8 DEF ClosingOf
  <2> QED
    BY <1>6a, <2>5, <2>9, <2>10, ClosedIs
<1>12. CASE ~(r + 1 <= pad)
  <2>1. PICK z \in 0..BLEN - 1 : z = BLEN + pad - (r + 1)
    <3> BLEN + pad - (r + 1) \in 0..BLEN - 1
      BY <1>4, <1>8, <1>12, Sizes
    <3> QED
      OBVIOUS
  <2>2. PICK n \in Nat : n = BLEN - (r + 1) /\ (r + 1) + n = BLEN
    <3> BLEN - (r + 1) \in Nat /\ (r + 1) + (BLEN - (r + 1)) = BLEN
      BY <1>8, Sizes
    <3> QED
      OBVIOUS
  <2>3. PICK o2 \in Nat : o2 = o + BLEN
    BY Sizes
  <2>4. PICK room \in Nat : room = len + 1 + z /\ room = o2 + pad
                            /\ len + 1 <= o + (r + 1) /\ o + (r + 1) + n <= room
                            /\ len + 1 <= o2 + 0 /\ o2 + 0 + pad <= room /\ len + 1 <= room
    <3> len + 1 + z \in Nat /\ len + 1 + z = o2 + pad
        /\ len + 1 <= o + (r + 1) /\ o + (r + 1) + n <= len + 1 + z
        /\ len + 1 <= o2 + 0 /\ o2 + 0 + pad <= len + 1 + z /\ len + 1 <= len + 1 + z
      BY <1>2, <1>4, <1>8, <1>12, <2>1, <2>2, <2>3, Sizes
    <3> QED
      OBVIOUS
  <2> DEFINE f == Md!Memcpy(c, r + 1, Md!Zeros(n))
             d == Md!Memcpy(f, 0, Md!Zeros(pad))
             e == Md!Memcpy(d, pad, LengthDigits(len))
  <2>5. Md!Padded(sc).val = Append(sc.val, f) /\ Md!Padded(sc).buf = d
    <3>1. r + 1 > pad
      BY <1>4, <1>8, <1>12
    <3> QED
      BY <1>3, <1>4, <2>2, <3>1 DEF Md!Padded, Remember
  <2> HIDE DEF c
  <2>6. f \in Block /\ Fills(f, m, len, room, o, BLEN)
    <3>1. (r + 1) + n <= BLEN
      BY <2>2, Sizes
    <3>2. f \in Block /\ Fills(f, m, len, room, o, (r + 1) + n)
      BY <1>8, <1>9, <2>4, <3>1, ZerosFill
    <3> QED
      BY <2>2, <3>2
  <2> HIDE DEF f
  <2>7. d \in Block /\ Fills(d, m, len, room, o2, pad)
    <3>1. Fills(f, m, len, room, o2, 0)
      BY DEF Fills
    <3>2. 0 \in Nat /\ 0 + pad <= BLEN /\ 0 + pad = pad
      BY <1>4
    <3>3. d \in Block /\ Fills(d, m, len, room, o2, 0 + pad)
      BY <2>4, <2>6, <3>1, <3>2, ZerosFill
    <3> QED
      BY <3>2, <3>3
  <2> HIDE DEF d
  <2>8. e \in Block /\ Fills(e, m, len, room, o2, BLEN)
    BY <1>4, <2>4, <2>7, LengthFills
  <2> HIDE DEF e
  <2>9. Closes(sc.val, m, len, room, q)
    BY <1>10, WholeClose
  <2>10. Closes(Append(sc.val, f), m, len, room, q + 1)
    BY <1>2, <2>6, <2>9, OneMore
  <2>11. BLEN * (q + 1) = o2 /\ q + 1 \in Nat
    BY <1>2, <2>3, Sizes
  <2>12. Closes(Append(Append(sc.val, f), e), m, len, room, (q + 1) + 1)
    BY <2>8, <2>10, <2>11, OneMore
  <2>13. len + 1 + z + 4 * WLEN = BLEN * ((q + 1) + 1) /\ (q + 1) + 1 \in Nat
    <3>1. BLEN * ((q + 1) + 1) = BLEN * (q + 1) + BLEN
      BY Sizes
    <3>2. len + 1 + z + 4 * WLEN = o2 + BLEN
      BY <1>4, <2>4, Sizes
    <3> QED
      BY <2>11, <3>1, <3>2
  <2>14. Md!addbits_and_close(sc)
           = [buf |-> e, val |-> Append(Append(sc.val, f), e), count |-> sc.count]
    BY <1>7, <2>5 DEF e
  <2>15. ClosingOf(Append(Append(sc.val, f), e), m, len)
    BY <2>1, <2>4, <2>12, <2>13 DEF ClosingOf
  <2> QED
    BY <1>6a, <2>8, <2>14, <2>15, ClosedIs
<1> QED
  BY <1>11, <1>12

-----------------------------------------------------------------------------
(* HashStream: the invariant and its theorem.                              *)

\* The digest of a message of len bytes.
DigestOf(m, len) ==
  LET padded == PaddedMessage(m, len)
  IN [b \in 1..Len(padded) \div BLEN |-> SubSeq(padded, (b - 1) * BLEN + 1, b * BLEN)]

\* What closing folds in is the padded message cut into blocks.
LEMMA DigestIs ==
  ASSUME NEW m \in Nat, NEW len \in Nat, NEW v, ClosingOf(v, m, len)
  PROVE  v = DigestOf(m, len)
<1>1. PICK s \in Nat, z \in 0..BLEN - 1 :
        len + 1 + z + 4 * WLEN = BLEN * s /\ Closes(v, m, len, len + 1 + z, s)
  BY DEF ClosingOf
<1>2. PICK n \in Nat, room \in Nat : n = BLEN * s /\ n = s * BLEN /\ room = len + 1 + z
  <2> BLEN * s \in Nat /\ BLEN * s = s * BLEN /\ len + 1 + z \in Nat
    BY Sizes
  <2> QED
    OBVIOUS
<1>3. n % BLEN = 0 /\ n \div BLEN = s
  <2> s \in Int
    OBVIOUS
  <2> QED
    BY <1>2, Sizes, TimesDiv
<1>4. PICK p : p = PaddedMessage(m, len)
  OBVIOUS
<1>5. p \in [1..n -> Symbol] /\ Fills(p, m, len, room, 0, n)
  <2> (len + 1 + z + 4 * WLEN) % BLEN = 0
    BY <1>1, <1>2, <1>3
  <2> QED
    BY <1>1, <1>2, <1>4, PaddedIs DEF IsPadded
<1>6. p \in Seq(Symbol) /\ Len(p) = n
  BY <1>5, IsSeq
<1>7. v \in [1..s -> Block] /\ \A b \in 1..s : Fills(v[b], m, len, room, BLEN * (b - 1), BLEN)
  BY <1>1, <1>2 DEF Closes
<1>8. ASSUME NEW b \in 1..s PROVE v[b] = SubSeq(p, (b - 1) * BLEN + 1, b * BLEN)
  <2>1. PICK o \in Nat, e \in Nat : o = BLEN * (b - 1) /\ (b - 1) * BLEN = o /\ b * BLEN = o + BLEN
                                    /\ n = (o + BLEN) + e
    <3>1. PICK j \in Nat, k \in Nat : j = b - 1 /\ k = s - b /\ b = j + 1 /\ s = (j + 1) + k
      <4> b - 1 \in Nat /\ s - b \in Nat /\ b = (b - 1) + 1 /\ s = ((b - 1) + 1) + (s - b)
        OBVIOUS
      <4> QED
        OBVIOUS
    <3>2. PICK u \in Nat, w \in Nat : u = BLEN * j /\ w = BLEN * k
      BY Sizes
    <3>3. j * BLEN = u /\ (j + 1) * BLEN = u + BLEN /\ BLEN * s = (u + BLEN) + w
      BY <3>1, <3>2, Sizes
    <3> QED
      BY <1>2, <3>1, <3>2, <3>3
  <2>2. o + BLEN <= Len(p) /\ BLEN \in Nat
    BY <1>6, <2>1, Sizes
  <2>3. PICK d : d = SubSeq(p, o + 1, o + BLEN)
    OBVIOUS
  <2>4. d \in Block /\ \A i \in 1..BLEN : d[i] = p[o + i]
    <3>1. PICK t \in Seq(Symbol) : t = p
      BY <1>6
    <3>2. o + BLEN <= Len(t) /\ BLEN \in Nat
      BY <2>2, <3>1
    <3>3. /\ SubSeq(t, o + 1, o + BLEN) \in [1..BLEN -> Symbol]
          /\ \A i \in 1..BLEN : SubSeq(t, o + 1, o + BLEN)[i] = t[o + i]
      BY <3>2, SubSeqIs
    <3> QED
      BY <2>3, <3>1, <3>3 DEF Block
  <2>5. \A i \in 1..BLEN : v[b][i] = d[i]
    <3> SUFFICES ASSUME NEW i \in 1..BLEN PROVE v[b][i] = d[i]
      OBVIOUS
    <3>1. v[b][i] = PadByte(m, len, room, o + i)
      BY <1>7, <2>1 DEF Fills
    <3>2. o + i \in 1..n /\ 0 + (o + i) = o + i
      BY <2>1, Sizes
    <3>3. p[o + i] = PadByte(m, len, room, o + i)
      BY <1>5, <3>2 DEF Fills
    <3> QED
      BY <2>4, <3>1, <3>3
  <2>6. v[b] = d
    <3> v[b] \in Block
      BY <1>7
    <3> QED
      BY <2>4, <2>5, Sizes, SameSeq DEF Block
  <2> QED
    BY <2>1, <2>3, <2>6
<1>9. DigestOf(m, len) = [b \in 1..s |-> SubSeq(p, (b - 1) * BLEN + 1, b * BLEN)]
  BY <1>3, <1>4, <1>6 DEF DigestOf
<1>10. v = [b \in 1..s |-> v[b]]
  BY <1>7
<1> QED
  BY <1>8, <1>9, <1>10

\* init begins any message.
LEMMA InitAbsorbs ==
  ASSUME NEW sc \in Contexts, NEW m
  PROVE  Md!init(sc) \in Contexts /\ AbsorbedTo(Md!init(sc), m, 0)
<1>1. PICK c : c = Md!init(sc)
  OBVIOUS
<1>2. c = [buf |-> sc.buf, val |-> <<>>, count |-> 0]
  <2>1. sc = [buf |-> sc.buf, val |-> sc.val, count |-> sc.count]
    BY DEF Contexts
  <2> QED
    BY <1>1, <2>1 DEF Md!init
<1>3. c \in Contexts
  <2>1. sc.buf \in Block /\ <<>> \in Seq(Block)
    BY DEF Contexts
  <2> QED
    BY <1>2, <2>1 DEF Contexts
<1>4. Absorbed(c, m, 0, 0)
  <2>1. ContentBlocks(m, 0) = <<>>
    BY DEF ContentBlocks
  <2>2. Content(c.buf, m, BLEN * 0, 0)
    BY DEF Content
  <2>3. BLEN * 0 + 0 = 0
    BY Sizes
  <2> QED
    BY <1>2, <1>3, <2>1, <2>2, <2>3 DEF Absorbed
<1>5. 0 \in Nat /\ 0 \in 0..BLEN - 1 /\ 0 = BLEN * 0 + 0
  BY Sizes
<1> QED
  BY <1>1, <1>3, <1>4, <1>5 DEF AbsorbedTo

\* What is absorbed is a beginning of the present message; a hash is a digest.
StreamInv ==
  /\ message \in Nat \ {0} /\ written \in 0..MaxLength
  /\ AbsorbedTo(ctx, message, written)
  /\ closed # Open => closed \in Nat /\ hash = DigestOf(message - 1, closed)

\* A new object has absorbed nothing of its first message.
LEMMA StreamBegins == StreamInit => StreamInv
<1> SUFFICES ASSUME StreamInit PROVE StreamInv
  OBVIOUS
<1>1. Md!Zeros(BLEN) \in Block
  BY DEF Md!Zeros, Block, Symbol
<1>2. ctx \in Contexts /\ ctx.val = <<>> /\ ctx.count = 0
  <2> <<>> \in Seq(Block)
    OBVIOUS
  <2> QED
    BY <1>1 DEF StreamInit, Contexts
<1>3. Absorbed(ctx, message, 0, 0)
  <2>1. ContentBlocks(message, 0) = <<>>
    BY DEF ContentBlocks
  <2>2. Content(ctx.buf, message, BLEN * 0, 0)
    BY DEF Content
  <2>3. BLEN * 0 + 0 = 0
    BY Sizes
  <2> QED
    BY <1>2, <2>1, <2>2, <2>3 DEF Absorbed
<1>4. AbsorbedTo(ctx, message, 0)
  <2> 0 \in Nat /\ 0 \in 0..BLEN - 1 /\ 0 = BLEN * 0 + 0
    BY Sizes
  <2> QED
    BY <1>3 DEF AbsorbedTo
<1>5. message \in Nat \ {0} /\ written = 0 /\ closed = Open /\ 0 \in 0..MaxLength
  BY Sizes DEF StreamInit
<1> QED
  BY <1>4, <1>5 DEF StreamInv

\* Write, Finalize and Reset preserve the invariant.
LEMMA StreamGoesOn == StreamInv /\ [StreamNext]_streamVars => StreamInv'
<1> SUFFICES ASSUME StreamInv, [StreamNext]_streamVars PROVE StreamInv'
  OBVIOUS
<1>1. /\ message \in Nat \ {0} /\ written \in 0..MaxLength
      /\ AbsorbedTo(ctx, message, written)
  BY DEF StreamInv
<1>2. written \in Nat /\ written < Span
  BY <1>1, Sizes
<1>3. ctx \in Contexts
  BY <1>1 DEF AbsorbedTo, Absorbed
<1>4. ASSUME NEW len \in 0..MaxLength, NEW aligned \in BOOLEAN, Write(len, aligned)
      PROVE  StreamInv'
  <2>1. message' = message /\ written' = written + len /\ closed' = Open /\ written + len <= MaxLength
    BY <1>4 DEF Write
  <2>2. written' \in 0..MaxLength
    BY <1>1, <2>1
  <2>3. AbsorbedTo(ctx', message, written + len)
    <3>1. CASE len = 0
      <4>1. ctx' = ctx /\ written + len = written
        BY <1>1, <1>4, <3>1 DEF Write
      <4> QED
        BY <1>1, <4>1
    <3>2. CASE len # 0
      <4>1. PICK data : data = Piece(written, len)
        OBVIOUS
      <4>2. ctx' = Md!update(ctx, data, aligned)
        BY <1>4, <3>2, <4>1, Zenon DEF Write
      <4>3. PieceOf(data, message, written, len)
        <5>1. \A i \in 1..len : ContentByte(message, written + i) \in Symbol
          <6> SUFFICES ASSUME NEW i \in 1..len PROVE ContentByte(message, written + i) \in Symbol
            OBVIOUS
          <6>1. written + i \in Nat /\ message \in Nat
            BY <1>1, <1>2
          <6> QED
            BY <6>1 DEF Symbol
        <5>2. data = [i \in 1..len |-> ContentByte(message, written + i)]
          BY <4>1 DEF Piece
        <5>3. data \in [1..len -> Symbol]
          BY <5>1, <5>2
        <5>4. \A i \in 1..len : data[i] = ContentByte(message, written + i)
          BY <5>2
        <5> QED
          BY <5>3, <5>4 DEF PieceOf, Content
      <4>4. message \in Nat /\ len \in Nat /\ written + len < Span
        BY <1>1, <2>1, Sizes
      <4>5. AbsorbedTo(Md!update(ctx, data, aligned), message, written + len)
        BY <1>1, <1>2, <4>3, <4>4, UpdateAbsorbs
      <4> QED
        BY <4>2, <4>5
    <3> QED
      BY <3>1, <3>2
  <2> QED
    BY <1>1, <2>1, <2>2, <2>3 DEF StreamInv
<1>5. CASE Finalize
  <2>1. PICK c : c = Md!addbits_and_close(ctx)
    OBVIOUS
  <2>2. hash' = c.val /\ ctx' = Md!init(Md!init(c)) /\ closed' = written /\ written' = 0
        /\ message' = message + 1
    BY <1>5, <2>1 DEF Finalize
  <2>3. c \in Contexts /\ ClosingOf(c.val, message, written)
    <3> message \in Nat
      BY <1>1
    <3> QED
      BY <1>1, <1>2, <2>1, CloseIs DEF ClosedInto
  <2>4. hash' = DigestOf(message, written)
    <3> message \in Nat
      BY <1>1
    <3> QED
      BY <1>2, <2>2, <2>3, DigestIs
  <2>5. AbsorbedTo(ctx', message + 1, 0)
    <3>1. Md!init(c) \in Contexts
      BY <2>3, InitAbsorbs
    <3> QED
      BY <2>2, <3>1, InitAbsorbs
  <2>6. message' \in Nat \ {0} /\ message' - 1 = message /\ 0 \in 0..MaxLength
    BY <1>1, <2>2, Sizes
  <2>7. DigestOf(message, written) = DigestOf(message' - 1, closed')
    BY <2>2, <2>6
  <2> QED
    BY <1>2, <2>2, <2>4, <2>5, <2>6, <2>7 DEF StreamInv
<1>6. CASE Reset
  <2>1. ctx' = Md!init(ctx) /\ closed' = Open /\ written' = 0 /\ message' = message + 1
    BY <1>6 DEF Reset
  <2>2. AbsorbedTo(ctx', message + 1, 0)
    BY <1>3, <2>1, InitAbsorbs
  <2>3. message' \in Nat \ {0} /\ 0 \in 0..MaxLength
    BY <1>1, <2>1, Sizes
  <2> QED
    BY <2>1, <2>2, <2>3 DEF StreamInv
<1>7. CASE UNCHANGED streamVars
  BY <1>7 DEF StreamInv, streamVars
<1> QED
  BY <1>4, <1>5, <1>6, <1>7 DEF StreamNext

\* However CWhirlpool512 is written to, finalized and reset, its context holds
\* what the update loops of md_helper.c were given of the present message.
THEOREM StreamInvariance == StreamSpec => []StreamInv
  BY StreamBegins, StreamGoesOn, PTL DEF StreamSpec

\* The digest Finalize stores comes from the blocks of the padded message, for
\* blocks, words and bytes of any size, messages of any length below the span
\* of the counter, and any way of cutting them into writes.
THEOREM DigestsHold == StreamSpec => []DigestIsOfTheMessage
<1>1. StreamInv => DigestIsOfTheMessage
  BY DEF StreamInv, DigestIsOfTheMessage, DigestOf
<1> QED
  BY <1>1, StreamInvariance, PTL

=============================================================================
