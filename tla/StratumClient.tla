---------------------------- MODULE StratumClient ----------------------------
(***************************************************************************)
(* The submission side of src/stratum_client.cpp and the bookkeeping both  *)
(* engines hang on it: a mining thread that finds shares, sends each in    *)
(* every configured format and counts what it sent, and a reader thread    *)
(* that matches the pool's answers to the pending ids and counts verdicts. *)
(*                                                                         *)
(* The pool is external.  It may answer an id at any moment after the line *)
(* has reached it, so before send() has returned here; it may answer an id *)
(* again; it need not answer at all.  Sections under submit_mu_ and        *)
(* submit_format_mu are one step each.                                     *)
(***************************************************************************)
EXTENDS Integers, FiniteSets

CONSTANTS
  NFormats,   \* submit formats tried per share (1 unless probing)
  MaxSubmits  \* bound: ids handed out per behaviour

ASSUME SubmitAssumption == NFormats \in Nat \ {0} /\ MaxSubmits \in Nat

VARIABLES
  \* StratumClient
  sock_, next_id_, pending_submits_,
  \* the mining thread inside its submit loop
  spc, id, fmt, sent_any,
  \* the reader thread inside parse_submit_response
  rpc, rid, rverdict, rfmt,
  \* shared with the answer handler of the Alphanumeric runner
  submit_format_by_id, disable_local_target_scaling,
  \* MinerStats
  submitted, shares_found, accepted, rejected,
  \* history, for the properties only
  wire,      \* the format under which each id reached the pool
  verdicts,  \* how often each id was judged
  missed,    \* ids whose answer was dropped although never judged
  reported   \* <<id, format>> of every acceptance the log names

client  == <<sock_, next_id_, pending_submits_>>
mining  == <<spc, id, fmt, sent_any, submitted, shares_found>>
reader  == <<rpc, rid, rverdict, rfmt, disable_local_target_scaling, accepted,
             rejected, verdicts, missed, reported>>
vars    == <<client, mining, reader, submit_format_by_id, wire>>

\* Ids of mining.submit, counted from 100 up; 2 is mining.authorize.
Ids         == 101..100 + MaxSubmits
AuthorizeId == 2
Formats     == 1..NFormats
NoFormat    == 0
Verdicts    == {"true", "error", "low difficulty"}

Init ==
  /\ sock_ = FALSE
  /\ next_id_ = 100
  /\ pending_submits_ = {}
  /\ spc = "connect" /\ id = 0 /\ fmt = NoFormat /\ sent_any = FALSE
  /\ rpc = "off" /\ rid = 0 /\ rverdict = "true" /\ rfmt = NoFormat
  /\ submit_format_by_id = [i \in Ids |-> NoFormat]
  /\ disable_local_target_scaling = FALSE
  /\ submitted = 0 /\ shares_found = 0 /\ accepted = 0 /\ rejected = 0
  /\ wire = [i \in Ids |-> NoFormat]
  /\ verdicts = [i \in Ids |-> 0]
  /\ missed = {}
  /\ reported = {}

-----------------------------------------------------------------------------
(* The mining thread.                                                      *)

Connect ==
  /\ spc = "connect"
  /\ sock_' = TRUE
  /\ spc' = "login"
  /\ UNCHANGED <<next_id_, pending_submits_, id, fmt, sent_any, submitted,
                 shares_found, reader, submit_format_by_id, wire>>

\* Both login lines are sent; only then is the reader thread started.
Login ==
  /\ spc = "login"
  /\ spc' = "mine"
  /\ rpc' = "recv"
  /\ UNCHANGED <<client, id, fmt, sent_any, submitted, shares_found, rid,
                 rverdict, rfmt, disable_local_target_scaling, accepted,
                 rejected, verdicts, missed, reported, submit_format_by_id,
                 wire>>

\* Connecting or logging in fails, or the reader is done and the loop ends:
\* run returns and the socket is closed.
Return ==
  /\ \/ spc \in {"connect", "login"}
     \/ spc = "mine" /\ rpc = "done"
  /\ sock_' = FALSE
  /\ spc' = "returned"
  /\ UNCHANGED <<next_id_, pending_submits_, id, fmt, sent_any, submitted,
                 shares_found, reader, submit_format_by_id, wire>>

\* A share survives the checks of the engine: submit it in the first format.
FoundShare ==
  /\ spc = "mine"
  /\ next_id_ + NFormats <= 100 + MaxSubmits
  /\ fmt' = 1
  /\ sent_any' = FALSE
  /\ spc' = "register"
  /\ UNCHANGED <<client, id, submitted, shares_found, reader,
                 submit_format_by_id, wire>>

\* Mutation: only the last submit is remembered.
RegisterLastOnly ==
  /\ spc = "register"
  /\ next_id_' = next_id_ + 1
  /\ id' = next_id_ + 1
  /\ pending_submits_' = {next_id_ + 1}
  /\ spc' = "sending"
  /\ UNCHANGED <<sock_, fmt, sent_any, submitted, shares_found, reader,
                 submit_format_by_id, wire>>

\* The id is pending before the line is sent.
Register ==
  /\ spc = "register"
  /\ next_id_' = next_id_ + 1
  /\ id' = next_id_ + 1
  /\ pending_submits_' = pending_submits_ \cup {next_id_ + 1}
  /\ spc' = "sending"
  /\ UNCHANGED <<sock_, fmt, sent_any, submitted, shares_found, reader,
                 submit_format_by_id, wire>>

\* send_line writes the whole line; the pool may answer from here on.
SendOk ==
  /\ spc = "sending"
  /\ wire' = [wire EXCEPT ![id] = fmt]
  /\ spc' = "record"
  /\ UNCHANGED <<client, id, fmt, sent_any, submitted, shares_found, reader,
                 submit_format_by_id>>

SendFails ==
  /\ spc = "sending"
  /\ spc' = "unregister"
  /\ UNCHANGED <<client, id, fmt, sent_any, submitted, shares_found, reader,
                 submit_format_by_id, wire>>

\* The loop goes on to the next format or is over.
NextFormat ==
  IF fmt < NFormats THEN fmt' = fmt + 1 /\ spc' = "register"
                    ELSE fmt' = NoFormat /\ spc' = "tally"

\* Mutation: the id of a failed send stays pending.
UnregisterForgotten ==
  /\ spc = "unregister"
  /\ NextFormat
  /\ UNCHANGED <<client, id, sent_any, submitted, shares_found, reader,
                 submit_format_by_id, wire>>

Unregister ==
  /\ spc = "unregister"
  /\ pending_submits_' = pending_submits_ \ {id}
  /\ NextFormat
  /\ UNCHANGED <<sock_, next_id_, id, sent_any, submitted, shares_found, reader,
                 submit_format_by_id, wire>>

\* Mutation: the format of the loop's next turn is recorded.
RecordNext ==
  /\ spc = "record"
  /\ submit_format_by_id' =
       [submit_format_by_id EXCEPT ![id] = (fmt % NFormats) + 1]
  /\ submitted' = submitted + 1
  /\ sent_any' = TRUE
  /\ NextFormat
  /\ UNCHANGED <<client, id, shares_found, reader, wire>>

\* submit_raw has returned the id: remember its format, count the submission.
Record ==
  /\ spc = "record"
  /\ submit_format_by_id' = [submit_format_by_id EXCEPT ![id] = fmt]
  /\ submitted' = submitted + 1
  /\ sent_any' = TRUE
  /\ NextFormat
  /\ UNCHANGED <<client, id, shares_found, reader, wire>>

Tally ==
  /\ spc = "tally"
  /\ shares_found' = shares_found + (IF sent_any THEN 1 ELSE 0)
  /\ spc' = "mine"
  /\ UNCHANGED <<client, id, fmt, sent_any, submitted, reader,
                 submit_format_by_id, wire>>

-----------------------------------------------------------------------------
(* The reader thread.                                                      *)

\* Mutation: the id is looked up but stays pending.
MatchAnswerKept(i, v) ==
  /\ rpc = "recv"
  /\ i \in pending_submits_
  /\ rid' = i /\ rverdict' = v
  /\ rpc' = "lookup"
  /\ UNCHANGED <<client, mining, rfmt, disable_local_target_scaling, accepted,
                 rejected, verdicts, missed, reported, submit_format_by_id,
                 wire>>

\* An answer to a pending id: the id is taken out under submit_mu_.
MatchAnswer(i, v) ==
  /\ rpc = "recv"
  /\ i \in pending_submits_
  /\ pending_submits_' = pending_submits_ \ {i}
  /\ rid' = i /\ rverdict' = v
  /\ rpc' = "lookup"
  /\ UNCHANGED <<sock_, next_id_, mining, rfmt, disable_local_target_scaling,
                 accepted, rejected, verdicts, missed, reported,
                 submit_format_by_id, wire>>

\* Any other id is ignored: the answer to authorize, or a repeated answer.
IgnoreAnswer(i) ==
  /\ rpc = "recv"
  /\ i \notin pending_submits_
  /\ missed' = missed \cup {j \in {i} \cap Ids : verdicts[j] = 0}
  /\ UNCHANGED <<client, mining, rpc, rid, rverdict, rfmt,
                 disable_local_target_scaling, accepted, rejected, verdicts,
                 reported, submit_format_by_id, wire>>

\* The handler takes the format out of the map, if it is there already.
LookUpFormat ==
  /\ rpc = "lookup"
  /\ rfmt' = submit_format_by_id[rid]
  /\ submit_format_by_id' = [submit_format_by_id EXCEPT ![rid] = NoFormat]
  /\ rpc' = "count"
  /\ UNCHANGED <<client, mining, rid, rverdict, disable_local_target_scaling,
                 accepted, rejected, verdicts, missed, reported, wire>>

\* What the handlers of both engines do with a verdict.
CountVerdict ==
  /\ accepted' = accepted + (IF rverdict = "true" THEN 1 ELSE 0)
  /\ rejected' = rejected + (IF rverdict = "true" THEN 0 ELSE 1)

Judge ==
  /\ rpc = "count"
  /\ CountVerdict
  /\ disable_local_target_scaling' =
       (disable_local_target_scaling \/ rverdict = "low difficulty")
  /\ verdicts' = [verdicts EXCEPT ![rid] = @ + 1]
  /\ reported' = IF rverdict = "true" THEN reported \cup {<<rid, rfmt>>}
                                      ELSE reported
  /\ rpc' = "recv"
  /\ UNCHANGED <<client, mining, rid, rverdict, rfmt, missed,
                 submit_format_by_id, wire>>

\* recv fails or ends: read_loop returns.
Eof ==
  /\ rpc = "recv"
  /\ rpc' = "done"
  /\ UNCHANGED <<client, mining, rid, rverdict, rfmt,
                 disable_local_target_scaling, accepted, rejected, verdicts,
                 missed, reported, submit_format_by_id, wire>>

-----------------------------------------------------------------------------

\* The pool has the line of this id.
OnWire(i) == wire[i] # NoFormat

Submitter == \/ Connect \/ Login \/ Return \/ FoundShare \/ Register
             \/ SendOk \/ SendFails \/ Unregister \/ Record \/ Tally

Reader ==
  \/ \E i \in Ids, v \in Verdicts : OnWire(i) /\ MatchAnswer(i, v)
  \/ \E i \in Ids : OnWire(i) /\ IgnoreAnswer(i)
  \/ IgnoreAnswer(AuthorizeId)
  \/ LookUpFormat \/ Judge \/ Eof

Terminated == spc = "returned" /\ rpc \in {"off", "done"} /\ UNCHANGED vars

Next == Submitter \/ Reader \/ Terminated

Spec == Init /\ [][Next]_vars

-----------------------------------------------------------------------------
(* Properties.                                                             *)

SubmitPcs == {"connect", "login", "mine", "register", "sending", "unregister",
              "record", "tally", "returned"}
ReaderPcs == {"off", "recv", "lookup", "count", "done"}

Flags ==
  /\ sock_ \in BOOLEAN /\ sent_any \in BOOLEAN
  /\ disable_local_target_scaling \in BOOLEAN
  /\ spc \in SubmitPcs /\ rpc \in ReaderPcs /\ rverdict \in Verdicts

Numbers ==
  /\ next_id_ \in 100..100 + MaxSubmits
  /\ pending_submits_ \subseteq 101..next_id_
  /\ fmt \in Formats \cup {NoFormat} /\ rfmt \in Formats \cup {NoFormat}
  /\ submit_format_by_id \in [Ids -> Formats \cup {NoFormat}]
  /\ submitted \in Nat /\ shares_found \in Nat
  /\ accepted \in Nat /\ rejected \in Nat
  /\ wire \in [Ids -> Formats \cup {NoFormat}]
  /\ verdicts \in [Ids -> Nat]
  /\ missed \subseteq Ids
  /\ reported \subseteq Ids \X (Formats \cup {NoFormat})

\* Every variable keeps its type; in particular the ids handed out stay in
\* their range and the loop over the formats stays inside the list.
TypeOK == Flags /\ Numbers

\* Accepted and rejected are driven only by correlated answers
\* (whirlpool.cpp:74): however often the pool repeats an answer, a submission
\* is judged at most once.
JudgedAtMostOnce == \A i \in Ids : verdicts[i] <= 1

\* An answer the pool gives to a submission it received is never dropped
\* unjudged, even when it overtakes the return of send().
NoVerdictLost == missed = {}

Unsent     == IF spc \in {"sending", "unregister"} THEN {id} ELSE {}
Uncounted  == IF spc = "record" THEN 1 ELSE 0
InVerdict  == IF rpc \in {"lookup", "count"} THEN 1 ELSE 0

\* The counters of the dashboard add up at every moment: each submission is
\* accepted, rejected, being judged or pending, also across failed sends.
LedgerBalances ==
  submitted + Uncounted
    = accepted + rejected + InVerdict + Cardinality(pending_submits_ \ Unsent)

\* ALPHANUMERIC_AUTO_SUBMIT_PROBE.txt:30 has the user rerun with the format the
\* log names: it is never one other than the accepted share was sent in.  It
\* may be missing, when the answer overtakes the record of the format.
NoWrongFormat == \A r \in reported : r[2] \in {NoFormat, wire[r[1]]}

-----------------------------------------------------------------------------
(* The inductive invariant behind the theorems of StratumClientProofs.     *)

\* What a thread in the middle of a submission or a verdict works on, and the
\* room the bound leaves for the formats still to be tried.
ScopeInv ==
  /\ spc \in {"connect", "login"} => rpc = "off"
  /\ spc \in {"sending", "unregister", "record"} => id = next_id_ /\ id \in Ids
  /\ spc \in {"register", "sending", "unregister", "record"} => fmt \in Formats
  /\ spc = "register" => next_id_ + NFormats - fmt + 1 <= 100 + MaxSubmits
  /\ spc \in {"sending", "unregister", "record"}
        => next_id_ + NFormats - fmt <= 100 + MaxSubmits
  /\ rpc \in {"lookup", "count"} => rid \in 101..next_id_

\* Where the life of an id stands: an id handed out and not in flight here is
\* either pending and unjudged, or judged once, or was never sent.
IdInv ==
  /\ \A i \in Ids : i > next_id_ => verdicts[i] = 0 /\ wire[i] = NoFormat
  /\ \A i \in pending_submits_ : verdicts[i] = 0
  /\ rpc \in {"lookup", "count"} => /\ verdicts[rid] = 0
                                    /\ rid \notin pending_submits_
                                    /\ OnWire(rid)
  /\ \A i \in Ids : OnWire(i) => \/ i \in pending_submits_
                                 \/ verdicts[i] = 1
                                 \/ rpc \in {"lookup", "count"} /\ rid = i
  /\ spc \in {"sending", "unregister"}
        => ~OnWire(id) /\ verdicts[id] = 0 /\ id \in pending_submits_
  /\ spc = "record" => wire[id] = fmt

FormatInv ==
  /\ \A i \in Ids : submit_format_by_id[i] \in {NoFormat, wire[i]}
  /\ rpc = "count" => rfmt \in {NoFormat, wire[rid]}
  /\ \A r \in reported : OnWire(r[1])

IInv == /\ TypeOK /\ ScopeInv /\ IdInv /\ FormatInv /\ JudgedAtMostOnce /\ NoVerdictLost
        /\ LedgerBalances /\ NoWrongFormat

=============================================================================
