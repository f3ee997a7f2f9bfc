---------------------------- MODULE NonceSearch ----------------------------
(***************************************************************************)
(* What a call of either GPU backend promises the engine that makes it: a  *)
(* range of nonces goes in, at most one find comes out.  The nonces of the *)
(* range are tried in any order, none of them twice; a find that is        *)
(* answered is one that was tried in this call and won; and "no find"      *)
(* means that every nonce was tried, unless the call was cancelled, and    *)
(* that none of those tried had won, cancelled or not.  A call in which    *)
(* the device fails promises nothing.                                      *)
(***************************************************************************)

VARIABLES
  phase,    \* "idle", "searching" or "answered"
  asked,    \* the nonces of the call
  hashed,   \* those tried so far
  wins,     \* those of them that may still be answered
  stopped,  \* the call was cancelled
  answer    \* the find, none or one

search == <<phase, asked, hashed, wins, stopped, answer>>

NothingYet == hashed = {} /\ wins = {} /\ answer = {} /\ ~stopped

Init ==
  /\ phase \in {"idle", "searching"} /\ NothingYet
  /\ phase = "idle" => asked = {}

\* Any range may be asked for.
Call ==
  /\ phase = "idle" /\ phase' = "searching"
  /\ NothingYet'

Try ==
  /\ phase = "searching"
  /\ \E n \in asked \ hashed :
       hashed' = hashed \cup {n} /\ wins' \in {wins, wins \cup {n}}
  /\ UNCHANGED <<phase, asked, stopped, answer>>

\* Of several finds all but one may be let go.
LetGo ==
  /\ phase = "searching"
  /\ wins' # {} /\ wins' \subseteq wins
  /\ UNCHANGED <<phase, asked, hashed, stopped, answer>>

Cancel ==
  /\ phase = "searching"
  /\ stopped' = TRUE
  /\ UNCHANGED <<phase, asked, hashed, wins, answer>>

AnswerFind ==
  /\ phase = "searching" /\ phase' = "answered"
  /\ \E n \in wins : answer' = {n}
  /\ UNCHANGED <<asked, hashed, wins, stopped>>

AnswerNone ==
  /\ phase = "searching" /\ phase' = "answered"
  /\ wins = {}
  /\ stopped \/ hashed = asked
  /\ UNCHANGED <<asked, hashed, wins, stopped, answer>>

\* The engine has read the answer, or the device has failed.
Leave ==
  /\ phase # "idle" /\ phase' = "idle"
  /\ asked' = {} /\ NothingYet'

Next == Call \/ Try \/ LetGo \/ Cancel \/ AnswerFind \/ AnswerNone \/ Leave

Spec == Init /\ [][Next]_search

=============================================================================
