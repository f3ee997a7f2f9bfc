---------------------------- MODULE StratumLines ----------------------------
(***************************************************************************)
(* Lines over the socket of StratumClient: send_line and read_loop of      *)
(* src/stratum_client.cpp.  The operating system takes and delivers bytes  *)
(* in portions of its own choice; what a line says is the business of      *)
(* StratumClient and of the engines.                                       *)
(***************************************************************************)
EXTENDS Integers, Sequences, SequencesExt, FiniteSetsExt

CONSTANTS
  Texts,      \* what lines say: sequences of bytes without CR and LF
  TmpSize,    \* bytes of the receive buffer, 4096 in the code
  MaxIn,      \* bound: lines the pool sends
  MaxOut      \* bound: lines the miner sends

CR == "cr"
LF == "lf"

ASSUME TextsAssumption ==
  /\ TmpSize \in Nat \ {0}
  /\ \A t \in Texts : t \in Seq({t[i] : i \in DOMAIN t} \ {CR, LF})

VARIABLES
  wire_in,   \* bytes on their way to the miner
  buf,       \* buf of read_loop
  read_loop,    \* "recv", "lines" or "ended"
  handled,   \* history: lines handed to the parsers
  from_pool, \* history: lines the pool has sent
  unsent,    \* what send_line has left of its line, <<>> outside
  wire_out,  \* bytes handed to the operating system
  to_pool,   \* history: lines given to send_line
  failed     \* history: a send has failed

linesVars == <<wire_in, buf, read_loop, handled, from_pool, unsent, wire_out, to_pool, failed>>

readerVars == <<wire_in, buf, read_loop, handled, from_pool>>
senderVars == <<unsent, wire_out, to_pool, failed>>

LinesInit ==
  /\ wire_in = <<>> /\ buf = <<>> /\ read_loop = "recv" /\ handled = <<>> /\ from_pool = <<>>
  /\ unsent = <<>> /\ wire_out = <<>> /\ to_pool = <<>> /\ failed = FALSE

-----------------------------------------------------------------------------
(* read_loop.                                                              *)

\* The pool ends its lines with LF or with CR LF.
PoolSends(text, ending) ==
  /\ Len(from_pool) < MaxIn
  /\ wire_in' = wire_in \o text \o ending
  /\ from_pool' = Append(from_pool, text)
  /\ UNCHANGED <<buf, read_loop, handled, senderVars>>

\* recv returns n bytes; an interrupted call is made again.
Recv(n) ==
  /\ read_loop = "recv" /\ n <= Min({Len(wire_in), TmpSize})
  /\ buf' = buf \o SubSeq(wire_in, 1, n)
  /\ wire_in' = SubSeq(wire_in, n + 1, Len(wire_in))
  /\ read_loop' = "lines"
  /\ UNCHANGED <<handled, from_pool, senderVars>>

LineEnds(bytes) == {i \in DOMAIN bytes : bytes[i] = LF}

\* One CR in front of the LF belongs to the ending.
WithoutCR(line) == IF line # <<>> /\ Last(line) = CR THEN Front(line) ELSE line

\* Mutation: what was received behind a line is thrown away with it.
RestDropped(bytes, p) == <<>>
Rest(bytes, p) == SubSeq(bytes, p + 1, Len(bytes))

\* A whole line goes to the three parsers and to the engine.
TakeLine ==
  /\ read_loop = "lines" /\ LineEnds(buf) # {}
  /\ LET p == Min(LineEnds(buf))
     IN /\ handled' = Append(handled, WithoutCR(SubSeq(buf, 1, p - 1)))
        /\ buf' = Rest(buf, p)
  /\ UNCHANGED <<wire_in, read_loop, from_pool, senderVars>>

NoMoreLines ==
  /\ read_loop = "lines" /\ LineEnds(buf) = {}
  /\ read_loop' = "recv"
  /\ UNCHANGED <<wire_in, buf, handled, from_pool, senderVars>>

\* recv returns 0 or fails for good, also with bytes on their way.
ConnectionEnds ==
  /\ read_loop = "recv"
  /\ read_loop' = "ended"
  /\ UNCHANGED <<wire_in, buf, handled, from_pool, senderVars>>

-----------------------------------------------------------------------------
(* send_line, which only the mining thread calls.                          *)

StartLine(text) ==
  /\ unsent = <<>> /\ Len(to_pool) < MaxOut
  /\ unsent' = Append(text, LF)
  /\ to_pool' = Append(to_pool, text)
  /\ UNCHANGED <<wire_out, failed, readerVars>>

\* send takes n bytes.
Send(n) ==
  /\ unsent # <<>> /\ n <= Len(unsent)
  /\ wire_out' = wire_out \o SubSeq(unsent, 1, n)
  /\ unsent' = SubSeq(unsent, n + 1, Len(unsent))
  /\ UNCHANGED <<to_pool, failed, readerVars>>

SendLineFails ==
  /\ unsent # <<>>
  /\ unsent' = <<>> /\ failed' = TRUE
  /\ UNCHANGED <<wire_out, to_pool, readerVars>>

\* The connection has ended, and the miner has nothing more to send.
LinesDone ==
  /\ read_loop = "ended" /\ unsent = <<>> /\ Len(to_pool) = MaxOut
  /\ UNCHANGED linesVars

LinesNext ==
  \/ \E t \in Texts, ending \in {<<LF>>, <<CR, LF>>} : PoolSends(t, ending)
  \/ \E n \in 1..TmpSize : Recv(n)
  \/ TakeLine \/ NoMoreLines \/ ConnectionEnds
  \/ \E t \in Texts : StartLine(t)
  \/ \E n \in 1..Len(unsent) : Send(n)
  \/ SendLineFails \/ LinesDone

LinesSpec == LinesInit /\ [][LinesNext]_linesVars

-----------------------------------------------------------------------------
(* Properties.                                                             *)

\* However the bytes are cut into receives, the parsers get the lines the pool
\* has sent, in its order and without their endings; whenever the thread waits
\* for more, every line whose end has arrived was handled.  What the pool gets
\* is the lines of the miner one after the other, unless a send has failed.
LinesAsSent ==
  /\ IsPrefix(handled, from_pool)
  /\ read_loop = "recv" =>
       Len(handled) + Cardinality(LineEnds(wire_in)) = Len(from_pool)
  /\ ~failed =>
       wire_out \o unsent = FlattenSeq([i \in DOMAIN to_pool |-> Append(to_pool[i], LF)])

-----------------------------------------------------------------------------
(* The inductive invariant behind it (StratumClientProofs).                *)

LineByte == {CR, LF} \cup (UNION {{t[i] : i \in DOMAIN t} : t \in Texts})

LinesTypeInv ==
  /\ wire_in \in Seq(LineByte) /\ buf \in Seq(LineByte)
  /\ unsent \in Seq(LineByte) /\ wire_out \in Seq(LineByte)
  /\ handled \in Seq(Texts) /\ from_pool \in Seq(Texts) /\ to_pool \in Seq(Texts)
  /\ read_loop \in {"recv", "lines", "ended"} /\ failed \in BOOLEAN

\* Behind place at and up to place to there are the bytes of a text and one of
\* the two endings.
Framed(bytes, at, to, text) ==
  /\ \A i \in 1..Len(text) : bytes[at + i] = text[i]
  /\ \/ to = at + Len(text) + 1
     \/ to = at + Len(text) + 2 /\ bytes[to - 1] = CR
  /\ bytes[to] = LF

\* Bytes received or on their way, and the lines sent that are not handled.
Pending == buf \o wire_in
Left    == Len(from_pool) - Len(handled)

\* Places that cut bytes into texts, those of a sequence from behind done on.
Cuts(cut, bytes, texts, done) ==
  /\ cut[0] = 0 /\ cut[Len(texts) - done] = Len(bytes)
  /\ \A k \in 1..Len(texts) - done : Framed(bytes, cut[k - 1], cut[k], texts[done + k])

LinesInv ==
  /\ LinesTypeInv
  /\ IsPrefix(handled, from_pool)
  /\ \E cut \in [0..Left -> 0..Len(Pending)] : Cuts(cut, Pending, from_pool, Len(handled))
  /\ read_loop = "recv" => LineEnds(buf) = {}
  /\ ~failed =>
       wire_out \o unsent = FlattenSeq([i \in DOMAIN to_pool |-> Append(to_pool[i], LF)])

=============================================================================
