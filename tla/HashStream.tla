----------------------------- MODULE HashStream -----------------------------
(***************************************************************************)
(* CWhirlpool512 of crypto/whirlpool.cpp over the streaming layer: one     *)
(* object is written to, finalized and reset in any order, over and over.  *)
(* A block is folded in by remembering it, so that a digest is the         *)
(* sequence of the blocks it comes from.                                   *)
(*                                                                         *)
(* What the messages say is a parameter.  The history says how many bytes  *)
(* of which message were written, so that bytes an earlier message left in *)
(* the buffer can be told from those of the present one.                   *)
(***************************************************************************)
EXTENDS Integers, Sequences, Powers

CONSTANTS BLEN, WLEN, Radix, UnalignedWords,
          ContentByte(_, _),  \* byte i, from 1, of each message
          MaxLength,    \* bound: bytes of a message
          MaxMessages   \* bound: messages the object is used for

ASSUME StreamAssumption ==
  /\ WLEN \in Nat \ {0} /\ BLEN \in Nat /\ BLEN > 4 * WLEN
  /\ MaxLength \in Nat /\ MaxMessages \in Nat
  /\ Radix \in Nat \ {0} /\ Radix % 2 = 0
  /\ Power(Radix, WLEN) % BLEN = 0 /\ Power(Radix, WLEN) > MaxLength
  /\ Power(Radix, WLEN) % 8 = 0
  /\ UnalignedWords \in BOOLEAN

VARIABLES
  ctx,      \* sph_whirlpool_context
  hash,     \* what Finalize has stored last
  written,  \* history: bytes of the message so far
  message,  \* history: which message, from 1
  closed    \* history: bytes of the message hash is of, or Open

streamVars == <<ctx, hash, written, message, closed>>

Open == -1

Remember(block, chain) == Append(chain, block)

Md == INSTANCE MdHelper WITH CountSpan <- Power(Radix, WLEN), InitialState <- <<>>,
                             RFUN <- Remember

Piece(from, len) == [i \in 1..len |-> ContentByte(message, from + i)]

StreamInit ==
  /\ ctx = [buf |-> Md!Zeros(BLEN), val |-> <<>>, count |-> 0]
  /\ hash = <<>>
  /\ written = 0 /\ message = 1 /\ closed = Open

\* Nothing happens without data.
Write(len, aligned) ==
  /\ written + len <= MaxLength
  /\ ctx' = IF len = 0 THEN ctx ELSE Md!update(ctx, Piece(written, len), aligned)
  /\ written' = written + len
  /\ closed' = Open
  /\ UNCHANGED <<hash, message>>

\* sph_whirlpool_close, which sets the context up anew, and again so.
Finalize ==
  /\ message < MaxMessages
  /\ hash' = Md!addbits_and_close(ctx).val
  /\ ctx' = Md!init(Md!init(Md!addbits_and_close(ctx)))
  /\ closed' = written
  /\ written' = 0 /\ message' = message + 1

Reset ==
  /\ message < MaxMessages
  /\ ctx' = Md!init(ctx)
  /\ written' = 0 /\ message' = message + 1 /\ closed' = Open
  /\ UNCHANGED hash

StreamNext ==
  \/ \E len \in 0..MaxLength, aligned \in BOOLEAN : Write(len, aligned)
  \/ Finalize \/ Reset

StreamSpec == StreamInit /\ [][StreamNext]_streamVars

-----------------------------------------------------------------------------
(* Properties.                                                             *)

\* The padded message: a 1 bit, as many 0 bits as it takes, and four words of
\* length in bits.
PaddedMessage(msg, len) ==
  LET zeros == CHOOSE z \in 0..BLEN - 1 : (len + 1 + z + 4 * WLEN) % BLEN = 0
      bits[i \in 1..4 * WLEN] == IF i = 4 * WLEN THEN 8 * len ELSE bits[i + 1] \div Radix
  IN [i \in 1..len |-> ContentByte(msg, i)] \o <<Radix \div 2>>
       \o [i \in 1..zeros |-> 0] \o [i \in 1..4 * WLEN |-> bits[i] % Radix]

\* However a message is cut into writes, wherever they lie in memory, and
\* whatever the object was used for before, its digest comes from the blocks
\* of the padded message, in order, and from nothing else.
DigestIsOfTheMessage ==
  closed # Open =>
    LET padded == PaddedMessage(message - 1, closed)
    IN hash = [b \in 1..Len(padded) \div BLEN |->
                 SubSeq(padded, (b - 1) * BLEN + 1, b * BLEN)]

=============================================================================
