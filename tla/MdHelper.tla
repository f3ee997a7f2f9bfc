------------------------------ MODULE MdHelper ------------------------------
(***************************************************************************)
(* The streaming layer of the SPH hash functions, md_helper.c, compiled    *)
(* for Whirlpool: a message arrives in pieces of any size, is cut into     *)
(* blocks of BLEN bytes that RFUN folds into a state, and is closed by a   *)
(* padding that ends in the length of the message in bits.                 *)
(*                                                                         *)
(* Whirlpool is compiled with BE64 and PLW4: the length takes four words.  *)
(***************************************************************************)
EXTENDS Integers, Sequences, SequencesExt

CONSTANTS
  BLEN,            \* bytes of a block, 64 in the code
  WLEN,            \* bytes of a word, 8 in the code
  Radix,           \* values of a byte, 256 in the code
  CountSpan,       \* values of the byte counter, 2^64 in the code
  UnalignedWords,  \* SPH_UNALIGNED: words may be read at any address
  InitialState,    \* the state of an empty message
  RFUN(_, _)       \* the state after a block and a state

MAXPAD == BLEN - 4 * WLEN

Zeros(n) == [i \in 1..n |-> 0]

\* memcpy(buf + at, data, Len(data)): what lies behind it is left alone.
Memcpy(buf, at, data) ==
  [i \in 1..BLEN |-> IF i - at \in 1..Len(data) THEN data[i - at] ELSE buf[i]]

\* sph_enc64be_aligned: the low WLEN bytes of a number, high byte first.
sph_enc64be(x) ==
  LET rest[i \in 1..WLEN] == IF i = WLEN THEN x ELSE rest[i + 1] \div Radix
  IN [i \in 1..WLEN |-> rest[i] % Radix]

\* buf keeps its bytes: only the state and the counter are set.
init(sc) == [sc EXCEPT !.val = InitialState, !.count = 0]

current(sc) == sc.count % BLEN

-----------------------------------------------------------------------------
(* Taking in data.                                                         *)

\* One turn of the loop: fill the buffer, fold it in when it is full.
ShortTurn(sc, data) ==
  LET clen == IF BLEN - current(sc) > Len(data) THEN Len(data) ELSE BLEN - current(sc)
      buf  == Memcpy(sc.buf, current(sc), SubSeq(data, 1, clen))
      full == current(sc) + clen = BLEN
  IN [buf   |-> buf,
      val   |-> IF full THEN RFUN(buf, sc.val) ELSE sc.val,
      count |-> (sc.count + clen) % CountSpan]

\* Turns until nothing is left: each but the last ends a block.
short(sc, data) ==
  LET turns == (current(sc) + Len(data)) \div BLEN + 1
      Turn(at, i) ==
        IF at.left = <<>> THEN at
        ELSE LET next == ShortTurn(at.sc, at.left)
             IN [sc |-> next,
                 left |-> SubSeq(at.left, 1 + BLEN - current(at.sc), Len(at.left))]
  IN FoldLeft(Turn, [sc |-> sc, left |-> data], [i \in 1..turns |-> i]).sc

\* Whole blocks straight from the caller's memory, the rest into the buffer.
Long(sc, data) ==
  LET blocks == Len(data) \div BLEN
      Block(i) == SubSeq(data, (i - 1) * BLEN + 1, i * BLEN)
  IN [buf   |-> Memcpy(sc.buf, 0, SubSeq(data, blocks * BLEN + 1, Len(data))),
      val   |-> FoldLeft(LAMBDA val, i : RFUN(Block(i), val), sc.val,
                         [i \in 1..blocks |-> i]),
      count |-> (sc.count + Len(data)) % CountSpan]

\* sph_whirlpool: two blocks or more are not copied, once the buffer is empty
\* and if words may be read where the data lies then.
update(sc, data, aligned) ==
  LET t     == IF current(sc) > 0 THEN BLEN - current(sc) ELSE 0
      after == short(sc, SubSeq(data, 1, t))
      rest  == SubSeq(data, t + 1, Len(data))
  IN IF Len(data) < 2 * BLEN THEN short(sc, data)
     ELSE IF ~UnalignedWords /\ ~aligned THEN short(after, rest)
     ELSE Long(after, rest)

-----------------------------------------------------------------------------
(* Closing a message of whole bytes: ub = n = 0.                           *)

\* A 1 bit behind the data; a block without room for the length is folded in
\* first.  Mutation: a block that is full up to the length counts as such.
PaddedEarly(sc) ==
  LET buf == Memcpy(sc.buf, current(sc), <<Radix \div 2>>)
      at  == current(sc) + 1
  IN IF at >= MAXPAD
     THEN [buf |-> Memcpy(Memcpy(buf, at, Zeros(BLEN - at)), 0, Zeros(MAXPAD)),
           val |-> RFUN(Memcpy(buf, at, Zeros(BLEN - at)), sc.val)]
     ELSE [buf |-> Memcpy(buf, at, Zeros(MAXPAD - at)), val |-> sc.val]

Padded(sc) ==
  LET buf == Memcpy(sc.buf, current(sc), <<Radix \div 2>>)
      at  == current(sc) + 1
  IN IF at > MAXPAD
     THEN [buf |-> Memcpy(Memcpy(buf, at, Zeros(BLEN - at)), 0, Zeros(MAXPAD)),
           val |-> RFUN(Memcpy(buf, at, Zeros(BLEN - at)), sc.val)]
     ELSE [buf |-> Memcpy(buf, at, Zeros(MAXPAD - at)), val |-> sc.val]

\* The length in bits over four words, of which the upper two are always 0.
addbits_and_close(sc) ==
  LET pad    == Padded(sc)
      length == Zeros(2 * WLEN) \o sph_enc64be(sc.count \div (CountSpan \div 8))
                  \o sph_enc64be((8 * sc.count) % CountSpan)
      buf    == Memcpy(pad.buf, MAXPAD, length)
  IN [sc EXCEPT !.buf = buf, !.val = RFUN(buf, pad.val)]

=============================================================================
