---------------------------- MODULE MCDataPaths ----------------------------
(* DataPaths for TLC: 8-bit targets in two limbs with SCALE 4 for the      *)
(* parser, blocks of eight bytes for the hash object, the real sizes for   *)
(* both Whirlpools.                                                        *)
EXTENDS DataPaths

\* An empty line, and one that is longer than a receive with its ending.
TwoTexts == {<<>>, <<"a", "b">>}

\* Values no other field has.
OneBlock    == {5}
OnePrevHash == {3}
TwoMerkles  == {7, 11}
OneTime     == {20}
\* The difficulty that looks like a flag; targets 127 and 15, and 0 behind the
\* last bit.
FourHeaderDiffs == {1, 2, 9, 16}
\* The consensus target of difficulty 2, an easier and a harder one.
ThreeTargets == {127, 200, 5}
\* 0, less than 1/Scale, 1/2, 1, 5/4 less a half step, 3, the last that fits
\* the denominator and one that does not.
SomePoolDiffs == {0, 1, 4, 8, 9, 24, 30, 40}

\* Two or three tokens of any kind, and four that make a job but for the 0.
OddTokens == {Num(0), Num(1), Num(3), Num(20),
              Quoted(1), Hex(9, 3), Hex(9, NoNumber),
              Flag(TRUE), NullToken, EmptyToken, Text}
SomeOddLines ==
  [1..2 -> OddTokens] \cup [1..3 -> OddTokens]
    \cup {<<Hex(9, 3), t, Hex(9, 3), Flag(TRUE)>> :
            t \in {Num(0), EmptyToken, Text}}

\* Two headers in which no two neighbouring words are alike.
TwoHeaders ==
  {[i \in 1..80 |-> IF i > 76 THEN 0 ELSE (a * (i - 1) + 3) % 256] : a \in {7, 90}}
\* The verified nonce, and one with four different bytes.
TwoStarts == {0, 16909060}

\* Bytes that differ from those of the other messages near them; no padding
\* byte looks like one.
MarkByte(msg, i) == 1 + ((4 * msg + i) % (Radix \div 2 - 2))

\* No message, the last length that is padded within the block and the first
\* that is not, and the length of a header.
FourLengths == {0, 31, 32, 80}

=============================================================================
