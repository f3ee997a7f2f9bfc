------------------------------- MODULE Powers -------------------------------
(***************************************************************************)
(* Powers, by multiplying: the exponents of the code are variables, and    *)
(* the provers know those of numerals only.                                *)
(***************************************************************************)
EXTENDS Integers

\* b to the n.
Power(b, n) ==
  LET power[i \in 0..n] == IF i = 0 THEN 1 ELSE b * power[i - 1]
  IN power[n]

=============================================================================
