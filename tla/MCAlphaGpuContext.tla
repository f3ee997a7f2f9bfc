------------------------- MODULE MCAlphaGpuContext -------------------------
(* AlphaGpuContext for TLC: callers as model values.                       *)
EXTENDS AlphaGpuContext, TLC

CONSTANTS c1, c2

OneCaller  == {c1}
TwoCallers == {c1, c2}
=============================================================================
