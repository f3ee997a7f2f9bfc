------------------------- MODULE MCAlphaScanKernel -------------------------
(* AlphaScanKernel for TLC: the constants are given by AlphaScan.cfg.      *)
EXTENDS AlphaScanKernel
=============================================================================
