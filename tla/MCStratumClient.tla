-------------------------- MODULE MCStratumClient --------------------------
(* StratumClient for TLC: the constants are given by the cfg files.        *)
EXTENDS StratumClient
=============================================================================
