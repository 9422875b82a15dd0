----------------------------- MODULE AlertHubMC ------------------------------
(* Values of the constants of AlertHub for the model checker. *)
EXTENDS AlertHub, TLC
CONSTANTS s1, s2
=============================================================================
