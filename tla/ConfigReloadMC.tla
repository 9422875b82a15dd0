--------------------------- MODULE ConfigReloadMC ----------------------------
(* Values of the constants of ConfigReload for the model checker. *)
EXTENDS ConfigReload, TLC

CONSTANTS c1, c2, h1, h2

HandlerSymmetry == Permutations(Handlers)
=============================================================================
