--------------------------- MODULE MCAutoConnector ---------------------------
(* Small instances of AutoConnector for TLC. *)
EXTENDS AutoConnector, TLC

Symmetry == Permutations(Instance) \cup Permutations(Window)
=============================================================================
