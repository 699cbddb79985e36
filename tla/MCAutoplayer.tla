---------------------------- MODULE MCAutoplayer ----------------------------
(* Small instances of Autoplayer for TLC. *)
EXTENDS Autoplayer, TLC

\* No instance differs from another, and no view of a turn from another.
Symmetry == Permutations(Instance) \cup Permutations(MyTurn)
=============================================================================
