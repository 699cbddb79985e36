--------------------------- MODULE MCPokerTracker ---------------------------
(* Instances of PokerTracker for TLC. *)
EXTENDS PokerTracker
=============================================================================
