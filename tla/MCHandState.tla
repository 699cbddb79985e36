----------------------------- MODULE MCHandState -----------------------------
(* Small instances of HandState for TLC. *)
EXTENDS HandState, TLC

\* The first card of a hand is the second one of the next: when one of them is drawn
\* late the user seems to hold the same card twice.
OtherCards == [h \in 0 .. Hands |-> <<h + 2, h + 1>>]
=============================================================================
