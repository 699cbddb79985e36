----------------------------- MODULE MCIterator -----------------------------
(* Instances of Iterator for TLC. *)
EXTENDS Iterator
=============================================================================
