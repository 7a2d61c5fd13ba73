--------------------------- MODULE MCPlayerSession ---------------------------
(* Instances of PlayerSession for TLC. *)
EXTENDS PlayerSession, TLC

Symmetry == Permutations(Threads) \cup Permutations(Players)
=============================================================================
