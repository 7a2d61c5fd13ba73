----------------------------- MODULE MCBlacklist -----------------------------
(* Instances of Blacklist for TLC. *)
EXTENDS Blacklist, TLC

Symmetry == Permutations(Servers) \cup Permutations(Threads)
=============================================================================
