---------------------------- MODULE MCCashPledge ----------------------------
(* Instances of CashPledge for TLC. *)
EXTENDS CashPledge, TLC

\* Rooms are interchangeable, and so are players.
Symmetry == Permutations(Rooms) \cup Permutations(Players)
=============================================================================
