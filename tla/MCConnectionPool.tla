-------------------------- MODULE MCConnectionPool --------------------------
(* Instances of ConnectionPool for TLC. *)
EXTENDS ConnectionPool, TLC

\* Threads are interchangeable, and so are connections.
Symmetry == Permutations(Threads) \cup Permutations(Connections)
=============================================================================
