---------------------------- MODULE MCIOManager ----------------------------
(* IOManager on small instances for TLC. *)
EXTENDS IOManager, TLC

CONSTANTS c1, c2, c3, p1, p2

\* Clients and threads are interchangeable: used by the runs without liveness.
Symmetry == Permutations(Clients) \cup Permutations(Pollers)

=============================================================================
