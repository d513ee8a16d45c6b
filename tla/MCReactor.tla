----------------------------- MODULE MCReactor -----------------------------
(* Reactor on small instances for TLC. *)
EXTENDS Reactor, TLC

CONSTANTS t1, t2, k1, k2

\* Threads and tasks are interchangeable: used by the runs without liveness.
Symmetry == Permutations(Threads) \cup Permutations(Tasks)

=============================================================================
