------------------------------- MODULE MCHook -------------------------------
(* Hook on small instances for TLC. *)
EXTENDS Hook, TLC

CONSTANTS f1, f2, f3

\* Fibers are interchangeable: used by the runs without liveness.
Symmetry == Permutations(Fibers)

=============================================================================
