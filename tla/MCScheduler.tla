---------------------------- MODULE MCScheduler ----------------------------
(* Scheduler on small instances for TLC. *)
EXTENDS Scheduler, TLC

CONSTANTS w1, w2, c1, c2, c3, f1, f2, f3

\* The objects user code allocates are interchangeable, and so are the created
\* threads: used by the runs that check safety only.
Symmetry == Permutations(Workers) \cup Permutations(Cbs) \cup Permutations(Fibers)

=============================================================================
