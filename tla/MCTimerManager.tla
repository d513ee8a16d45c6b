--------------------------- MODULE MCTimerManager ---------------------------
(* TimerManager on small instances for TLC. *)
EXTENDS TimerManager, TLC

CONSTANTS t1, t2, i1, i2

\* Timers and threads are interchangeable: used by the run without liveness.
Symmetry == Permutations(Timers) \cup Permutations(Idlers)

=============================================================================
