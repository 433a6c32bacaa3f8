------------------------- MODULE MCGuardedExecution -------------------------
(* Bounded instances of GuardedExecution for TLC. *)
EXTENDS GuardedExecution, TLC

Symmetry == Permutations(Processes)
=============================================================================
