-------------------------- MODULE MCSessionLockdown --------------------------
(* Bounded instances of SessionLockdown for TLC. *)
EXTENDS SessionLockdown, TLC

Symmetry == Permutations(Lanes) \cup Permutations(Catalogs) \cup Permutations(Roots)
=============================================================================
