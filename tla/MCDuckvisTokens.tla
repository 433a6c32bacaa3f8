--------------------------- MODULE MCDuckvisTokens ---------------------------
(* Bounded instances of DuckvisTokens for TLC. *)
EXTENDS DuckvisTokens, TLC

Symmetry == Permutations(Lanes)
=============================================================================
