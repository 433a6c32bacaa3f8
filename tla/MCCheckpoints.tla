--------------------------- MODULE MCCheckpoints ---------------------------
(* Bounded instances of Checkpoints for TLC. *)
EXTENDS Checkpoints

CONSTANTS i1, i2

mc_Instances == {i1, i2}
mc_Databases == <<"sales">>
\* one clock is ahead of PostgreSQL's, the other behind
mc_Skew == [i \in Instances |-> IF i = i1 THEN 1 ELSE -1]
=============================================================================
