------------------------ MODULE MCPreparedStatements ------------------------
(* Bounded instances of PreparedStatements for TLC: the shapes of the texts. *)
EXTENDS PreparedStatements, TLC

\* q: a query; script: DDL followed by an INSERT of computed values; odd: a text
\* of DuckDB's own grammar that sqlparser rejects, and that changes the catalog.
CONSTANTS q, script, odd

mc_Sqls == {q, script, odd}
mc_Unparsed == {odd}
mc_Queries == {q}
mc_Multi == {script}
mc_Inserts == {script}
mc_Prefixed == {script}
mc_Changing == {script}
Symmetry == Permutations(Clients)
=============================================================================
