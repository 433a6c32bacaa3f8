-------------------------- MODULE MCSessionRegistry --------------------------
(* Values for the constants of SessionRegistry. *)
EXTENDS SessionRegistry, TLC

\* Requests in flight, ids and subjects are interchangeable.
Symmetric == Permutations(Lanes) \union Permutations(Ids) \union Permutations(Subjects)
==============================================================================
