---------------------------- MODULE SessionDirectory ----------------------------
(***************************************************************************)
(* What the session registry promises, without permits, locks or requests: *)
(* a directory that maps a session id to at most one incarnation, never    *)
(* holds more than MaxSessions of them, never replaces an incarnation by   *)
(* another in one step, and never brings a removed one back.               *)
(***************************************************************************)
EXTENDS Integers, FiniteSets

CONSTANTS
    Ids,          \* session ids
    Nonces,       \* names of incarnations, 0 is none of them
    MaxSessions   \* how many incarnations may be registered at a time

VARIABLES
    directory,  \* directory[s]: the incarnation (its nonce) registered under s, or 0
    used        \* the nonces that were ever registered

Registered == {s \in Ids : directory[s] # 0}

Init == directory = [s \in Ids |-> 0] /\ used = {}

\* An id that has no session gets a new one.
Add(s, n) ==
    /\ directory[s] = 0 /\ n \notin used
    /\ Cardinality(Registered) < MaxSessions
    /\ directory' = [directory EXCEPT ![s] = n]
    /\ used' = used \union {n}

\* Sessions are closed, evicted or lost with the process.
Remove(gone) ==
    /\ directory' = [s \in Ids |-> IF s \in gone THEN 0 ELSE directory[s]]
    /\ UNCHANGED used

Next ==
    \/ \E s \in Ids, n \in Nonces : Add(s, n)
    \/ \E gone \in SUBSET Registered : Remove(gone)

Spec == Init /\ [][Next]_<<directory, used>>
================================================================================
