------------------------------ MODULE ConnectionPool ------------------------------
(***************************************************************************)
(* What both pools of swanlake-client promise, without locks, wake-ups or  *)
(* counters: never more than MaxSize connections are open, a connection    *)
(* serves one caller at a time, and one that left the pool otherwise than  *)
(* by being lent is never lent again.                                      *)
(***************************************************************************)
EXTENDS Integers, FiniteSets

CONSTANTS
    Callers,      \* threads or futures of the application
    Connections,  \* names of connections, 0 is none of them
    MaxSize       \* PoolConfig.max_size

VARIABLES
    parked,  \* connections in the pool
    lent,    \* lent[c]: the connection caller c uses, or 0
    adrift,  \* open connections whose caller went away without returning them
    ever     \* connections that were ever opened

InUse == {lent[c] : c \in Callers} \ {0}
Open == parked \union InUse \union adrift

\* The pool may open some connections beforehand.
Init ==
    /\ parked \subseteq Connections /\ Cardinality(parked) <= MaxSize
    /\ lent = [c \in Callers |-> 0] /\ adrift = {} /\ ever = parked

\* A caller gets a parked connection or a new one.  Parked connections may be
\* closed at any time, so also in the same step.
Lend(c, k) ==
    /\ lent[c] = 0
    /\ k \in parked \/ (k \in Connections \ ever /\ Cardinality(Open) < MaxSize)
    /\ lent' = [lent EXCEPT ![c] = k]
    /\ parked' \in SUBSET (parked \ {k})
    /\ ever' = ever \union {k}
    /\ UNCHANGED adrift

\* A caller is done: the connection is parked, closed, or left to itself.
Return(c) ==
    /\ lent[c] # 0
    /\ lent' = [lent EXCEPT ![c] = 0]
    /\ \/ parked' \in SUBSET (parked \union {lent[c]}) /\ UNCHANGED adrift
       \/ adrift' = adrift \union {lent[c]} /\ UNCHANGED parked
    /\ UNCHANGED ever

Close ==
    /\ parked' \in SUBSET parked /\ adrift' \in SUBSET adrift
    /\ UNCHANGED <<lent, ever>>

Next ==
    \/ \E c \in Callers : Return(c) \/ \E k \in Connections : Lend(c, k)
    \/ Close

Spec == Init /\ [][Next]_<<parked, lent, adrift, ever>>
===================================================================================
