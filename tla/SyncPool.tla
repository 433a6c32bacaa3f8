-------------------------------- MODULE SyncPool --------------------------------
(***************************************************************************)
(* The synchronous connection pool of the client library                   *)
(* (swanlake-client/src/pool.rs, with pool_shared.rs and internal.rs): a   *)
(* stack of idle connections behind a mutex, a condition variable for the  *)
(* threads that find no connection, and an atomic count of connections     *)
(* that drop_connection changes outside the mutex.                         *)
(*                                                                         *)
(* A critical section is one step.  The driver's connections are external: *)
(* one may break at any time, and remembers whether autocommit is off.     *)
(***************************************************************************)
EXTENDS Integers, Sequences, SequencesExt

CONSTANTS
    Callers,         \* threads of the application
    MaxSize,         \* PoolConfig.max_size
    MinIdle,         \* PoolConfig.min_idle
    MaxConnections   \* bound: how many connections are ever opened

ASSUME SizeAssumption == MaxSize \in Nat \ {0} /\ MinIdle \in 0 .. MaxSize
ASSUME BoundAssumption == MaxConnections \in Nat /\ MinIdle <= MaxConnections
ASSUME CallersAssumption == IsFiniteSet(Callers)

None == 0
Connections == 1 .. MaxConnections

VARIABLES
    idle,       \* PoolState.idle, the connection used last at the end
    total,      \* PoolInner.total
    pc,         \* where each caller is
    kind,       \* what it called
    attempt,    \* which attempt of a query this is
    conn,       \* the connection it has acquired, or None
    had_error,  \* PooledConnection.had_error
    opened,     \* how many connections were opened so far
    broken,     \* connections that answer no more
    in_txn      \* connections whose autocommit is off

pool == <<idle, total>>
caller == <<pc, kind, attempt, conn, had_error>>
driver == <<opened, broken, in_txn>>
vars == <<pool, caller, driver>>

PcStates == {"out", "acquire", "waiting", "woken", "connect", "use", "check", "return"}
\* A query is tried twice; an update, or a query without retry, once; a session
\* handle runs any number of operations.
Kinds == {"query", "update", "session"}

Waiting == {c \in Callers : pc[c] = "waiting"}
Woken == {c \in Callers : pc[c] = "woken"}
Connecting == {c \in Callers : pc[c] = "connect"}
Holders == {c \in Callers : conn[c] # None}

\* PoolInner::new opens min_idle connections before the pool is shared.
Init ==
    /\ idle = [i \in 1 .. MinIdle |-> i] /\ total = MinIdle
    /\ pc = [c \in Callers |-> "out"]
    /\ kind = [c \in Callers |-> "query"]
    /\ attempt = [c \in Callers |-> 1]
    /\ conn = [c \in Callers |-> None]
    /\ had_error = [c \in Callers |-> FALSE]
    /\ opened = MinIdle /\ broken = {} /\ in_txn = {}

Goto(c, where) == pc' = [pc EXCEPT ![c] = where]

\* The call returns; what its frame knew is forgotten.
Forget(c) ==
    /\ kind' = [kind EXCEPT ![c] = "query"]
    /\ attempt' = [attempt EXCEPT ![c] = 1]
    /\ had_error' = [had_error EXCEPT ![c] = FALSE]
Leave(c) == Goto(c, "out") /\ Forget(c)

--------------------------------------------------------------------------------
(* acquire_connection. *)

\* query, update, acquire_session.
call(c) ==
    /\ pc[c] = "out"
    /\ \E k \in Kinds : kind' = [kind EXCEPT ![c] = k]
    /\ Goto(c, "acquire")
    /\ UNCHANGED <<pool, attempt, conn, had_error, driver>>

\* What evict_idle may leave: entries are pushed in the order of last_used, so
\* the expired ones are the oldest k.  A pool without idle_ttl_ms has k = 0.
Kept(k) == SubSeq(idle, k + 1, Len(idle))

HasRoom(count) == count < MaxSize

\* Mutant of Popped: the connection stays in the stack.
Peeked(stack) == stack
Popped(stack) == Front(stack)

\* One turn of the loop under the mutex: evict, then pop an idle connection, or
\* take a slot for a new one, or give up at the deadline, or wait.
Acquire(c) ==
    /\ pc[c] \in {"acquire", "woken"}
    /\ \E k \in 0 .. Len(idle) :
        \/ /\ Kept(k) # <<>>
           /\ idle' = Popped(Kept(k)) /\ total' = total - k
           /\ conn' = [conn EXCEPT ![c] = Last(Kept(k))]
           /\ Goto(c, "use") /\ UNCHANGED <<kind, attempt, had_error>>
        \/ /\ Kept(k) = <<>> /\ HasRoom(total - k)
           /\ idle' = <<>> /\ total' = total - k + 1
           /\ Goto(c, "connect") /\ UNCHANGED <<kind, attempt, conn, had_error>>
        \/ /\ Kept(k) = <<>> /\ ~ HasRoom(total - k)
           /\ idle' = <<>> /\ total' = total - k
           /\ \/ Goto(c, "waiting") /\ UNCHANGED <<kind, attempt, had_error>>
              \/ Leave(c)
           /\ UNCHANGED conn
    /\ UNCHANGED driver

\* The wait ends by its timeout, without another look at the pool, ...
WaitTimesOut(c) ==
    /\ pc[c] = "waiting"
    /\ Leave(c)
    /\ UNCHANGED <<pool, conn, driver>>

\* ... or by a wake-up nobody sent, which a condition variable allows.
SpuriousWakeup(c) ==
    /\ pc[c] = "waiting"
    /\ Goto(c, "acquire")
    /\ UNCHANGED <<pool, kind, attempt, conn, had_error, driver>>

\* Mutant of GiveUpSlot: a failed connection keeps its slot.
KeepSlot(count) == count
GiveUpSlot(count) == count - 1

\* The new connection, opened outside the mutex.
Connect(c) ==
    /\ pc[c] = "connect"
    /\ \/ /\ opened < MaxConnections
          /\ opened' = opened + 1
          /\ conn' = [conn EXCEPT ![c] = opened + 1]
          /\ Goto(c, "use")
          /\ UNCHANGED <<total, kind, attempt, had_error>>
       \/ /\ total' = GiveUpSlot(total)
          /\ Leave(c)
          /\ UNCHANGED <<conn, opened>>
    /\ UNCHANGED <<idle, broken, in_txn>>

--------------------------------------------------------------------------------
(* The use of a connection. *)

Healthy(c) == conn[c] \notin broken

\* execute_query or execute_update: a failed first attempt of a query asks for a
\* health check, any other failure marks the handle.
Execute(c) ==
    /\ pc[c] = "use" /\ kind[c] # "session"
    /\ \/ /\ Healthy(c)
          /\ Goto(c, "return")
          /\ UNCHANGED had_error
       \/ /\ kind[c] = "query" /\ attempt[c] = 1
          /\ Goto(c, "check")
          /\ UNCHANGED had_error
       \/ /\ kind[c] # "query" \/ attempt[c] = 2
          /\ Goto(c, "return")
          /\ had_error' = [had_error EXCEPT ![c] = TRUE]
    /\ UNCHANGED <<pool, kind, attempt, conn, driver>>

\* The health check between the attempts: an unhealthy connection is dropped and
\* another one acquired; with a healthy one the query has failed by itself.
Retry(c) ==
    /\ pc[c] = "check"
    /\ \/ /\ ~ Healthy(c)
          /\ total' = total - 1
          /\ conn' = [conn EXCEPT ![c] = None]
          /\ attempt' = [attempt EXCEPT ![c] = 2]
          /\ Goto(c, "acquire")
          /\ UNCHANGED had_error
       \/ /\ Healthy(c)
          /\ had_error' = [had_error EXCEPT ![c] = TRUE]
          /\ Goto(c, "return")
          /\ UNCHANGED <<total, conn, attempt>>
    /\ UNCHANGED <<idle, kind, driver>>

\* begin_transaction, commit and rollback of a session handle; a failed one
\* leaves the autocommit option as it was.  Its errors are not marked.
begin_transaction(c) ==
    /\ pc[c] = "use" /\ kind[c] = "session" /\ Healthy(c)
    /\ in_txn' = in_txn \union {conn[c]}
    /\ UNCHANGED <<pool, caller, opened, broken>>

end_transaction(c) ==
    /\ pc[c] = "use" /\ kind[c] = "session" /\ Healthy(c)
    /\ in_txn' = in_txn \ {conn[c]}
    /\ UNCHANGED <<pool, caller, opened, broken>>

\* The application drops its session handle.
DropHandle(c) ==
    /\ pc[c] = "use" /\ kind[c] = "session"
    /\ Goto(c, "return")
    /\ UNCHANGED <<pool, kind, attempt, conn, had_error, driver>>

\* A connection breaks: the server restarted, or the network is gone.
Break(k) ==
    /\ k \in Connections /\ k <= opened /\ k \notin broken
    /\ broken' = broken \union {k}
    /\ UNCHANGED <<pool, caller, opened, in_txn>>

--------------------------------------------------------------------------------
(* release_connection. *)

\* Mutant of notify_one: nobody is woken.
NotifyNobody(c) == Goto(c, "out")
\* One of the threads that sleep on the condition variable, if there is one, is
\* woken; it still has to get the mutex.
notify_one(c) ==
    \/ /\ Waiting # {}
       /\ \E w \in Waiting : pc' = [pc EXCEPT ![c] = "out", ![w] = "woken"]
    \/ Waiting = {} /\ Goto(c, "out")

\* The drop of the handle: the connection is dropped without a wake-up if an
\* error was marked and the health check fails; otherwise it becomes idle.
Release(c) ==
    /\ pc[c] = "return"
    /\ conn' = [conn EXCEPT ![c] = None]
    /\ \/ /\ had_error[c] /\ ~ Healthy(c)
          /\ total' = total - 1
          /\ Goto(c, "out")
          /\ UNCHANGED idle
       \/ /\ ~ had_error[c] \/ Healthy(c)
          /\ \E k \in 0 .. Len(idle) :
                /\ idle' = Append(Kept(k), conn[c])
                /\ total' = total - k
          /\ notify_one(c)
    /\ Forget(c)
    /\ UNCHANGED driver

\* The steps a thread takes by itself.
Continue(c) == Acquire(c) \/ Connect(c) \/ Execute(c) \/ Retry(c) \/ Release(c)

Next ==
    \/ \E c \in Callers :
          \/ call(c) \/ WaitTimesOut(c) \/ SpuriousWakeup(c) \/ Continue(c)
          \/ begin_transaction(c) \/ end_transaction(c) \/ DropHandle(c)
    \/ \E k \in Connections : Break(k)

Spec == Init /\ [][Next]_vars

--------------------------------------------------------------------------------
(* Properties. *)

\* Type invariant; total never exceeds max_size.
TypeOK ==
    /\ idle \in Seq(Connections) /\ total \in 0 .. MaxSize
    /\ pc \in [Callers -> PcStates]
    /\ kind \in [Callers -> Kinds]
    /\ attempt \in [Callers -> {1, 2}]
    /\ conn \in [Callers -> Connections \union {None}]
    /\ had_error \in [Callers -> BOOLEAN]
    /\ opened \in 0 .. MaxConnections
    /\ broken \subseteq Connections /\ in_txn \subseteq Connections

\* The count is exact although it changes in five places, partly outside the
\* mutex: every unit of it is an idle connection, one in use, or one being
\* opened.  No failure, retry or eviction leaks a slot.
SlotsAccounted ==
    total = Len(idle) + Cardinality(Holders) + Cardinality(Connecting)

\* A thread does not sleep on while connections lie idle: for each of them
\* another thread has been woken and is on its way to the mutex.
NoSleepWhileIdle == Waiting # {} => Len(idle) <= Cardinality(Woken)

\* What the pool promises, with the mutex, the count and the wake-ups hidden.
Contract == INSTANCE ConnectionPool
                WITH parked <- Range(idle), lent <- conn, adrift <- {}, ever <- 1 .. opened
PoolSpec == Contract!Spec
================================================================================
