-------------------------------- MODULE AsyncPool --------------------------------
(***************************************************************************)
(* The asynchronous connection pool of the client library                  *)
(* (swanlake-client/src/async_pool.rs): a semaphore with max_size permits, *)
(* a stack of idle connections behind a mutex and an atomic count.         *)
(*                                                                         *)
(* A caller is a future.  It opens and uses connections on blocking tasks, *)
(* to which the connection is moved; if the future is dropped while it     *)
(* waits for such a task, the task goes on alone.                          *)
(***************************************************************************)
EXTENDS Integers, Sequences, SequencesExt

CONSTANTS
    Callers,         \* futures of the application
    MaxSize,         \* PoolConfig.max_size
    MinIdle,         \* PoolConfig.min_idle
    MaxConnections   \* bound: how many connections are ever opened

ASSUME SizeAssumption == MaxSize \in Nat \ {0} /\ MinIdle \in 0 .. MaxSize
ASSUME BoundAssumption == MaxConnections \in Nat /\ MinIdle <= MaxConnections
ASSUME CallersAssumption == IsFiniteSet(Callers)

None == 0
Connections == 1 .. MaxConnections

VARIABLES
    idle,       \* PoolState.idle, the connection used last at the end
    total,      \* AsyncPoolInner.total
    permits,    \* permits left in the semaphore
    queue,      \* futures that wait for a permit, in order
    pc,         \* where each caller is
    kind,       \* what it called
    attempt,    \* which attempt of a query this is
    conn,       \* its connection, in the handle or in its blocking task, or None
    had_error,  \* AsyncPooledConnection.had_error
    opened,     \* how many connections were opened so far
    broken,     \* connections that answer no more
    orphans,    \* connections in blocking tasks whose future was dropped
    strays,     \* connect tasks whose future was dropped
    lost        \* history: slots whose owner was dropped without giving them back

pool == <<idle, total>>
semaphore == <<permits, queue>>
caller == <<pc, kind, attempt, conn, had_error>>
driver == <<opened, broken>>
tasks == <<orphans, strays, lost>>
vars == <<pool, semaphore, caller, driver, tasks>>

PcStates == {"out", "permit", "slot", "connect", "use", "sql", "health", "failed",
             "return", "retry", "release", "requeue"}
\* A query is tried twice; an update, or a query without retry, once; a session
\* handle runs any number of operations.
Kinds == {"query", "update", "session"}

Holders == {c \in Callers : conn[c] # None}
Connecting == {c \in Callers : pc[c] = "connect"}
\* Callers whose blocking task has panicked and taken the connection with it,
\* before the count says so.
Failing == {c \in Callers : pc[c] = "failed"}
Permitted == {c \in Callers : pc[c] \notin {"out", "permit", "failed"}}

\* AsyncPoolInner::new opens min_idle connections before the pool is shared.
Init ==
    /\ idle = [i \in 1 .. MinIdle |-> i] /\ total = MinIdle
    /\ permits = MaxSize /\ queue = <<>>
    /\ pc = [c \in Callers |-> "out"]
    /\ kind = [c \in Callers |-> "query"]
    /\ attempt = [c \in Callers |-> 1]
    /\ conn = [c \in Callers |-> None]
    /\ had_error = [c \in Callers |-> FALSE]
    /\ opened = MinIdle /\ broken = {}
    /\ orphans = {} /\ strays = 0 /\ lost = 0

Goto(c, where) == pc' = [pc EXCEPT ![c] = where]

\* The call returns, or its future is dropped.
Forget(c) ==
    /\ kind' = [kind EXCEPT ![c] = "query"]
    /\ attempt' = [attempt EXCEPT ![c] = 1]
    /\ had_error' = [had_error EXCEPT ![c] = FALSE]
Leave(c) == Goto(c, "out") /\ Forget(c)

--------------------------------------------------------------------------------
(* acquire_connection. *)

\* query, update, acquire_session.
call(c) ==
    /\ pc[c] = "out"
    /\ \E k \in Kinds : kind' = [kind EXCEPT ![c] = k]
    /\ Goto(c, "permit")
    /\ queue' = Append(queue, c)
    /\ UNCHANGED <<pool, permits, attempt, conn, had_error, driver, tasks>>

\* The semaphore is fair.
acquire_owned(c) ==
    /\ pc[c] = "permit" /\ queue # <<>> /\ Head(queue) = c /\ permits > 0
    /\ permits' = permits - 1
    /\ queue' = Tail(queue)
    /\ Goto(c, "slot")
    /\ UNCHANGED <<pool, kind, attempt, conn, had_error, driver, tasks>>

\* The acquire timeout covers this wait only.  Dropping the future does the same.
PermitTimesOut(c) ==
    /\ pc[c] = "permit"
    /\ \E i \in DOMAIN queue : queue[i] = c /\ queue' = RemoveAt(queue, i)
    /\ Leave(c)
    /\ UNCHANGED <<pool, permits, conn, driver, tasks>>

\* What evict_idle may leave: the expired entries are the oldest k.
Kept(k) == SubSeq(idle, k + 1, Len(idle))

\* Mutant of Popped: the connection stays in the stack.
Peeked(stack) == stack
Popped(stack) == Front(stack)

HasRoom(count) == count < MaxSize

\* With a permit, under the mutex: an idle connection, a slot for a new one, or
\* "connection pool exhausted".
TakeSlot(c) ==
    /\ pc[c] = "slot"
    /\ \E k \in 0 .. Len(idle) :
        \/ /\ Kept(k) # <<>>
           /\ idle' = Popped(Kept(k)) /\ total' = total - k
           /\ conn' = [conn EXCEPT ![c] = Last(Kept(k))]
           /\ Goto(c, "use") /\ UNCHANGED <<permits, kind, attempt, had_error>>
        \/ /\ Kept(k) = <<>> /\ HasRoom(total - k)
           /\ idle' = <<>> /\ total' = total - k + 1
           /\ Goto(c, "connect") /\ UNCHANGED <<permits, kind, attempt, conn, had_error>>
        \/ /\ Kept(k) = <<>> /\ ~ HasRoom(total - k)
           /\ idle' = <<>> /\ total' = total - k
           /\ permits' = permits + 1
           /\ Leave(c) /\ UNCHANGED conn
    /\ UNCHANGED <<queue, driver, tasks>>

\* Mutant of GiveUpSlot: a failed connection keeps its slot.
KeepSlot(count) == count
GiveUpSlot(count) == count - 1

\* The blocking task that opens a connection ends.
Connect(c) ==
    /\ pc[c] = "connect"
    /\ \/ /\ opened < MaxConnections
          /\ opened' = opened + 1
          /\ conn' = [conn EXCEPT ![c] = opened + 1]
          /\ Goto(c, "use")
          /\ UNCHANGED <<total, permits, kind, attempt, had_error>>
       \/ /\ total' = GiveUpSlot(total)
          /\ permits' = permits + 1
          /\ Leave(c)
          /\ UNCHANGED <<conn, opened>>
    /\ UNCHANGED <<idle, queue, broken, tasks>>

--------------------------------------------------------------------------------
(* with_connection. *)

Healthy(c) == conn[c] \notin broken

\* The connection moves to a blocking task; a helper does so at once, a session
\* handle for each of its operations.
Start(c) ==
    /\ pc[c] = "use"
    /\ Goto(c, "sql")
    /\ UNCHANGED <<pool, semaphore, kind, attempt, conn, had_error, driver, tasks>>

\* The task returns the connection with the result of its SQL.  A failed first
\* attempt of a query runs the health check on another task; another failure of
\* a helper marks the handle, and a failure of a session operation does not.
Finish(c) ==
    /\ pc[c] = "sql"
    /\ \/ /\ kind[c] = "session"
          /\ Goto(c, "use") /\ UNCHANGED had_error
       \/ /\ kind[c] # "session" /\ Healthy(c)
          /\ Goto(c, "return") /\ UNCHANGED had_error
       \/ /\ kind[c] = "query" /\ attempt[c] = 1
          /\ Goto(c, "health") /\ UNCHANGED had_error
       \/ /\ kind[c] = "update" \/ (kind[c] = "query" /\ attempt[c] = 2)
          /\ Goto(c, "return") /\ had_error' = [had_error EXCEPT ![c] = TRUE]
    /\ UNCHANGED <<pool, semaphore, kind, attempt, conn, driver, tasks>>

\* The health check: an unhealthy connection is dropped and the query tried
\* again; a healthy one is dropped too, and the error returned.
Healthcheck(c) ==
    /\ pc[c] = "health"
    /\ had_error' = [had_error EXCEPT ![c] = TRUE]
    /\ Goto(c, IF Healthy(c) THEN "return" ELSE "retry")
    /\ UNCHANGED <<pool, semaphore, kind, attempt, conn, driver, tasks>>

\* The blocking task panics and the connection is gone with it.  The permit is
\* given back first ...
Panic(c) ==
    /\ pc[c] \in {"sql", "health"}
    /\ permits' = permits + 1
    /\ conn' = [conn EXCEPT ![c] = None]
    /\ Goto(c, "failed")
    /\ UNCHANGED <<pool, queue, kind, attempt, had_error, driver, tasks>>

\* ... and the slot afterwards.  A query in its first attempt goes on: its health
\* check finds no connection.
JoinError(c) ==
    /\ pc[c] = "failed"
    /\ total' = total - 1
    /\ \/ /\ kind[c] = "query" /\ attempt[c] = 1
          /\ attempt' = [attempt EXCEPT ![c] = 2]
          /\ Goto(c, "permit") /\ queue' = Append(queue, c)
          /\ UNCHANGED <<kind, had_error>>
       \/ /\ kind[c] # "query" \/ attempt[c] = 2
          /\ Leave(c) /\ UNCHANGED queue
    /\ UNCHANGED <<idle, permits, conn, driver, tasks>>

--------------------------------------------------------------------------------
(* The drop of a handle, and of a future. *)

\* The application drops its session handle between two operations.
DropHandle(c) ==
    /\ pc[c] = "use" /\ kind[c] = "session"
    /\ Goto(c, "return")
    /\ UNCHANGED <<pool, semaphore, kind, attempt, conn, had_error, driver, tasks>>

\* AsyncPooledConnection::drop: a marked connection is dropped, another returned.
Return(c) ==
    /\ pc[c] \in {"return", "retry"}
    /\ conn' = [conn EXCEPT ![c] = None]
    /\ Goto(c, IF pc[c] = "return" THEN "release" ELSE "requeue")
    /\ \/ /\ had_error[c]
          /\ total' = total - 1
          /\ UNCHANGED idle
       \/ /\ ~ had_error[c]
          /\ \E k \in 0 .. Len(idle) :
                /\ idle' = Append(Kept(k), conn[c])
                /\ total' = total - k
    /\ UNCHANGED <<semaphore, kind, attempt, had_error, driver, tasks>>

\* Mutant of Released: the permit is forgotten.
Forgotten(count) == count
Released(count) == count + 1

\* Then the fields of the handle are dropped, the permit among them; a query that
\* retries queues again.
ReleasePermit(c) ==
    /\ pc[c] \in {"release", "requeue"}
    /\ permits' = Released(permits)
    /\ \/ /\ pc[c] = "release"
          /\ Leave(c) /\ UNCHANGED queue
       \/ /\ pc[c] = "requeue"
          /\ Goto(c, "permit") /\ queue' = Append(queue, c)
          /\ attempt' = [attempt EXCEPT ![c] = 2]
          /\ had_error' = [had_error EXCEPT ![c] = FALSE]
          /\ UNCHANGED kind
    /\ UNCHANGED <<pool, conn, driver, tasks>>

\* The future is dropped while a blocking task opens its connection or has it:
\* the handle, if there is one, is empty, and nobody takes the slot back.
DropFuture(c) ==
    /\ lost' = lost + 1
    /\ \/ /\ pc[c] = "connect"
          /\ strays' = strays + 1
          /\ UNCHANGED <<conn, orphans>>
       \/ /\ pc[c] \in {"sql", "health"}
          /\ orphans' = orphans \union {conn[c]}
          /\ conn' = [conn EXCEPT ![c] = None]
          /\ UNCHANGED strays
    /\ Goto(c, "release")
    /\ UNCHANGED <<pool, semaphore, kind, attempt, had_error, driver>>

\* The task left alone ends and closes its connection.
OrphanEnds(k) ==
    /\ k \in orphans
    /\ orphans' = orphans \ {k}
    /\ UNCHANGED <<pool, semaphore, caller, driver, strays, lost>>

StrayEnds ==
    /\ strays > 0
    /\ strays' = strays - 1
    /\ UNCHANGED <<pool, semaphore, caller, driver, orphans, lost>>

\* A connection breaks: the server restarted, or the network is gone.
Break(k) ==
    /\ k <= opened /\ k \notin broken
    /\ broken' = broken \union {k}
    /\ UNCHANGED <<pool, semaphore, caller, opened, tasks>>

\* The steps of a future that its runtime polls.
Continue(c) ==
    \/ acquire_owned(c) \/ TakeSlot(c) \/ Connect(c) \/ Start(c) \/ Finish(c)
    \/ Healthcheck(c) \/ JoinError(c) \/ Return(c) \/ ReleasePermit(c)

Next ==
    \/ \E c \in Callers :
          \/ call(c) \/ PermitTimesOut(c) \/ Continue(c) \/ Panic(c)
          \/ DropHandle(c) \/ DropFuture(c)
    \/ \E k \in Connections : OrphanEnds(k) \/ Break(k)
    \/ StrayEnds

Spec == Init /\ [][Next]_vars

\* Futures are polled and blocking tasks end; an application lets go of every
\* session handle at last.  Nothing is assumed of the acquire timeout.
Fairness == \A c \in Callers : WF_vars(Continue(c)) /\ SF_vars(DropHandle(c))
FairSpec == Spec /\ Fairness

--------------------------------------------------------------------------------
(* Properties. *)

\* Type invariant; neither total nor the permits exceed max_size.
TypeOK ==
    /\ idle \in Seq(Connections) /\ total \in 0 .. MaxSize
    /\ permits \in 0 .. MaxSize /\ queue \in Seq(Callers)
    /\ pc \in [Callers -> PcStates]
    /\ kind \in [Callers -> Kinds]
    /\ attempt \in [Callers -> {1, 2}]
    /\ conn \in [Callers -> Connections \union {None}]
    /\ had_error \in [Callers -> BOOLEAN]
    /\ opened \in 0 .. MaxConnections
    /\ broken \subseteq Connections /\ orphans \subseteq Connections
    /\ strays \in Nat /\ lost \in Nat

\* Every unit of the count is an idle connection, one in use, one being opened,
\* one whose task has just panicked, or was lost with a dropped future: nothing
\* else leaks a slot.
SlotsAccounted ==
    total = Len(idle) + Cardinality(Holders) + Cardinality(Connecting)
                + Cardinality(Failing) + lost

\* Permits are conserved, whichever await a future is dropped at.
PermitsConserved == permits + Cardinality(Permitted) = MaxSize

\* A permit stands for a connection: a caller that got one is not refused with
\* "connection pool exhausted", unless a slot was lost with a dropped future or a
\* panicked task has given back its permit and not yet its slot.
PermitMeansSlot ==
    [][\A c \in Callers : pc[c] = "slot" /\ pc'[c] = "out" => lost > 0 \/ Failing # {}]_vars

\* Every future in the queue leaves it, even if the acquire timeout never fires:
\* first come, first served, and no drop, panic or retry keeps a permit.
Served == \A c \in Callers : pc[c] = "permit" ~> pc[c] # "permit"

\* What the pool promises, with the semaphore, the count and the tasks hidden.
Contract == INSTANCE ConnectionPool
                WITH parked <- Range(idle), lent <- conn, adrift <- orphans,
                     ever <- 1 .. opened
PoolSpec == Contract!Spec
================================================================================
