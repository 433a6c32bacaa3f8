---------------------------- MODULE Checkpoints ----------------------------
(***************************************************************************)
(* The checkpoint tasks of several server instances (maintenance/mod.rs),  *)
(* coordinated through PostgreSQL: one table with the time of the last     *)
(* checkpoint of each database, and one advisory lock per database that    *)
(* lives as long as the PostgreSQL connection that took it                 *)
(* (maintenance/lock.rs, maintenance/postgres.rs).                         *)
(*                                                                         *)
(* An instance may crash, lose its PostgreSQL connection without noticing  *)
(* before it uses it again, panic in the middle of a checkpoint, or find   *)
(* its DuckDB connection broken.  Instances read their own clock; NOW() is *)
(* PostgreSQL's.                                                           *)
(***************************************************************************)
EXTENDS Integers, Sequences

CONSTANTS
    Instances,
    Databases,      \* CheckpointConfig::databases, in order: a sequence
    Interval,       \* CheckpointConfig::interval
    Skew,           \* instance -> its clock minus PostgreSQL's
    MaxSkew,        \*   and the most that any clock is ahead or behind
    MaxFaults,      \* bound: crashes, lost connections, panics, breakages
    Horizon,        \* bound: the last moment of the clock
    Nobody, Never

ASSUME TimeAssumption ==
    /\ Interval \in Nat \ {0} /\ MaxSkew \in Nat /\ MaxFaults \in Nat /\ Horizon \in Nat
    /\ Skew \in [Instances -> -MaxSkew..MaxSkew]
ASSUME NobodyAssumption == Nobody \notin Instances /\ Never \notin Int
ASSUME DatabasesAssumption == Databases \in Seq(STRING) /\ Databases # <<>>

VARIABLES
    now,            \* PostgreSQL's clock
    record,         \* ducklake_checkpoints: database -> time or Never
    lock,           \* the advisory locks: database -> instance or Nobody
    pc,             \* instance -> step of its task
    todo,           \* instance -> databases left of this round
    lost,           \* instance -> its lock's connection is gone, unnoticed
    conn,           \* checkpoint_conn: "none", "good" or "bad"
    poisoned,       \* the mutex around it is poisoned
    faults,         \* faults so far
    ended,          \* history: end of the database's last checkpoint
    missed          \* history: that end was lost on the way to the table

ckVars == <<now, record, lock, pc, todo, lost, conn, poisoned, faults, ended, missed>>
clocks == <<now, faults>>

DbNames == {Databases[k] : k \in 1..Len(Databases)}
Steps == {"down", "idle", "connect", "lock", "read", "run", "running", "record"}
\* The steps at which process_database owns a PostgresLock.
Owning == {"read", "run", "running", "record"}

CkInit ==
    /\ now = 0 /\ faults = 0
    /\ record = [d \in DbNames |-> Never]
    /\ lock = [d \in DbNames |-> Nobody]
    /\ pc = [i \in Instances |-> "idle"]
    /\ todo = [i \in Instances |-> <<>>]
    /\ lost = [i \in Instances |-> FALSE]
    /\ conn = [i \in Instances |-> "none"]
    /\ poisoned = [i \in Instances |-> FALSE]
    /\ ended = [d \in DbNames |-> Never]
    /\ missed = [d \in DbNames |-> FALSE]

Db(i) == Head(todo[i])
Continue(i, step) == pc' = [pc EXCEPT ![i] = step]

\* Dropping the PostgresLock of i closes its connection.
Released(i) == [d \in DbNames |-> IF lock[d] = i THEN Nobody ELSE lock[d]]

\* process_database returns, with an error or not: the lock is dropped, and the
\* loop goes on with the next database.
Return(i) ==
    /\ lock' = Released(i)
    /\ lost' = [lost EXCEPT ![i] = FALSE]
    /\ todo' = [todo EXCEPT ![i] = Tail(@)]
    /\ Continue(i, IF Len(todo[i]) = 1 THEN "idle" ELSE "connect")

\* run_loop: a tick.  Ticks that were missed during a long round fire at once,
\* so that a tick may come at any time.
Tick(i) ==
    /\ pc[i] = "idle"
    /\ todo' = [todo EXCEPT ![i] = Databases]
    /\ Continue(i, "connect")
    /\ UNCHANGED <<clocks, record, lock, lost, conn, poisoned, ended, missed>>

\* connect_client succeeds or fails, with TLS or without.
connect_client(i) ==
    /\ pc[i] = "connect"
    /\ \/ Continue(i, "lock") /\ UNCHANGED <<lock, lost, todo>>
       \/ Return(i)
    /\ UNCHANGED <<clocks, record, conn, poisoned, ended, missed>>

\* (mutant: the lock is taken on a connection that the instances share)
AcquireAnyway(i) ==
    /\ pc[i] = "lock"
    /\ lock' = [lock EXCEPT ![Db(i)] = i]
    /\ Continue(i, "read")
    /\ UNCHANGED <<clocks, record, todo, lost, conn, poisoned, ended, missed>>

try_acquire(i) ==
    /\ pc[i] = "lock"
    /\ IF lock[Db(i)] = Nobody
       THEN /\ lock' = [lock EXCEPT ![Db(i)] = i]
            /\ Continue(i, "read")
            /\ UNCHANGED <<lost, todo>>
       ELSE Return(i)
    /\ UNCHANGED <<clocks, record, conn, poisoned, ended, missed>>

\* Elapsed time by the clock of i; a negative duration counts as none.
Elapsed(i, last) == IF now + Skew[i] < last THEN 0 ELSE now + Skew[i] - last

\* last_checkpoint_at, and what it decides: the schedule starts with the first
\* record, a checkpoint is due when the interval has elapsed.
last_checkpoint_at(i) ==
    LET last == record[Db(i)] IN
    /\ pc[i] = "read"
    /\ IF lost[i] THEN Return(i)
       ELSE IF last = Never THEN Continue(i, "record") /\ UNCHANGED <<lock, lost, todo>>
       ELSE IF Elapsed(i, last) < Interval THEN Return(i)
       ELSE Continue(i, "run") /\ UNCHANGED <<lock, lost, todo>>
    /\ UNCHANGED <<clocks, record, conn, poisoned, ended, missed>>

\* run_checkpoint begins: the connection is made when there is none.  (That it
\* cannot be made has the effects of checkpoint_fails.)
run_checkpoint(i) ==
    /\ pc[i] = "run"
    /\ IF poisoned[i] THEN Return(i) /\ UNCHANGED conn
       ELSE /\ conn' = [conn EXCEPT ![i] = IF @ = "none" THEN "good" ELSE @]
            /\ Continue(i, "running")
            /\ UNCHANGED <<lock, lost, todo>>
    /\ UNCHANGED <<clocks, record, poisoned, ended, missed>>

\* (mutant: the lock is dropped before the record is written)
SucceedUnlocked(i) ==
    /\ pc[i] = "running" /\ conn[i] = "good"
    /\ ended' = [ended EXCEPT ![Db(i)] = now]
    /\ missed' = [missed EXCEPT ![Db(i)] = lost[i]]
    /\ lock' = Released(i)
    /\ Continue(i, "record")
    /\ UNCHANGED <<clocks, record, todo, lost, conn, poisoned>>

\* "USE db; CHECKPOINT;" ends well ...
checkpoint_succeeds(i) ==
    /\ pc[i] = "running" /\ conn[i] = "good"
    /\ ended' = [ended EXCEPT ![Db(i)] = now]
    /\ missed' = [missed EXCEPT ![Db(i)] = lost[i]]
    /\ Continue(i, "record")
    /\ UNCHANGED <<clocks, record, lock, todo, lost, conn, poisoned>>

\* (mutant: a connection that failed is kept)
FailAndKeep(i) ==
    /\ pc[i] = "running"
    /\ Return(i)
    /\ UNCHANGED <<clocks, record, conn, poisoned, ended, missed>>

\* ... or fails: the connection is made anew at the next attempt.
checkpoint_fails(i) ==
    /\ pc[i] = "running"
    /\ conn' = [conn EXCEPT ![i] = "none"]
    /\ Return(i)
    /\ UNCHANGED <<clocks, record, poisoned, ended, missed>>

record_checkpoint(i) ==
    /\ pc[i] = "record"
    /\ record' = IF lost[i] THEN record ELSE [record EXCEPT ![Db(i)] = now]
    /\ Return(i)
    /\ UNCHANGED <<clocks, conn, poisoned, ended, missed>>

(***************************************************************************)
(* Faults and time.                                                        *)
(***************************************************************************)
Fault == faults < MaxFaults /\ faults' = faults + 1

\* A checkpoint of i has ended and is not in the table yet.
Forgets(i) == missed' = [d \in DbNames |-> missed[d] \/ (pc[i] = "record" /\ Db(i) = d
                                                          /\ ended[d] # Never)]

LoseConnection(i) ==
    /\ pc[i] \in Owning /\ ~lost[i] /\ Fault
    /\ lost' = [lost EXCEPT ![i] = TRUE]
    /\ lock' = Released(i)
    /\ Forgets(i)
    /\ UNCHANGED <<now, record, pc, todo, conn, poisoned, ended>>

Crash(i) ==
    /\ pc[i] # "down" /\ Fault
    /\ Continue(i, "down")
    /\ lock' = Released(i)
    /\ Forgets(i)
    /\ todo' = [todo EXCEPT ![i] = <<>>]
    /\ lost' = [lost EXCEPT ![i] = FALSE]
    /\ conn' = [conn EXCEPT ![i] = "none"]
    /\ poisoned' = [poisoned EXCEPT ![i] = FALSE]
    /\ UNCHANGED <<now, record, ended>>

\* spawn_from_config: the table is there already.
Restart(i) ==
    /\ pc[i] = "down"
    /\ Continue(i, "idle")
    /\ UNCHANGED <<clocks, record, lock, todo, lost, conn, poisoned, ended, missed>>

\* The blocking task panics while it holds the mutex of checkpoint_conn.
Panic(i) ==
    /\ pc[i] = "running" /\ Fault
    /\ poisoned' = [poisoned EXCEPT ![i] = TRUE]
    /\ Return(i)
    /\ UNCHANGED <<now, record, conn, ended, missed>>

\* The kept DuckDB connection stops working.
Break(i) ==
    /\ conn[i] = "good" /\ Fault
    /\ conn' = [conn EXCEPT ![i] = "bad"]
    /\ UNCHANGED <<now, record, lock, pc, todo, lost, poisoned, ended, missed>>

Advance ==
    /\ now < Horizon
    /\ now' = now + 1
    /\ UNCHANGED <<faults, record, lock, pc, todo, lost, conn, poisoned, ended, missed>>

Work(i) ==
    \/ Tick(i)
    \/ connect_client(i)
    \/ try_acquire(i)
    \/ last_checkpoint_at(i)
    \/ run_checkpoint(i)
    \/ checkpoint_succeeds(i)
    \/ checkpoint_fails(i)
    \/ record_checkpoint(i)
    \/ Restart(i)

CkNext ==
    \/ \E i \in Instances : Work(i) \/ LoseConnection(i) \/ Crash(i) \/ Panic(i) \/ Break(i)
    \/ Advance

CkSpec == CkInit /\ [][CkNext]_ckVars

\* Every task goes on; for each database PostgreSQL answers again and again, the
\* lock is free at some of the moments at which a task tries it, and a checkpoint
\* on a working connection does not fail for ever.
Advances(i, d) == /\ \/ connect_client(i) /\ pc'[i] = "lock"
                     \/ try_acquire(i) /\ pc'[i] = "read"
                     \/ checkpoint_succeeds(i)
                  /\ Db(i) = d
CkFairness ==
    \A i \in Instances :
        /\ WF_ckVars(Work(i))
        /\ \A d \in DbNames :
             /\ SF_ckVars(Advances(i, d) /\ pc[i] = "connect")
             /\ SF_ckVars(Advances(i, d) /\ pc[i] = "lock")
             /\ SF_ckVars(Advances(i, d) /\ pc[i] = "running")

CkFairSpec == CkSpec /\ CkFairness

(***************************************************************************)
(* Properties.                                                             *)
(***************************************************************************)
\* Type invariant.
CkTypeOK ==
    /\ now \in 0..Horizon /\ faults \in 0..MaxFaults
    /\ record \in [DbNames -> 0..Horizon \cup {Never}]
    /\ ended \in [DbNames -> 0..Horizon \cup {Never}]
    /\ missed \in [DbNames -> BOOLEAN]
    /\ lock \in [DbNames -> Instances \cup {Nobody}]
    /\ pc \in [Instances -> Steps]
    /\ todo \in [Instances -> Seq(DbNames)]
    /\ lost \in [Instances -> BOOLEAN] /\ poisoned \in [Instances -> BOOLEAN]
    /\ conn \in [Instances -> {"none", "good", "bad"}]

\* Two instances checkpoint one database at once only when one of them has lost
\* the PostgreSQL connection, and with it the lock, without knowing
\* (maintenance/mod.rs:164: nothing watches the connection meanwhile).
OneCheckpointAtATime ==
    \A i, j \in Instances :
        (i # j /\ pc[i] = "running" /\ pc[j] = "running" /\ Db(i) = Db(j))
           => lost[i] \/ lost[j]

\* A checkpoint begins no earlier than the interval, less the difference of the
\* clocks, after the end of the database's last one, unless that end was lost on
\* its way to the table or the instance has lost its lock.
SpacedOut ==
    [][\A i \in Instances : (pc[i] = "run" /\ pc'[i] = "running") =>
          \/ ended[Db(i)] = Never \/ missed[Db(i)] \/ lost[i]
          \/ now - ended[Db(i)] >= Interval - MaxSkew]_ckVars

\* A database whose interval has elapsed by every clock is checkpointed, whatever
\* fails: the instances need not be up all the time, a round that fails is followed
\* by another, and a broken connection is replaced.  (An instance whose mutex is
\* poisoned goes on taking the lock in every round, and may keep the others from it.)
Due(d) == record[d] # Never /\ now - MaxSkew - record[d] >= Interval
CheckpointedAgain ==
    \A d \in DbNames : Due(d) ~> (~Due(d) \/ \E i \in Instances : poisoned[i])
=============================================================================
