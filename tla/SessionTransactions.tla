-------------------------- MODULE SessionTransactions --------------------------
(***************************************************************************)
(* The transaction layer of one session (swanlake-core/src/session/mod.rs) *)
(* and of its two Flight SQL handlers (service/handlers/transaction.rs).   *)
(*                                                                         *)
(* A session owns one DuckDB connection.  Several RPCs of the same session *)
(* may run at once, each on its own blocking thread: a Lane is such a      *)
(* thread.  The connection mutex serialises single engine calls; nothing   *)
(* serialises the steps around them (the check before a COMMIT, the        *)
(* bookkeeping after a BEGIN, the recovery between two attempts), and they *)
(* are the separate actions below.                                         *)
(*                                                                         *)
(* DuckDB itself is outside the repository.  Run(cmd, n, e) is the model   *)
(* of it, taken from the way session/mod.rs classifies its errors.         *)
(***************************************************************************)
EXTENDS Integers, Sequences, FiniteSets

CONSTANTS
    Lanes,          \* threads that serve requests of this session
    MaxCalls,       \* bound: how many requests the clients send in total
    Scripts,        \* SQL texts a statement may carry, as sequences of commands
    NoTxnErrors,    \* error classes of COMMIT or ROLLBACK outside a transaction
    AbortedCommit,  \* what DuckDB does with a COMMIT of an aborted transaction
    CommitMayFail   \* whether a COMMIT may fail and discard its transaction

NoLane == "no lane"

Commands == {"write", "begin", "commit", "rollback"}

\* How the code tells DuckDB's errors apart: "abort" is what
\* is_transaction_abort_error recognises, "autocommit" what the end-transaction
\* handler tolerates, "other" every remaining error.
ErrorClasses == {"abort", "autocommit", "other"}

ASSUME LanesAssumption == NoLane \notin Lanes
ASSUME CallsAssumption == MaxCalls \in Nat \ {0}
ASSUME ScriptsAssumption == Scripts \subseteq Seq(Commands) \ {<<>>}
ASSUME ErrorsAssumption == NoTxnErrors \subseteq {"abort", "autocommit"}
ASSUME CommitAssumption == /\ AbortedCommit \subseteq {"error", "rollback"}
                           /\ CommitMayFail \in BOOLEAN

Calls == 1 .. MaxCalls

VARIABLES
    transactions,          \* Session.transactions: the registered ids
    aborted_transactions,  \* Session.aborted_transactions
    transaction_id_gen,    \* Session.transaction_id_gen: the next id
    conn,                  \* who holds the connection mutex, or NoLane
    db,                    \* the connection: mode, number of its transaction, writes in it
    durable,               \* durable[n]: how often the write of call n was committed
    pc,                    \* where each lane is
    req,                   \* the request each lane serves
    at,                    \* the command of its script a lane runs next
    tries,                 \* which attempt of the operation this is (1 or 2)
    limbo,                 \* ids a recovery has cleared but not yet marked aborted
    serial,                \* the DuckDB transaction a lane's BEGIN opened
    reply,                 \* the answer to the lane's last request
    calls,                 \* how many requests were sent
    \* History: what the clients were told and what really happened.
    settled,               \* ids whose end a client has been told
    committed,             \* numbers of the DuckDB transactions that committed
    home                   \* home[id]: the DuckDB transaction opened for that id

session == <<transactions, aborted_transactions, transaction_id_gen>>
engine == <<conn, db, durable, committed>>
lane == <<pc, req, at, tries, limbo, serial, reply>>
vars == <<session, engine, lane, calls, settled, home>>

PcStates == {"idle", "check", "op", "recover", "clear", "mark", "register", "unregister"}
Kinds == {"statement", "begin", "commit", "rollback"}

NoWork == [n \in Calls |-> 0]
NoRequest == [n |-> 0, kind |-> "statement", script |-> <<"write">>, id |-> 0]

Issued == 1 .. (transaction_id_gen - 1)
Limbo == UNION {limbo[l] : l \in Lanes}
Quiescent == \A l \in Lanes : pc[l] = "idle"

\* TransactionIdGenerator::new.
FirstId == 1

Init ==
    /\ transactions = {} /\ aborted_transactions = {} /\ transaction_id_gen = FirstId
    /\ conn = NoLane
    /\ db = [mode |-> "auto", serial |-> 0, work |-> NoWork]
    /\ durable = NoWork
    /\ pc = [l \in Lanes |-> "idle"]
    /\ req = [l \in Lanes |-> NoRequest]
    /\ at = [l \in Lanes |-> 1]
    /\ tries = [l \in Lanes |-> 1]
    /\ limbo = [l \in Lanes |-> {}]
    /\ serial = [l \in Lanes |-> 0]
    /\ reply = [l \in Lanes |-> "none"]
    /\ calls = 0
    /\ settled = {} /\ committed = {}
    /\ home = [n \in Calls |-> 0]

--------------------------------------------------------------------------------
(* DuckDB, as session/mod.rs uses it. *)

\* The transaction is over and its writes are dropped.
Discard == db' = [db EXCEPT !.mode = "auto", !.work = NoWork]

\* The transaction is over and its writes are durable.
Commit ==
    /\ db' = [db EXCEPT !.mode = "auto", !.work = NoWork]
    /\ durable' = [n \in Calls |-> durable[n] + db.work[n]]
    /\ committed' = committed \union {db.serial}

\* One more write of call n.
AddWrite(count, n) == [count EXCEPT ![n] = @ + 1]

\* A statement that changes data: applied at once in autocommit mode, kept in
\* the open transaction otherwise; a failure may abort that transaction.
RunWrite(n, e) ==
    /\ \/ /\ db.mode = "auto" /\ e = "none"
          /\ durable' = AddWrite(durable, n)
          /\ UNCHANGED db
       \/ /\ db.mode = "auto" /\ e \in {"abort", "other"}
          /\ UNCHANGED <<db, durable>>
       \/ /\ db.mode = "open" /\ e = "none"
          /\ db' = [db EXCEPT !.work = AddWrite(@, n)]
          /\ UNCHANGED durable
       \/ /\ db.mode = "open" /\ e \in {"abort", "other"}
          /\ db' = [db EXCEPT !.mode = "aborted"]
          /\ UNCHANGED durable
       \/ /\ db.mode = "open" /\ e = "other"
          /\ UNCHANGED <<db, durable>>
       \/ /\ db.mode = "aborted" /\ e = "abort"
          /\ UNCHANGED <<db, durable>>
    /\ UNCHANGED committed

RunBegin(e) ==
    /\ \/ /\ db.mode = "auto" /\ e = "none"
          /\ db' = [mode |-> "open", serial |-> db.serial + 1, work |-> NoWork]
       \/ /\ db.mode # "auto" /\ e = "abort"
          /\ db' \in {db, [db EXCEPT !.mode = "aborted"]}
    /\ UNCHANGED <<durable, committed>>

RunCommit(e) ==
    \/ /\ db.mode = "auto" /\ e \in NoTxnErrors
       /\ UNCHANGED <<db, durable, committed>>
    \/ /\ db.mode = "open" /\ e = "none"
       /\ Commit
    \/ /\ db.mode = "open" /\ CommitMayFail /\ e = "abort"
       /\ Discard
       /\ UNCHANGED <<durable, committed>>
    \/ /\ db.mode = "aborted" /\ "error" \in AbortedCommit /\ e = "abort"
       /\ UNCHANGED <<db, durable, committed>>
    \/ /\ db.mode = "aborted" /\ "rollback" \in AbortedCommit /\ e = "none"
       /\ Discard
       /\ UNCHANGED <<durable, committed>>

RunRollback(e) ==
    /\ \/ /\ db.mode = "auto" /\ e \in NoTxnErrors
          /\ UNCHANGED db
       \/ /\ db.mode # "auto" /\ e = "none"
          /\ Discard
    /\ UNCHANGED <<durable, committed>>

Run(cmd, n, e) ==
    \/ cmd = "write" /\ RunWrite(n, e)
    \/ cmd = "begin" /\ RunBegin(e)
    \/ cmd = "commit" /\ RunCommit(e)
    \/ cmd = "rollback" /\ RunRollback(e)

--------------------------------------------------------------------------------
(* The steps of one lane. *)

\* A request leaves its thread: its locals are gone, its answer is out.
Answer(l, r) ==
    /\ pc' = [pc EXCEPT ![l] = "idle"]
    /\ reply' = [reply EXCEPT ![l] = r]
    /\ at' = [at EXCEPT ![l] = 1]
    /\ tries' = [tries EXCEPT ![l] = 1]
    /\ serial' = [serial EXCEPT ![l] = 0]

Goto(l, where) == pc' = [pc EXCEPT ![l] = where]

\* A request for this session reaches a blocking thread.  An id is one the
\* server handed out, to this client or to another client of the session.
Receive(l, kind, script, id) ==
    /\ pc[l] = "idle" /\ calls < MaxCalls
    /\ calls' = calls + 1
    /\ req' = [req EXCEPT ![l] = [n |-> calls + 1, kind |-> kind,
                                  script |-> script, id |-> id]]
    /\ reply' = [reply EXCEPT ![l] = "none"]
    /\ UNCHANGED <<session, engine, at, tries, limbo, serial, settled, home>>

execute_statement(l) ==
    /\ \E script \in Scripts : Receive(l, "statement", script, 0)
    /\ Goto(l, "op")

begin_transaction(l) ==
    /\ Receive(l, "begin", <<"begin">>, 0)
    /\ Goto(l, "op")

end_transaction(l) ==
    /\ \E kind \in {"commit", "rollback"}, id \in Issued :
           Receive(l, kind, <<kind>>, id)
    /\ Goto(l, "check")

\* The membership test of end_transaction.  The aborted set is consulted while
\* the lock on transactions is still held, and a hit is forgotten.
CheckRegistered(l) ==
    /\ pc[l] = "check"
    /\ UNCHANGED <<transactions, transaction_id_gen, engine, req, limbo, calls, home>>
    /\ \/ /\ req[l].id \in transactions
          /\ Goto(l, "op")
          /\ UNCHANGED <<aborted_transactions, settled, reply, at, tries, serial>>
       \/ /\ req[l].id \notin transactions
          /\ req[l].id \in aborted_transactions
          /\ aborted_transactions' = aborted_transactions \ {req[l].id}
          /\ settled' = settled \union {req[l].id}
          /\ Answer(l, "aborted")
       \/ /\ req[l].id \notin transactions
          /\ req[l].id \notin aborted_transactions
          /\ Answer(l, "ok")
          /\ UNCHANGED <<aborted_transactions, settled>>

\* What follows a successful operation.
Succeed(l) ==
    \/ /\ req[l].kind = "statement"
       /\ Answer(l, "ok")
    \/ /\ req[l].kind = "begin"
       /\ Goto(l, "register")
       /\ serial' = [serial EXCEPT ![l] = db'.serial]
       /\ UNCHANGED <<reply, at, tries>>
    \/ /\ req[l].kind \in {"commit", "rollback"}
       /\ Goto(l, "unregister")
       /\ UNCHANGED <<reply, at, tries, serial>>

\* Mutant of Fail: an operation is retried as long as it reports an abort.
FailForever(l, e) ==
    IF e = "abort"
    THEN /\ Goto(l, "recover")
         /\ UNCHANGED <<reply, at, tries, serial>>
    ELSE Answer(l, "error")

\* What follows a failed one: recovery if it is the first attempt and the error
\* says the transaction is aborted; otherwise the error is the answer, except
\* that the handler turns the autocommit message into a success.
Fail(l, e) ==
    IF e = "abort" /\ tries[l] = 1
    THEN /\ Goto(l, "recover")
         /\ UNCHANGED <<reply, at, tries, serial>>
    ELSE Answer(l, IF e = "autocommit" /\ req[l].kind # "statement" THEN "ok" ELSE "error")

\* The operation itself: one command of the script.  The lane takes the
\* connection for the first command and keeps it until the script ends or fails.
Execute(l) ==
    /\ pc[l] = "op"
    /\ conn \in {NoLane, l}
    /\ \E e \in ErrorClasses \union {"none"} :
          /\ Run(req[l].script[at[l]], req[l].n, e)
          /\ \/ /\ e = "none" /\ at[l] < Len(req[l].script)
                /\ conn' = l
                /\ at' = [at EXCEPT ![l] = @ + 1]
                /\ UNCHANGED <<pc, reply, tries, serial>>
             \/ /\ e = "none" /\ at[l] = Len(req[l].script)
                /\ conn' = NoLane
                /\ Succeed(l)
             \/ /\ e # "none"
                /\ conn' = NoLane
                /\ Fail(l, e)
    /\ UNCHANGED <<session, req, limbo, calls, settled, home>>

\* The second attempt starts from the first command.
Retry(l) ==
    /\ Goto(l, "op")
    /\ tries' = [tries EXCEPT ![l] = 2]
    /\ at' = [at EXCEPT ![l] = 1]

\* Mutant of AutoRollback: the ROLLBACK is forgotten.
NoAutoRollback(n, e) == e = "none" /\ UNCHANGED <<db, durable, committed>>
AutoRollback(n, e) == Run("rollback", n, e)

\* recover_from_transaction_abort: the ROLLBACK.  When it fails the ids are left
\* alone, and the operation is tried again all the same.
Recover(l) ==
    /\ pc[l] = "recover" /\ conn = NoLane
    /\ \E e \in ErrorClasses \union {"none"} :
          /\ AutoRollback(req[l].n, e)
          /\ \/ /\ e = "none"
                /\ Goto(l, "clear")
                /\ UNCHANGED <<at, tries>>
             \/ /\ e # "none"
                /\ Retry(l)
    /\ UNCHANGED <<session, conn, req, limbo, serial, reply, calls, settled, home>>

AfterClear == {}

\* Mutant of ToMark: the cleared ids are not remembered.
MarkNothing(l) == {}
ToMark(l) == limbo[l]

\* The same function: every registered id is taken out under the first lock ...
ClearIds(l) ==
    /\ pc[l] = "clear"
    /\ limbo' = [limbo EXCEPT ![l] = transactions]
    /\ transactions' = AfterClear
    /\ \/ transactions # {} /\ Goto(l, "mark") /\ UNCHANGED <<at, tries>>
       \/ transactions = {} /\ Retry(l)
    /\ UNCHANGED <<aborted_transactions, transaction_id_gen, engine, req, serial,
                   reply, calls, settled, home>>

\* ... and marked aborted under the second one.
MarkAborted(l) ==
    /\ pc[l] = "mark"
    /\ aborted_transactions' = aborted_transactions \union ToMark(l)
    /\ limbo' = [limbo EXCEPT ![l] = {}]
    /\ Retry(l)
    /\ UNCHANGED <<transactions, transaction_id_gen, engine, req, serial, reply,
                   calls, settled, home>>

\* The end of begin_transaction: a fresh id is registered.
Register(l) ==
    /\ pc[l] = "register"
    /\ transactions' = transactions \union {transaction_id_gen}
    /\ transaction_id_gen' = transaction_id_gen + 1
    /\ home' = [home EXCEPT ![transaction_id_gen] = serial[l]]
    /\ Answer(l, "ok")
    /\ UNCHANGED <<aborted_transactions, engine, req, limbo, calls, settled>>

\* The end of end_transaction: the id is forgotten.
Unregister(l) ==
    /\ pc[l] = "unregister"
    /\ transactions' = transactions \ {req[l].id}
    /\ aborted_transactions' = aborted_transactions \ {req[l].id}
    /\ settled' = settled \union {req[l].id}
    /\ Answer(l, "ok")
    /\ UNCHANGED <<transaction_id_gen, engine, req, limbo, calls, home>>

Continue(l) ==
    \/ CheckRegistered(l) \/ Execute(l) \/ Recover(l) \/ ClearIds(l)
    \/ MarkAborted(l) \/ Register(l) \/ Unregister(l)

Next ==
    \E l \in Lanes :
        \/ execute_statement(l) \/ begin_transaction(l) \/ end_transaction(l)
        \/ Continue(l)

Spec == Init /\ [][Next]_vars

\* A blocking thread that has been started keeps running; clients need not call.
Fairness == \A l \in Lanes : WF_vars(Continue(l))
FairSpec == Spec /\ Fairness

--------------------------------------------------------------------------------
(* Properties. *)

Request == [n : 0 .. MaxCalls, kind : Kinds,
            script : Scripts \union {<<c>> : c \in Commands}, id : Nat]

Connection == [mode : {"auto", "open", "aborted"}, serial : Nat, work : [Calls -> Nat]]

\* Type invariant: every variable holds a value of its kind.
TypeOK ==
    /\ transactions \subseteq Nat /\ aborted_transactions \subseteq Nat
    /\ transaction_id_gen \in Nat \ {0}
    /\ conn \in Lanes \union {NoLane}
    /\ db \in Connection
    /\ durable \in [Calls -> Nat]
    /\ pc \in [Lanes -> PcStates]
    /\ req \in [Lanes -> Request]
    /\ at \in [Lanes -> Nat \ {0}]
    /\ tries \in [Lanes -> {1, 2}]
    /\ limbo \in [Lanes -> SUBSET Nat]
    /\ serial \in [Lanes -> Nat]
    /\ reply \in [Lanes -> {"none", "ok", "aborted", "error"}]
    /\ calls \in 0 .. MaxCalls
    /\ settled \subseteq Nat /\ committed \subseteq Nat
    /\ home \in [Calls -> Nat]

\* No id disappears: one that begin_transaction handed out is registered, marked
\* aborted, in the hands of a recovery that is about to mark it, or a client has
\* been told how it ended.
IdsAccounted ==
    Issued \subseteq transactions \union aborted_transactions \union Limbo \union settled

\* An id has one status: recovery moves ids, it never copies them, so that the
\* same id cannot be both live and aborted, nor be marked by two recoveries.
IdsDisjoint ==
    /\ transactions \intersect aborted_transactions = {}
    /\ \A l \in Lanes :
          /\ limbo[l] \intersect (transactions \union aborted_transactions) = {}
          /\ \A m \in Lanes \ {l} : limbo[l] \intersect limbo[m] = {}

\* end_transaction treats an absent id as a no-op and answers Ok.  For an id
\* whose end nobody was told, that happens only in the window in which a
\* recovery holds the id between its two locks.
NoopOnlyDuringRecovery ==
    [][\A l \in Lanes :
          pc[l] = "check" /\ pc'[l] = "idle" /\ reply'[l] = "ok"
             => req[l].id \in settled \union Limbo]_vars

\* A COMMIT of an id whose end nobody was told yet, answered Ok, means that the
\* transaction begun for that id was committed.
CommitHonest ==
    [][\A l \in Lanes :
          (/\ pc[l] # "idle" /\ pc'[l] = "idle"
           /\ req[l].kind = "commit" /\ reply'[l] = "ok"
           /\ req[l].id \notin settled)
             => home[req[l].id] \in committed']_vars

\* A second attempt finds nothing left of the first: what the first attempt did
\* before it failed has been rolled back.  (Texts of one command and texts that
\* wrap their writes in BEGIN ... COMMIT have it; other batches do not.)
RetryStartsClean ==
    \A l \in Lanes :
        pc[l] = "op" /\ tries[l] = 2 /\ at[l] = 1 /\ conn # l =>
            durable[req[l].n] = 0 /\ db.work[req[l].n] = 0

\* Every request is answered: there is one retry and no more.
Answered == \A l \in Lanes : pc[l] # "idle" ~> pc[l] = "idle"
================================================================================
