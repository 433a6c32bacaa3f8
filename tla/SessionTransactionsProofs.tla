----------------------- MODULE SessionTransactionsProofs -----------------------
(* What holds of SessionTransactions for every set of threads, every bound,  *)
(* every set of SQL texts and every behaviour of DuckDB the constants allow. *)
EXTENDS SessionTransactions, TLAPS

\* Dropping or replacing the work of a transaction leaves a connection.
LEMMA ConnectionType ==
    ASSUME NEW d \in Connection, NEW mode \in {"auto", "open", "aborted"},
           NEW work \in [Calls -> Nat]
    PROVE  /\ [d EXCEPT !.mode = mode] \in Connection
           /\ [d EXCEPT !.work = work] \in Connection
           /\ [d EXCEPT !.mode = mode, !.work = work] \in Connection
           /\ d.work \in [Calls -> Nat] /\ d.serial \in Nat
BY DEF Connection

\* Counting a write, also of a call number outside Calls, keeps the counts natural.
LEMMA AddWriteType ==
    ASSUME NEW f \in [Calls -> Nat], NEW n
    PROVE  AddWrite(f, n) \in [Calls -> Nat]
<1>1. CASE n \in Calls
  BY <1>1 DEF AddWrite
<1>2. CASE n \notin Calls
  <2>1. \A x \in Calls : AddWrite(f, n)[x] = f[x]
    BY <1>2 DEF AddWrite
  <2> QED BY <2>1 DEF AddWrite
<1> QED BY <1>1, <1>2

\* DuckDB keeps its connection and the committed data well-typed, whatever the
\* command and its outcome.
LEMMA RunType ==
    ASSUME TypeOK, NEW cmd, NEW n, NEW e, Run(cmd, n, e)
    PROVE  /\ db' \in Connection
           /\ durable' \in [Calls -> Nat]
           /\ committed' \subseteq Nat
<1>1. NoWork \in [Calls -> Nat] /\ db \in Connection
  BY DEF TypeOK, NoWork
<1>2. /\ db.work \in [Calls -> Nat] /\ db.serial \in Nat
      /\ durable \in [Calls -> Nat] /\ committed \subseteq Nat
  BY <1>1, ConnectionType DEF TypeOK
<1>3. Discard => db' \in Connection
  <2>1. [db EXCEPT !.mode = "auto", !.work = NoWork] \in Connection
    BY <1>1, ConnectionType
  <2> QED BY <2>1 DEF Discard
<1>4. Commit => /\ db' \in Connection /\ durable' \in [Calls -> Nat]
                /\ committed' \subseteq Nat
  <2> SUFFICES ASSUME Commit PROVE /\ db' \in Connection /\ durable' \in [Calls -> Nat]
                                   /\ committed' \subseteq Nat
    OBVIOUS
  <2>1. db' \in Connection
    BY <1>1, ConnectionType DEF Commit
  <2>2. durable' \in [Calls -> Nat]
    BY <1>2 DEF Commit
  <2> QED BY <1>2, <2>1, <2>2 DEF Commit
<1>5. CASE cmd = "write" /\ RunWrite(n, e)
  <2>1. AddWrite(db.work, n) \in [Calls -> Nat] /\ AddWrite(durable, n) \in [Calls -> Nat]
    BY <1>2, AddWriteType
  <2>2. [db EXCEPT !.work = AddWrite(db.work, n)] \in Connection
    BY <1>1, <2>1, ConnectionType
  <2>3. [db EXCEPT !.mode = "aborted"] \in Connection
    BY <1>1, ConnectionType
  <2> QED BY <1>1, <1>2, <1>5, <2>1, <2>2, <2>3 DEF RunWrite
<1>6. CASE cmd = "begin" /\ RunBegin(e)
  <2>1. [mode |-> "open", serial |-> db.serial + 1, work |-> NoWork] \in Connection
    BY <1>1, <1>2 DEF Connection
  <2>2. [db EXCEPT !.mode = "aborted"] \in Connection
    BY <1>1, ConnectionType
  <2> QED BY <1>1, <1>2, <1>6, <2>1, <2>2 DEF RunBegin
<1>7. CASE cmd = "commit" /\ RunCommit(e)
  BY <1>1, <1>2, <1>3, <1>4, <1>7 DEF RunCommit
<1>8. CASE cmd = "rollback" /\ RunRollback(e)
  BY <1>1, <1>2, <1>3, <1>8 DEF RunRollback
<1> QED BY <1>5, <1>6, <1>7, <1>8 DEF Run

\* Answering a request leaves the thread's variables well-typed.
LEMMA AnswerType ==
    ASSUME TypeOK, NEW l \in Lanes, NEW r \in {"none", "ok", "aborted", "error"}, Answer(l, r)
    PROVE  /\ pc' \in [Lanes -> PcStates]
           /\ reply' \in [Lanes -> {"none", "ok", "aborted", "error"}]
           /\ at' \in [Lanes -> Nat \ {0}]
           /\ tries' \in [Lanes -> {1, 2}]
           /\ serial' \in [Lanes -> Nat]
BY DEF TypeOK, Answer, PcStates

\* Starting the second attempt does.
LEMMA RetryType ==
    ASSUME TypeOK, NEW l \in Lanes, Retry(l)
    PROVE  /\ pc' \in [Lanes -> PcStates]
           /\ at' \in [Lanes -> Nat \ {0}]
           /\ tries' \in [Lanes -> {1, 2}]
BY DEF TypeOK, Retry, Goto, PcStates

\* A request that arrives is a request.
LEMMA ReceiveType ==
    ASSUME TypeOK, NEW l \in Lanes, NEW kind \in Kinds,
           NEW script \in Scripts \union {<<c>> : c \in Commands}, NEW id \in Nat,
           NEW where \in PcStates,
           Receive(l, kind, script, id), Goto(l, where)
    PROVE  TypeOK'
<1>1. calls + 1 \in 0 .. MaxCalls
  BY CallsAssumption DEF TypeOK, Receive
<1>2. [n |-> calls + 1, kind |-> kind, script |-> script, id |-> id] \in Request
  BY <1>1 DEF Request
<1> QED
  BY <1>1, <1>2 DEF TypeOK, Receive, Goto, session, engine

\* The initial state is well-typed.
LEMMA TypeInit == Init => TypeOK
<1> SUFFICES ASSUME Init PROVE TypeOK
  OBVIOUS
<1>1. NoWork \in [Calls -> Nat]
  BY DEF NoWork
<1>2. db \in Connection /\ durable \in [Calls -> Nat]
  BY <1>1 DEF Init, Connection
<1>3. NoRequest \in Request
  BY CallsAssumption DEF NoRequest, Request, Kinds, Commands
<1>4. req \in [Lanes -> Request]
  BY <1>3 DEF Init
<1> QED
  BY <1>2, <1>4, CallsAssumption DEF Init, TypeOK, FirstId, PcStates

\* Every step keeps the types.
LEMMA TypeStep == TypeOK /\ [Next]_vars => TypeOK'
<1> SUFFICES ASSUME TypeOK, [Next]_vars PROVE TypeOK'
  OBVIOUS
<1>1. ASSUME NEW l \in Lanes, execute_statement(l) PROVE TypeOK'
  <2>1. PICK script \in Scripts : Receive(l, "statement", script, 0)
    BY <1>1 DEF execute_statement
  <2>2. Goto(l, "op")
    BY <1>1 DEF execute_statement
  <2> QED BY <2>1, <2>2, ReceiveType DEF Kinds, PcStates
<1>2. ASSUME NEW l \in Lanes, begin_transaction(l) PROVE TypeOK'
  <2>1. <<"begin">> \in Scripts \union {<<c>> : c \in Commands}
    BY DEF Commands
  <2> QED BY <1>2, <2>1, ReceiveType DEF begin_transaction, Kinds, PcStates
<1>3. ASSUME NEW l \in Lanes, end_transaction(l) PROVE TypeOK'
  <2>1. PICK kind \in {"commit", "rollback"}, id \in Issued : Receive(l, kind, <<kind>>, id)
    BY <1>3 DEF end_transaction
  <2>2. <<kind>> \in Scripts \union {<<c>> : c \in Commands}
    BY DEF Commands
  <2>3. id \in Nat
    BY DEF Issued, TypeOK
  <2> QED BY <1>3, <2>1, <2>2, <2>3, ReceiveType DEF end_transaction, Kinds, PcStates
<1>4. ASSUME NEW l \in Lanes, CheckRegistered(l) PROVE TypeOK'
  <2>1. req[l].id \in Nat
    BY DEF TypeOK, Request
  <2>2. CASE Goto(l, "op") /\ UNCHANGED <<aborted_transactions, settled, reply, at, tries, serial>>
    BY <1>4, <2>2 DEF CheckRegistered, TypeOK, engine, Goto, PcStates
  <2>3. CASE /\ aborted_transactions' = aborted_transactions \ {req[l].id}
             /\ settled' = settled \union {req[l].id}
             /\ Answer(l, "aborted")
    BY <1>4, <2>1, <2>3, AnswerType DEF CheckRegistered, TypeOK, engine
  <2>4. CASE Answer(l, "ok") /\ UNCHANGED <<aborted_transactions, settled>>
    BY <1>4, <2>4, AnswerType DEF CheckRegistered, TypeOK, engine
  <2> QED BY <1>4, <2>2, <2>3, <2>4 DEF CheckRegistered
<1>5. ASSUME NEW l \in Lanes, Execute(l) PROVE TypeOK'
  <2>1. PICK e \in ErrorClasses \union {"none"} :
           /\ Run(req[l].script[at[l]], req[l].n, e)
           /\ \/ /\ e = "none" /\ at[l] < Len(req[l].script)
                 /\ conn' = l
                 /\ at' = [at EXCEPT ![l] = @ + 1]
                 /\ UNCHANGED <<pc, reply, tries, serial>>
              \/ /\ e = "none" /\ at[l] = Len(req[l].script)
                 /\ conn' = NoLane
                 /\ Succeed(l)
              \/ /\ e # "none"
                 /\ conn' = NoLane
                 /\ Fail(l, e)
    BY <1>5 DEF Execute
  <2>2. /\ db' \in Connection /\ durable' \in [Calls -> Nat] /\ committed' \subseteq Nat
    BY <2>1, RunType
  <2>3. db'.serial \in Nat
    BY <2>2, ConnectionType
  <2>4. conn' \in Lanes \union {NoLane}
    BY <2>1
  <2>5. /\ pc' \in [Lanes -> PcStates] /\ at' \in [Lanes -> Nat \ {0}]
        /\ tries' \in [Lanes -> {1, 2}] /\ serial' \in [Lanes -> Nat]
        /\ reply' \in [Lanes -> {"none", "ok", "aborted", "error"}]
    <3>1. CASE at' = [at EXCEPT ![l] = @ + 1] /\ UNCHANGED <<pc, reply, tries, serial>>
      BY <3>1 DEF TypeOK
    <3>2. CASE Succeed(l)
      BY <2>3, <3>2, AnswerType DEF Succeed, TypeOK, Goto, PcStates
    <3>3. CASE Fail(l, e)
      BY <3>3, AnswerType DEF Fail, TypeOK, Goto, PcStates
    <3> QED BY <2>1, <3>1, <3>2, <3>3
  <2> QED
    BY <1>5, <2>2, <2>4, <2>5 DEF Execute, TypeOK, session
<1>6. ASSUME NEW l \in Lanes, Recover(l) PROVE TypeOK'
  <2>1. PICK e \in ErrorClasses \union {"none"} :
           /\ Run("rollback", req[l].n, e)
           /\ \/ e = "none" /\ Goto(l, "clear") /\ UNCHANGED <<at, tries>>
              \/ e # "none" /\ Retry(l)
    BY <1>6 DEF Recover, AutoRollback
  <2>2. /\ db' \in Connection /\ durable' \in [Calls -> Nat] /\ committed' \subseteq Nat
    BY <2>1, RunType
  <2>3. /\ pc' \in [Lanes -> PcStates] /\ at' \in [Lanes -> Nat \ {0}]
        /\ tries' \in [Lanes -> {1, 2}]
    BY <2>1, RetryType DEF TypeOK, Goto, PcStates
  <2> QED
    BY <1>6, <2>2, <2>3 DEF Recover, TypeOK, session
<1>7. ASSUME NEW l \in Lanes, ClearIds(l) PROVE TypeOK'
  <2>1. /\ pc' \in [Lanes -> PcStates] /\ at' \in [Lanes -> Nat \ {0}]
        /\ tries' \in [Lanes -> {1, 2}]
    BY <1>7, RetryType DEF ClearIds, TypeOK, Goto, PcStates
  <2> QED
    BY <1>7, <2>1 DEF ClearIds, TypeOK, engine, AfterClear
<1>8. ASSUME NEW l \in Lanes, MarkAborted(l) PROVE TypeOK'
  BY <1>8, RetryType DEF MarkAborted, ToMark, TypeOK, engine
<1>9. ASSUME NEW l \in Lanes, Register(l) PROVE TypeOK'
  <2>1. home' \in [Calls -> Nat]
    BY <1>9 DEF Register, TypeOK
  <2> QED
    BY <1>9, <2>1, AnswerType DEF Register, TypeOK, engine
<1>10. ASSUME NEW l \in Lanes, Unregister(l) PROVE TypeOK'
  <2>1. req[l].id \in Nat
    BY DEF TypeOK, Request
  <2> QED
    BY <1>10, <2>1, AnswerType DEF Unregister, TypeOK, engine
<1>11. CASE UNCHANGED vars
  BY <1>11 DEF vars, session, engine, lane, TypeOK
<1> QED
  BY <1>1, <1>2, <1>3, <1>4, <1>5, <1>6, <1>7, <1>8, <1>9, <1>10, <1>11
     DEF Next, Continue

\* Every variable keeps its type: the bookkeeping never stores anything but ids,
\* and no interleaving of requests takes a thread out of its control states.
THEOREM TypeCorrect == Spec => []TypeOK
BY TypeInit, TypeStep, PTL DEF Spec

--------------------------------------------------------------------------------
(* The bookkeeping of ids. *)

\* Only ids that were handed out are kept; a thread holds cleared ids only
\* between the two locks of the recovery; and the id in an end request waiting
\* for the membership test is one that was handed out.
IdsIssued == transactions \union aborted_transactions \union Limbo \subseteq Issued
LimboWhileMarking == \A l \in Lanes : pc[l] # "mark" => limbo[l] = {}
RequestsIssued == \A l \in Lanes : pc[l] = "check" => req[l].id \in Issued

IInv == TypeOK /\ IdsAccounted /\ IdsDisjoint /\ IdsIssued /\ LimboWhileMarking /\ RequestsIssued

IdVars == <<transactions, aborted_transactions, transaction_id_gen, limbo, settled>>

\* A step that leaves the ids alone and moves a thread between control states
\* other than "mark" and "check" preserves the bookkeeping.
LEMMA IdsUntouched ==
    ASSUME IInv, TypeOK', UNCHANGED IdVars,
           \A l \in Lanes : pc'[l] = "mark" => pc[l] = "mark",
           \A l \in Lanes : pc[l] = "mark" /\ pc'[l] # "mark" => limbo[l] = {},
           \A l \in Lanes : pc'[l] = "check" =>
                                \/ pc[l] = "check" /\ req'[l] = req[l]
                                \/ req'[l].id \in Issued
    PROVE  IInv'
BY DEF IInv, IdVars, IdsAccounted, IdsDisjoint, IdsIssued, LimboWhileMarking,
       RequestsIssued, Limbo, Issued

\* Answering moves one thread to "idle" and no other anywhere.
LEMMA AnswerMoves ==
    ASSUME TypeOK, NEW l \in Lanes, NEW r, Answer(l, r)
    PROVE  /\ pc'[l] = "idle"
           /\ \A m \in Lanes \ {l} : pc'[m] = pc[m]
BY DEF TypeOK, Answer

\* So does every jump.
LEMMA GotoMoves ==
    ASSUME TypeOK, NEW l \in Lanes, NEW where, Goto(l, where)
    PROVE  /\ pc'[l] = where
           /\ \A m \in Lanes \ {l} : pc'[m] = pc[m]
BY DEF TypeOK, Goto

\* A thread that holds no cleared ids adds none to Limbo; replacing its set
\* replaces its share of Limbo.
LEMMA LimboOf ==
    ASSUME TypeOK, NEW l \in Lanes, NEW ids \in SUBSET Nat,
           limbo' = [limbo EXCEPT ![l] = ids], limbo[l] = {} \/ ids = {}
    PROVE  /\ Limbo' \union limbo[l] = Limbo \union ids
           /\ \A m \in Lanes \ {l} : limbo'[m] = limbo[m]
           /\ limbo'[l] = ids
<1>1. limbo'[l] = ids /\ \A m \in Lanes \ {l} : limbo'[m] = limbo[m]
  BY DEF TypeOK
<1>2. \A x \in Limbo' : x \in Limbo \union ids
  BY <1>1 DEF Limbo
<1>3. \A x \in Limbo \union ids : x \in Limbo' \union limbo[l]
  BY <1>1 DEF Limbo
<1>4. limbo[l] \subseteq Limbo
  BY DEF Limbo
<1> QED BY <1>1, <1>2, <1>3, <1>4

\* The strengthened bookkeeping is preserved by every step.
LEMMA BookkeepingStep == IInv /\ [Next]_vars => IInv'
<1> SUFFICES ASSUME IInv, [Next]_vars PROVE IInv'
  OBVIOUS
<1>0. TypeOK /\ TypeOK'
  BY TypeStep DEF IInv
<1>1. ASSUME NEW l \in Lanes, execute_statement(l) PROVE IInv'
  <2>1. PICK script \in Scripts : Receive(l, "statement", script, 0)
    BY <1>1 DEF execute_statement
  <2> QED BY <1>0, <1>1, <2>1, GotoMoves, IdsUntouched
             DEF execute_statement, Receive, session, IdVars
<1>2. ASSUME NEW l \in Lanes, begin_transaction(l) PROVE IInv'
  BY <1>0, <1>2, GotoMoves, IdsUntouched DEF begin_transaction, Receive, session, IdVars
<1>3. ASSUME NEW l \in Lanes, end_transaction(l) PROVE IInv'
  <2>1. PICK kind \in {"commit", "rollback"}, id \in Issued : Receive(l, kind, <<kind>>, id)
    BY <1>3 DEF end_transaction
  <2>2. req'[l].id = id /\ \A m \in Lanes \ {l} : req'[m] = req[m]
    BY <1>0, <2>1 DEF Receive, TypeOK
  <2>3. pc'[l] = "check" /\ \A m \in Lanes \ {l} : pc'[m] = pc[m]
    BY <1>0, <1>3, GotoMoves DEF end_transaction
  <2> QED BY <1>0, <2>1, <2>2, <2>3, IdsUntouched DEF Receive, session, IdVars
<1>4. ASSUME NEW l \in Lanes, CheckRegistered(l) PROVE IInv'
  <2>1. CASE Goto(l, "op") /\ UNCHANGED <<aborted_transactions, settled, reply, at, tries, serial>>
    BY <1>0, <1>4, <2>1, GotoMoves, IdsUntouched DEF CheckRegistered, IdVars
  <2>2. CASE /\ aborted_transactions' = aborted_transactions \ {req[l].id}
             /\ settled' = settled \union {req[l].id}
             /\ Answer(l, "aborted")
    <3>1. UNCHANGED <<transactions, transaction_id_gen, limbo, req>>
      BY <1>4 DEF CheckRegistered
    <3>2. Limbo' = Limbo /\ Issued' = Issued
      BY <3>1 DEF Limbo, Issued
    <3>3. pc'[l] = "idle" /\ (\A m \in Lanes \ {l} : pc'[m] = pc[m]) /\ pc[l] = "check"
      BY <1>0, <1>4, <2>2, AnswerMoves DEF CheckRegistered
    <3>4. IdsAccounted' /\ IdsDisjoint' /\ IdsIssued'
      BY <2>2, <3>1, <3>2 DEF IInv, IdsAccounted, IdsDisjoint, IdsIssued
    <3>5. LimboWhileMarking' /\ RequestsIssued'
      BY <3>1, <3>2, <3>3 DEF IInv, LimboWhileMarking, RequestsIssued
    <3> QED BY <1>0, <3>4, <3>5 DEF IInv
  <2>3. CASE Answer(l, "ok") /\ UNCHANGED <<aborted_transactions, settled>>
    BY <1>0, <1>4, <2>3, AnswerMoves, IdsUntouched DEF CheckRegistered, IdVars
  <2> QED BY <1>4, <2>1, <2>2, <2>3 DEF CheckRegistered
<1>5. ASSUME NEW l \in Lanes, Execute(l) PROVE IInv'
  <2>1. /\ pc[l] = "op" /\ pc'[l] \notin {"mark", "check"}
        /\ \A m \in Lanes \ {l} : pc'[m] = pc[m]
    <3>1. CASE UNCHANGED pc
      BY <1>5, <3>1 DEF Execute
    <3>2. CASE Succeed(l)
      BY <1>0, <1>5, <3>2, AnswerMoves, GotoMoves DEF Succeed, Execute
    <3>3. CASE \E e \in ErrorClasses : Fail(l, e)
      BY <1>0, <1>5, <3>3, AnswerMoves, GotoMoves DEF Fail, Execute
    <3> QED BY <1>5, <3>1, <3>2, <3>3 DEF Execute
  <2> QED BY <1>0, <1>5, <2>1, IdsUntouched DEF Execute, session, IdVars
<1>6. ASSUME NEW l \in Lanes, Recover(l) PROVE IInv'
  <2>1. /\ pc[l] = "recover" /\ pc'[l] \notin {"mark", "check"}
        /\ \A m \in Lanes \ {l} : pc'[m] = pc[m]
    BY <1>0, <1>6, GotoMoves DEF Recover, Retry
  <2> QED BY <1>0, <1>6, <2>1, IdsUntouched DEF Recover, session, IdVars
<1>7. ASSUME NEW l \in Lanes, ClearIds(l) PROVE IInv'
  <2>1. /\ pc[l] = "clear" /\ limbo' = [limbo EXCEPT ![l] = transactions] /\ transactions' = {}
        /\ UNCHANGED <<aborted_transactions, transaction_id_gen, settled, req>>
    BY <1>7 DEF ClearIds, AfterClear
  <2>2. limbo[l] = {}
    BY <2>1 DEF IInv, LimboWhileMarking
  <2>3. /\ Limbo' = Limbo \union transactions /\ Issued' = Issued
        /\ \A m \in Lanes \ {l} : limbo'[m] = limbo[m]
        /\ limbo'[l] = transactions
    <3>1. transactions \in SUBSET Nat
      BY <1>0 DEF TypeOK
    <3>2. /\ Limbo' \union limbo[l] = Limbo \union transactions
          /\ \A m \in Lanes \ {l} : limbo'[m] = limbo[m]
          /\ limbo'[l] = transactions
      BY <1>0, <2>1, <2>2, <3>1, LimboOf
    <3>3. Issued' = Issued
      BY <2>1 DEF Issued
    <3> QED BY <2>2, <3>2, <3>3
  <2>4. /\ pc'[l] \in {"mark", "op"} /\ (transactions # {} => pc'[l] = "mark")
        /\ \A m \in Lanes \ {l} : pc'[m] = pc[m]
    BY <1>0, <1>7, GotoMoves DEF ClearIds, Retry
  <2>5. IdsAccounted' /\ IdsIssued'
    BY <2>1, <2>3 DEF IInv, IdsAccounted, IdsIssued
  <2>6. IdsDisjoint'
    BY <2>1, <2>3 DEF IInv, IdsDisjoint
  <2>7. LimboWhileMarking' /\ RequestsIssued'
    BY <2>1, <2>3, <2>4 DEF IInv, LimboWhileMarking, RequestsIssued
  <2> QED BY <1>0, <2>5, <2>6, <2>7 DEF IInv
<1>8. ASSUME NEW l \in Lanes, MarkAborted(l) PROVE IInv'
  <2>1. /\ pc[l] = "mark" /\ limbo' = [limbo EXCEPT ![l] = {}]
        /\ aborted_transactions' = aborted_transactions \union limbo[l]
        /\ UNCHANGED <<transactions, transaction_id_gen, settled, req>>
    BY <1>8 DEF MarkAborted, ToMark
  <2>2. /\ Limbo' \union limbo[l] = Limbo /\ Issued' = Issued
        /\ \A m \in Lanes \ {l} : limbo'[m] = limbo[m]
        /\ limbo'[l] = {}
    <3>1. {} \in SUBSET Nat
      OBVIOUS
    <3>2. /\ Limbo' \union limbo[l] = Limbo \union {}
          /\ \A m \in Lanes \ {l} : limbo'[m] = limbo[m]
          /\ limbo'[l] = {}
      BY <1>0, <2>1, <3>1, LimboOf
    <3>3. Issued' = Issued
      BY <2>1 DEF Issued
    <3> QED BY <3>2, <3>3
  <2>3. /\ pc'[l] = "op"
        /\ \A m \in Lanes \ {l} : pc'[m] = pc[m]
    BY <1>0, <1>8, GotoMoves DEF MarkAborted, Retry
  <2>4. IdsAccounted' /\ IdsIssued'
    BY <2>1, <2>2 DEF IInv, IdsAccounted, IdsIssued
  <2>5. IdsDisjoint'
    BY <2>1, <2>2 DEF IInv, IdsDisjoint
  <2>6. LimboWhileMarking' /\ RequestsIssued'
    BY <2>1, <2>2, <2>3 DEF IInv, LimboWhileMarking, RequestsIssued
  <2> QED BY <1>0, <2>4, <2>5, <2>6 DEF IInv
<1>9. ASSUME NEW l \in Lanes, Register(l) PROVE IInv'
  <2>1. /\ pc[l] = "register" /\ transactions' = transactions \union {transaction_id_gen}
        /\ transaction_id_gen' = transaction_id_gen + 1
        /\ UNCHANGED <<aborted_transactions, limbo, settled, req>>
    BY <1>9 DEF Register
  <2>2. Issued' = Issued \union {transaction_id_gen} /\ transaction_id_gen \notin Issued
    BY <1>0, <2>1 DEF TypeOK, Issued
  <2>3. Limbo' = Limbo
    BY <2>1 DEF Limbo
  <2>4. pc'[l] = "idle" /\ \A m \in Lanes \ {l} : pc'[m] = pc[m]
    BY <1>0, <1>9, AnswerMoves DEF Register
  <2>5. \A m \in Lanes : transaction_id_gen \notin limbo[m]
    BY <2>2 DEF IInv, IdsIssued, Limbo
  <2>6. IdsAccounted' /\ IdsIssued'
    BY <2>1, <2>2, <2>3 DEF IInv, IdsAccounted, IdsIssued
  <2>7. IdsDisjoint'
    BY <2>1, <2>2, <2>5 DEF IInv, IdsDisjoint, IdsIssued
  <2>8. LimboWhileMarking' /\ RequestsIssued'
    BY <2>1, <2>2, <2>4 DEF IInv, LimboWhileMarking, RequestsIssued
  <2> QED BY <1>0, <2>6, <2>7, <2>8 DEF IInv
<1>10. ASSUME NEW l \in Lanes, Unregister(l) PROVE IInv'
  <2>1. /\ pc[l] = "unregister" /\ transactions' = transactions \ {req[l].id}
        /\ aborted_transactions' = aborted_transactions \ {req[l].id}
        /\ settled' = settled \union {req[l].id}
        /\ UNCHANGED <<transaction_id_gen, limbo, req>>
    BY <1>10 DEF Unregister
  <2>2. Limbo' = Limbo /\ Issued' = Issued
    BY <2>1 DEF Limbo, Issued
  <2>3. pc'[l] = "idle" /\ \A m \in Lanes \ {l} : pc'[m] = pc[m]
    BY <1>0, <1>10, AnswerMoves DEF Unregister
  <2>4. IdsAccounted' /\ IdsIssued' /\ IdsDisjoint'
    BY <2>1, <2>2 DEF IInv, IdsAccounted, IdsIssued, IdsDisjoint
  <2>5. LimboWhileMarking' /\ RequestsIssued'
    BY <2>1, <2>2, <2>3 DEF IInv, LimboWhileMarking, RequestsIssued
  <2> QED BY <1>0, <2>4, <2>5 DEF IInv
<1>11. CASE UNCHANGED vars
  BY <1>0, <1>11, IdsUntouched DEF vars, session, lane, IdVars
<1> QED
  BY <1>1, <1>2, <1>3, <1>4, <1>5, <1>6, <1>7, <1>8, <1>9, <1>10, <1>11
     DEF Next, Continue

\* The strengthened bookkeeping holds at the start.
LEMMA BookkeepingInit == Init => IInv
<1> SUFFICES ASSUME Init PROVE IInv
  OBVIOUS
<1>1. Limbo = {} /\ Issued = {}
  BY DEF Init, Limbo, Issued, FirstId
<1>2. TypeOK
  BY TypeInit
<1> QED
  BY <1>1, <1>2 DEF Init, IInv, IdsAccounted, IdsDisjoint, IdsIssued,
                    LimboWhileMarking, RequestsIssued

\* The invariant holds in every state.
LEMMA Bookkeeping == Spec => []IInv
BY BookkeepingInit, BookkeepingStep, PTL DEF Spec

\* No id that begin_transaction handed out disappears, however recoveries and
\* ends of the same transaction interleave.
THEOREM NoIdLost == Spec => []IdsAccounted
<1>1. IInv => IdsAccounted
  BY DEF IInv
<1> QED BY <1>1, Bookkeeping, PTL

\* No id is live and aborted at once, nor held by two recoveries.
THEOREM OneStatusPerId == Spec => []IdsDisjoint
<1>1. IInv => IdsDisjoint
  BY DEF IInv
<1> QED BY <1>1, Bookkeeping, PTL

\* The silent no-op of end_transaction hides an unreported end only in the
\* window between the two locks of a recovery.
THEOREM NoopWindow == Spec => NoopOnlyDuringRecovery
<1>1. IInv /\ [Next]_vars =>
        [\A l \in Lanes :
           pc[l] = "check" /\ pc'[l] = "idle" /\ reply'[l] = "ok"
              => req[l].id \in settled \union Limbo]_vars
  <2> SUFFICES ASSUME IInv, Next, NEW l \in Lanes,
                      pc[l] = "check", pc'[l] = "idle", reply'[l] = "ok"
               PROVE  req[l].id \in settled \union Limbo
    OBVIOUS
  <2>0. TypeOK
    BY DEF IInv
  <2>1. CASE CheckRegistered(l)
    <3>1. req[l].id \notin transactions /\ req[l].id \notin aborted_transactions
      BY <2>0, <2>1, GotoMoves DEF CheckRegistered, Answer, TypeOK
    <3> QED BY <3>1 DEF IInv, IdsAccounted, RequestsIssued
  <2>2. ASSUME ~CheckRegistered(l) PROVE FALSE
    <3>1. PICK m \in Lanes : \/ execute_statement(m) \/ begin_transaction(m)
                             \/ end_transaction(m) \/ Continue(m)
      BY DEF Next
    <3>2. m # l => pc'[l] = pc[l]
      BY <2>0, <3>1, AnswerMoves, GotoMoves
         DEF execute_statement, begin_transaction, end_transaction, Continue, CheckRegistered,
             Execute, Succeed, Fail, Recover, Retry, ClearIds, MarkAborted, Register, Unregister
    <3>3. m = l => pc[l] # "check"
      BY <2>2, <3>1
         DEF execute_statement, begin_transaction, end_transaction, Receive, Continue,
             Execute, Recover, ClearIds, MarkAborted, Register, Unregister
    <3> QED BY <3>2, <3>3
  <2> QED BY <2>1, <2>2
<1> QED BY <1>1, Bookkeeping, PTL DEF Spec, NoopOnlyDuringRecovery

--------------------------------------------------------------------------------
(* The second attempt. *)

\* A text that leaves nothing behind when it is rolled back: one command, or writes
\* between the BEGIN and the COMMIT of a transaction of its own.
AtomicText(s) ==
    \/ Len(s) = 1
    \/ /\ s[1] = "begin" /\ s[Len(s)] = "commit"
       /\ \A i \in 2 .. Len(s) - 1 : s[i] = "write"
RetriableTexts == \A s \in Scripts : AtomicText(s)

\* Call n has written nothing; or what it has written cannot be committed any more.
NoTrace(n) == durable[n] = 0 /\ db.work[n] = 0
Doomed(n) == durable[n] = 0 /\ (db.work[n] = 0 \/ db.mode = "aborted")

\* Writes are pending in a transaction only.
WorkInTransaction == db.mode = "auto" => \A n \in Calls : db.work[n] = 0

\* Requests in progress have numbers of their own; the next has none of them.
OwnNumbers ==
    /\ \A l \in Lanes : pc[l] # "idle" => req[l].n \in 1 .. calls
    /\ \A l, m \in Lanes : pc[l] # "idle" /\ pc[m] # "idle" /\ l # m => req[l].n # req[m].n
    /\ \A n \in Calls : n > calls => NoTrace(n)

\* Before an attempt nothing is written.  Within one, the thread has the connection
\* and a transaction; once it has failed its writes are doomed, and the ROLLBACK of
\* the recovery drops them if nobody has done so before.
Attempt(l) ==
    /\ conn = l => pc[l] = "op"
    /\ pc[l] \in {"idle", "check"} \/ (pc[l] = "op" /\ conn # l) => at[l] = 1
    /\ pc[l] \in {"check", "clear", "mark"} \/ (pc[l] = "op" /\ conn # l) => NoTrace(req[l].n)
    /\ conn = l => /\ db.mode = "open" /\ durable[req[l].n] = 0
                   /\ at[l] \in 2 .. Len(req[l].script)
    /\ pc[l] = "recover" => Doomed(req[l].n)

AttemptInv ==
    /\ TypeOK /\ WorkInTransaction /\ OwnNumbers
    /\ \A l \in Lanes : AtomicText(req[l].script) /\ Attempt(l)

\* The connection after a command: pending writes are in a transaction, and other
\* calls keep what they have, unless the transaction is over.
LEMMA RunKeeps ==
    ASSUME TypeOK, WorkInTransaction, NEW cmd, NEW n, NEW e, Run(cmd, n, e)
    PROVE  /\ WorkInTransaction'
           /\ \A k \in Calls \ {n} : /\ NoTrace(k) => NoTrace(k)'
                                     /\ Doomed(k) => Doomed(k)'
<1>1. /\ db \in Connection /\ db.work \in [Calls -> Nat] /\ durable \in [Calls -> Nat]
      /\ \A k \in Calls : NoWork[k] = 0
  BY ConnectionType DEF TypeOK, NoWork
<1>2. Discard => /\ db'.mode = "auto" /\ \A k \in Calls : db'.work[k] = 0
  BY <1>1 DEF Discard, Connection
<1>3. Commit => /\ db'.mode = "auto" /\ \A k \in Calls : db'.work[k] = 0
                /\ \A k \in Calls : durable'[k] = durable[k] + db.work[k]
  BY <1>1 DEF Commit, Connection
<1>4. CASE UNCHANGED <<db, durable>>
  BY <1>4 DEF WorkInTransaction, NoTrace, Doomed
<1>5. CASE Discard /\ UNCHANGED durable
  BY <1>2, <1>5 DEF WorkInTransaction, NoTrace, Doomed
<1>6. CASE db.mode = "open" /\ Commit
  BY <1>1, <1>3, <1>6 DEF WorkInTransaction, NoTrace, Doomed
<1>7. CASE db.mode = "auto" /\ durable' = AddWrite(durable, n) /\ UNCHANGED db
  <2>1. \A k \in Calls \ {n} : durable'[k] = durable[k]
    BY <1>1, <1>7 DEF AddWrite
  <2> QED BY <1>7, <2>1 DEF WorkInTransaction, NoTrace, Doomed
<1>8. CASE db.mode = "open" /\ db' = [db EXCEPT !.work = AddWrite(@, n)] /\ UNCHANGED durable
  <2>1. db'.mode = "open" /\ db'.work = AddWrite(db.work, n)
    BY <1>1, <1>8 DEF Connection
  <2>2. \A k \in Calls \ {n} : db'.work[k] = db.work[k]
    BY <1>1, <2>1 DEF AddWrite
  <2> QED BY <1>8, <2>1, <2>2 DEF WorkInTransaction, NoTrace, Doomed
<1>9. CASE db' = [db EXCEPT !.mode = "aborted"] /\ UNCHANGED durable
  <2>1. db'.mode = "aborted" /\ db'.work = db.work
    BY <1>1, <1>9 DEF Connection
  <2> QED BY <1>9, <2>1 DEF WorkInTransaction, NoTrace, Doomed
<1>10. CASE db' = [mode |-> "open", serial |-> db.serial + 1, work |-> NoWork] /\ UNCHANGED durable
  BY <1>1, <1>10 DEF WorkInTransaction, NoTrace, Doomed
<1> QED BY <1>4, <1>5, <1>6, <1>7, <1>8, <1>9, <1>10
           DEF Run, RunWrite, RunBegin, RunCommit, RunRollback

\* A command that fails adds no trace of its own call; a write or a COMMIT that reports
\* an abort in an open transaction has aborted or ended it.
LEMMA RunFails ==
    ASSUME TypeOK, NEW cmd, NEW n \in Calls, NEW e \in ErrorClasses, Run(cmd, n, e)
    PROVE  /\ durable'[n] = durable[n] /\ (NoTrace(n) => NoTrace(n)')
           /\ db.mode = "open" /\ e = "abort" /\ cmd # "begin" /\ durable[n] = 0
                => Doomed(n)'
<1>1. /\ db \in Connection /\ db.work \in [Calls -> Nat] /\ e # "none" /\ NoWork[n] = 0
  BY ConnectionType DEF TypeOK, NoWork, ErrorClasses
<1>2. durable' = durable
  BY <1>1 DEF Run, RunWrite, RunBegin, RunCommit, RunRollback
<1>3. CASE UNCHANGED db /\ ~(db.mode = "open" /\ e = "abort" /\ cmd # "begin")
  BY <1>2, <1>3 DEF NoTrace
<1>4. CASE db' = [db EXCEPT !.mode = "aborted"]
  <2>1. db'.mode = "aborted" /\ db'.work = db.work
    BY <1>1, <1>4 DEF Connection
  <2> QED BY <1>2, <2>1 DEF NoTrace, Doomed
<1>5. CASE Discard
  <2>1. db'.work = NoWork
    BY <1>1, <1>5 DEF Discard, Connection
  <2> QED BY <1>1, <1>2, <2>1 DEF NoTrace, Doomed
<1>6. \/ UNCHANGED db /\ ~(db.mode = "open" /\ e = "abort" /\ cmd # "begin")
      \/ db' = [db EXCEPT !.mode = "aborted"]
      \/ Discard
  BY <1>1 DEF Run, RunWrite, RunBegin, RunCommit, RunRollback, ErrorClasses
<1> QED BY <1>3, <1>4, <1>5, <1>6

\* One thread takes a step of its request: the others are where they were, and if it
\* used the connection nobody else has it.
LEMMA LaneMoves ==
    ASSUME AttemptInv, NEW l \in Lanes, TypeOK', WorkInTransaction',
           pc[l] # "idle", UNCHANGED <<req, calls>>,
           \A m \in Lanes \ {l} : pc'[m] = pc[m] /\ at'[m] = at[m],
           \/ UNCHANGED <<conn, db, durable>>
           \/ /\ conn \in {NoLane, l} /\ conn' \in {NoLane, l}
              /\ \A k \in Calls \ {req[l].n} : /\ NoTrace(k) => NoTrace(k)'
                                               /\ Doomed(k) => Doomed(k)',
           Attempt(l)'
    PROVE  AttemptInv'
<1>1. /\ 1 .. calls \subseteq Calls /\ calls \in Nat
      /\ req[l].n \in 1 .. calls /\ NoLane \notin Lanes
  BY CallsAssumption, LanesAssumption DEF AttemptInv, TypeOK, OwnNumbers, Calls
<1>2. \A k \in Calls \ {req[l].n} : (NoTrace(k) => NoTrace(k)') /\ (Doomed(k) => Doomed(k)')
  BY DEF NoTrace, Doomed
<1>3. OwnNumbers'
  BY <1>1, <1>2 DEF AttemptInv, OwnNumbers
<1>4. ASSUME NEW m \in Lanes, m # l PROVE Attempt(m)'
  <2>1. pc[m] # "idle" => req[m].n \in Calls \ {req[l].n}
    BY <1>1, <1>4 DEF AttemptInv, OwnNumbers
  <2>2. pc'[m] = pc[m] /\ at'[m] = at[m] /\ req' = req /\ Attempt(m)
    BY <1>4 DEF AttemptInv
  <2>3. CASE UNCHANGED <<conn, db, durable>>
    BY <2>2, <2>3 DEF Attempt, NoTrace, Doomed
  <2>4. CASE conn \in {NoLane, l} /\ conn' \in {NoLane, l}
    <3>1. conn # m /\ conn' # m
      BY <1>1, <1>4, <2>4
    <3>2. pc[m] # "idle" => /\ NoTrace(req[m].n) => NoTrace(req[m].n)'
                            /\ Doomed(req[m].n) => Doomed(req[m].n)'
      BY <1>2, <2>1, <2>2
    <3> QED BY <2>2, <3>1, <3>2 DEF Attempt
  <2> QED BY <2>3, <2>4
<1>5. \A m \in Lanes : AtomicText(req'[m].script)
  BY DEF AttemptInv
<1> QED BY <1>3, <1>4, <1>5 DEF AttemptInv

\* A request arrives: its call has a new number and has written nothing.
LEMMA RequestArrives ==
    ASSUME AttemptInv, NEW l \in Lanes, TypeOK', NEW kind, NEW script, NEW id,
           Receive(l, kind, script, id), AtomicText(script),
           NEW where \in {"op", "check"}, Goto(l, where)
    PROVE  AttemptInv'
<1>1. /\ pc[l] = "idle" /\ calls' = calls + 1 /\ UNCHANGED <<conn, db, durable, at>>
      /\ pc'[l] = where /\ (\A m \in Lanes \ {l} : pc'[m] = pc[m] /\ req'[m] = req[m])
      /\ req'[l] = [n |-> calls + 1, kind |-> kind, script |-> script, id |-> id]
      /\ calls \in Nat /\ calls + 1 \in Calls
  <2>1. /\ pc[l] = "idle" /\ calls' = calls + 1 /\ UNCHANGED <<conn, db, durable, at>>
        /\ calls < MaxCalls
        /\ req' = [req EXCEPT ![l] = [n |-> calls + 1, kind |-> kind, script |-> script,
                                     id |-> id]]
    BY DEF Receive, engine
  <2>2. req \in [Lanes -> Request] /\ calls \in 0 .. MaxCalls /\ pc \in [Lanes -> PcStates]
    BY DEF AttemptInv, TypeOK
  <2>3. pc'[l] = where /\ \A m \in Lanes \ {l} : pc'[m] = pc[m]
    BY GotoMoves DEF AttemptInv
  <2>4. calls \in Nat /\ calls + 1 \in Calls
    BY <2>1, <2>2, CallsAssumption DEF Calls
  <2> QED BY <2>1, <2>2, <2>3, <2>4
<1>2. PICK n \in Calls : n = calls + 1
  BY <1>1
<1>3. req'[l].n = n /\ req'[l].script = script
  BY <1>1, <1>2
<1>4. /\ NoTrace(n) /\ at[l] = 1 /\ conn # l
  <2>1. n > calls
    BY <1>1, <1>2
  <2> QED BY <1>1, <2>1 DEF AttemptInv, OwnNumbers, Attempt
<1>5. \A k : (NoTrace(k) => NoTrace(k)') /\ (Doomed(k) => Doomed(k)')
  BY <1>1 DEF NoTrace, Doomed
<1>6. Attempt(l)'
  <2>1. NoTrace(n)'
    BY <1>4, <1>5
  <2>2. durable'[req'[l].n] = 0 /\ db'.work[req'[l].n] = 0
    BY <1>3, <2>1 DEF NoTrace
  <2> QED BY <1>1, <1>4, <2>2 DEF Attempt, NoTrace
<1>7. ASSUME NEW m \in Lanes, m # l PROVE Attempt(m)'
  <2>1. pc'[m] = pc[m] /\ req'[m] = req[m] /\ Attempt(m)
    BY <1>1, <1>7 DEF AttemptInv
  <2> QED BY <1>1, <2>1 DEF Attempt, NoTrace, Doomed
<1>8. OwnNumbers'
  <2>1. \A m \in Lanes : pc[m] # "idle" => req[m].n \in 1 .. calls
    BY DEF AttemptInv, OwnNumbers
  <2>2. \A m \in Lanes : pc'[m] # "idle" => req'[m].n \in 1 .. calls'
    BY <1>1, <1>2, <1>3, <2>1
  <2>3. \A m \in Lanes \ {l} : pc[m] # "idle" => req[m].n # n
    BY <1>1, <1>2, <2>1
  <2>4. \A j, m \in Lanes : pc'[j] # "idle" /\ pc'[m] # "idle" /\ j # m => req'[j].n # req'[m].n
    BY <1>1, <1>3, <2>3 DEF AttemptInv, OwnNumbers
  <2>5. \A k \in Calls : k > calls' => NoTrace(k)'
    <3>1. \A k \in Calls : k > calls' => k > calls
      BY <1>1 DEF Calls
    <3> QED BY <1>5, <3>1 DEF AttemptInv, OwnNumbers
  <2> QED BY <2>2, <2>4, <2>5 DEF OwnNumbers
<1>9. WorkInTransaction' /\ \A m \in Lanes : AtomicText(req'[m].script)
  BY <1>1, <1>3 DEF AttemptInv, WorkInTransaction
<1> QED BY <1>6, <1>7, <1>8, <1>9 DEF AttemptInv

\* A request is answered, or goes on to its bookkeeping.
LEMMA RequestEnds ==
    ASSUME AttemptInv, NEW l \in Lanes, pc'[l] \in {"idle", "register", "unregister"},
           pc'[l] = "idle" => at'[l] = 1, conn' # l
    PROVE  Attempt(l)'
BY DEF Attempt

\* The operation: one command of the text.
LEMMA ExecuteStep == ASSUME AttemptInv, TypeOK', NEW l \in Lanes, Execute(l) PROVE AttemptInv'
<1> DEFINE s == req[l].script
           cmd == s[at[l]]
<1>0. PICK n \in Calls : n = req[l].n
  <2>1. req[l].n \in 1 .. calls /\ calls \in 0 .. MaxCalls
    BY DEF Execute, AttemptInv, OwnNumbers, TypeOK
  <2> QED BY <2>1, CallsAssumption DEF Calls
<1>1. PICK e \in ErrorClasses \union {"none"} :
         /\ Run(cmd, n, e)
         /\ \/ /\ e = "none" /\ at[l] < Len(s)
               /\ conn' = l
               /\ at' = [at EXCEPT ![l] = @ + 1]
               /\ UNCHANGED <<pc, reply, tries, serial>>
            \/ /\ e = "none" /\ at[l] = Len(s)
               /\ conn' = NoLane
               /\ Succeed(l)
            \/ /\ e # "none"
               /\ conn' = NoLane
               /\ Fail(l, e)
  BY <1>0 DEF Execute
<1>2. /\ pc[l] = "op" /\ conn \in {NoLane, l} /\ UNCHANGED <<req, calls>>
      /\ NoLane # l
  BY LanesAssumption DEF Execute
<1>3. /\ TypeOK /\ WorkInTransaction /\ OwnNumbers /\ Attempt(l) /\ AtomicText(s)
      /\ at[l] \in Nat \ {0} /\ Len(s) \in Int
      /\ durable \in [Calls -> Nat] /\ db \in Connection
  <2>1. s \in Scripts \union {<<c>> : c \in Commands}
    BY DEF AttemptInv, TypeOK, Request
  <2>2. Len(s) \in Int
    <3> HIDE DEF s
    <3>1. CASE s \in Scripts
      BY <3>1, ScriptsAssumption
    <3>2. CASE \E c : s = <<c>>
      BY <3>2
    <3> QED BY <2>1, <3>1, <3>2
  <2> QED BY <2>2 DEF AttemptInv, TypeOK
<1> HIDE DEF s, cmd
<1>4. /\ WorkInTransaction'
      /\ \A k \in Calls \ {n} : (NoTrace(k) => NoTrace(k)') /\ (Doomed(k) => Doomed(k)')
  BY <1>1, <1>3, RunKeeps
<1>5. \A m \in Lanes \ {l} : pc'[m] = pc[m] /\ at'[m] = at[m]
  <2>0. TypeOK /\ at \in [Lanes -> Nat \ {0}]
    BY <1>3 DEF TypeOK
  <2>1. ASSUME NEW r, Answer(l, r) PROVE \A m \in Lanes \ {l} : pc'[m] = pc[m] /\ at'[m] = at[m]
    <3>1. at' = [at EXCEPT ![l] = 1]
      BY <2>1 DEF Answer
    <3> QED BY <2>0, <2>1, <3>1, AnswerMoves
  <2>2. ASSUME NEW where, Goto(l, where), UNCHANGED at
        PROVE  \A m \in Lanes \ {l} : pc'[m] = pc[m] /\ at'[m] = at[m]
    BY <2>0, <2>2, GotoMoves
  <2>3. CASE at' = [at EXCEPT ![l] = @ + 1] /\ UNCHANGED pc
    BY <2>0, <2>3
  <2>4. CASE Succeed(l)
    BY <2>1, <2>2, <2>4 DEF Succeed
  <2>5. CASE Fail(l, e)
    BY <2>1, <2>2, <2>5 DEF Fail
  <2> QED BY <1>1, <2>3, <2>4, <2>5
<1>6. CASE e = "none" /\ conn' = l
  <2>1. at[l] < Len(s) /\ at'[l] = at[l] + 1 /\ UNCHANGED pc
    BY <1>1, <1>2, <1>3, <1>6 DEF TypeOK
  <2>2. s[1] = "begin" /\ \A i \in 2 .. Len(s) - 1 : s[i] = "write"
    <3>1. Len(s) # 1
      <4>1. PICK i \in Nat \ {0}, j \in Int : i = at[l] /\ j = Len(s)
        BY <1>3
      <4>2. i < j
        BY <2>1, <4>1
      <4>3. j # 1
        BY <4>2
      <4> QED BY <4>1, <4>3
    <3>2. AtomicText(s)
      BY <1>3
    <3> QED BY <3>1, <3>2 DEF AtomicText
  <2>3. db'.mode = "open" /\ durable'[n] = 0
    <3>1. CASE conn = l
      <4>1. cmd = "write" /\ db.mode = "open" /\ durable[n] = 0
        BY <1>0, <1>2, <1>3, <2>1, <2>2, <3>1 DEF Attempt, s, cmd
      <4>2. db' = [db EXCEPT !.work = AddWrite(@, n)] /\ UNCHANGED durable
        BY <1>1, <1>6, <4>1 DEF Run, RunWrite
      <4> QED BY <1>3, <4>1, <4>2 DEF Connection
    <3>2. CASE conn # l
      <4>1. at[l] = 1 /\ durable[n] = 0
        BY <1>0, <1>2, <1>3, <3>2 DEF Attempt, NoTrace
      <4>2. cmd = "begin"
        BY <2>2, <4>1 DEF cmd
      <4>3. /\ db' = [mode |-> "open", serial |-> db.serial + 1, work |-> NoWork]
            /\ UNCHANGED durable
        BY <1>1, <1>6, <4>2 DEF Run, RunBegin
      <4> QED BY <4>1, <4>3
    <3> QED BY <3>1, <3>2
  <2>4. at'[l] \in 2 .. Len(s)
    BY <1>3, <2>1
  <2>5. Attempt(l)'
    BY <1>0, <1>2, <1>6, <2>1, <2>3, <2>4 DEF Attempt, s
  <2> QED BY <1>0, <1>2, <1>3, <1>4, <1>5, <1>6, <2>5, LaneMoves
<1>7. CASE e = "none" /\ conn' = NoLane /\ Succeed(l)
  <2>1. /\ pc'[l] \in {"idle", "register", "unregister"} /\ (pc'[l] = "idle" => at'[l] = 1)
    BY <1>3, <1>7 DEF Succeed, Answer, Goto, TypeOK
  <2>2. Attempt(l)'
    BY <1>2, <1>7, <2>1, RequestEnds
  <2> QED BY <1>0, <1>2, <1>3, <1>4, <1>5, <1>7, <2>2, LaneMoves
<1>8. CASE e # "none" /\ conn' = NoLane /\ Fail(l, e)
  <2>1. CASE pc'[l] = "recover" /\ e = "abort"
    <3>1. Doomed(n)'
      <4>1. CASE conn = l
        <5>1. db.mode = "open" /\ durable[n] = 0 /\ at[l] \in 2 .. Len(s)
          BY <1>0, <1>3, <4>1 DEF Attempt, s
        <5>2. cmd \in {"write", "commit"}
          BY <1>3, <5>1 DEF AtomicText, cmd
        <5> QED BY <1>1, <1>3, <2>1, <5>1, <5>2, RunFails DEF ErrorClasses
      <4>2. CASE conn # l
        <5>1. NoTrace(n)
          BY <1>0, <1>2, <1>3, <4>2 DEF Attempt
        <5>2. NoTrace(n)'
          BY <1>1, <1>3, <2>1, <5>1, RunFails DEF ErrorClasses
        <5> QED BY <5>2 DEF NoTrace, Doomed
      <4> QED BY <4>1, <4>2
    <3>2. durable'[req'[l].n] = 0 /\ (db'.work[req'[l].n] = 0 \/ db'.mode = "aborted")
      BY <1>0, <1>2, <3>1 DEF Doomed
    <3>3. Attempt(l)'
      BY <1>2, <1>8, <2>1, <3>2 DEF Attempt, Doomed
    <3> QED BY <1>0, <1>2, <1>3, <1>4, <1>5, <1>8, <3>3, LaneMoves
  <2>2. CASE pc'[l] = "idle" /\ at'[l] = 1
    <3>1. Attempt(l)'
      BY <1>2, <1>8, <2>2, RequestEnds
    <3> QED BY <1>0, <1>2, <1>3, <1>4, <1>5, <1>8, <3>1, LaneMoves
  <2> QED BY <1>3, <1>8, <2>1, <2>2 DEF Fail, Answer, Goto, TypeOK
<1> QED BY <1>1, <1>6, <1>7, <1>8

\* The ROLLBACK of the recovery: it drops what is pending, or nothing is.
LEMMA RecoverStep == ASSUME AttemptInv, TypeOK', NEW l \in Lanes, Recover(l) PROVE AttemptInv'
<1>0. PICK n \in Calls : n = req[l].n
  <2>1. req[l].n \in 1 .. calls /\ calls \in 0 .. MaxCalls
    BY DEF Recover, AttemptInv, OwnNumbers, TypeOK
  <2> QED BY <2>1, CallsAssumption DEF Calls
<1>1. PICK e \in ErrorClasses \union {"none"} :
         /\ Run("rollback", n, e)
         /\ \/ e = "none" /\ Goto(l, "clear") /\ UNCHANGED <<at, tries>>
            \/ e # "none" /\ Retry(l)
  BY <1>0 DEF Recover, AutoRollback
<1>2. /\ pc[l] = "recover" /\ conn = NoLane /\ UNCHANGED <<req, calls, conn>> /\ NoLane # l
  BY LanesAssumption DEF Recover
<1>3. /\ TypeOK /\ WorkInTransaction /\ Doomed(n)
      /\ db \in Connection /\ NoWork[n] = 0
  BY <1>0, <1>2 DEF AttemptInv, Attempt, TypeOK, NoWork
<1>4. /\ WorkInTransaction'
      /\ \A k \in Calls \ {n} : (NoTrace(k) => NoTrace(k)') /\ (Doomed(k) => Doomed(k)')
  BY <1>1, <1>3, RunKeeps
<1>5. /\ pc'[l] \in {"clear", "op"} /\ (pc'[l] = "op" => at'[l] = 1)
      /\ \A m \in Lanes \ {l} : pc'[m] = pc[m] /\ at'[m] = at[m]
  BY <1>1, <1>3 DEF Goto, Retry, TypeOK
<1>6. durable'[n] = 0 /\ db'.work[n] = 0
  <2>1. CASE db.mode = "auto" /\ UNCHANGED <<db, durable>>
    BY <1>3, <2>1 DEF Doomed, WorkInTransaction
  <2>2. CASE Discard /\ UNCHANGED durable
    <3>1. db'.work = NoWork
      BY <1>3, <2>2 DEF Discard, Connection
    <3> QED BY <1>3, <2>2, <3>1 DEF Doomed
  <2> QED BY <1>1, <2>1, <2>2 DEF Run, RunRollback
<1>7. Attempt(l)'
  <2>1. durable'[req'[l].n] = 0 /\ db'.work[req'[l].n] = 0
    BY <1>0, <1>2, <1>6
  <2> QED BY <1>2, <1>5, <2>1 DEF Attempt, NoTrace
<1> QED BY <1>0, <1>2, <1>3, <1>4, <1>5, <1>7, LaneMoves

\* Between the engine calls a thread only reads and writes the tables of ids.
LEMMA TableStep ==
    ASSUME AttemptInv, TypeOK', NEW l \in Lanes,
           \/ CheckRegistered(l) \/ ClearIds(l) \/ MarkAborted(l)
           \/ Register(l) \/ Unregister(l)
    PROVE  AttemptInv'
<1>1. /\ UNCHANGED <<req, calls, conn, db, durable>>
      /\ pc[l] \in {"check", "clear", "mark", "register", "unregister"}
  BY DEF CheckRegistered, ClearIds, MarkAborted, Register, Unregister, engine
<1>2. /\ TypeOK /\ Attempt(l) /\ WorkInTransaction'
  BY <1>1 DEF AttemptInv, WorkInTransaction
<1>3. /\ \A m \in Lanes \ {l} : pc'[m] = pc[m] /\ at'[m] = at[m]
      /\ \/ pc'[l] = "idle" /\ at'[l] = 1
         \/ pc[l] = "check" /\ pc'[l] = "op" /\ at'[l] = at[l]
         \/ pc[l] = "clear" /\ pc'[l] = "mark"
         \/ pc[l] \in {"clear", "mark"} /\ pc'[l] = "op" /\ at'[l] = 1
  BY <1>2 DEF CheckRegistered, ClearIds, MarkAborted, Register, Unregister,
              Answer, Goto, Retry, TypeOK
<1>4. Attempt(l)'
  BY <1>1, <1>2, <1>3 DEF Attempt, NoTrace
<1> QED BY <1>1, <1>2, <1>3, <1>4, LaneMoves

\* Every step keeps what the second attempt relies on.
LEMMA AttemptStep == ASSUME RetriableTexts PROVE AttemptInv /\ [Next]_vars => AttemptInv'
<1> SUFFICES ASSUME AttemptInv, [Next]_vars PROVE AttemptInv'
  OBVIOUS
<1>0. TypeOK'
  BY TypeStep DEF AttemptInv
<1>1. ASSUME NEW l \in Lanes, execute_statement(l) PROVE AttemptInv'
  <2>1. PICK script \in Scripts : Receive(l, "statement", script, 0)
    BY <1>1 DEF execute_statement
  <2>2. AtomicText(script) /\ Goto(l, "op")
    BY <1>1 DEF RetriableTexts, execute_statement
  <2> QED BY <1>0, <2>1, <2>2, RequestArrives
<1>2. ASSUME NEW l \in Lanes, begin_transaction(l) PROVE AttemptInv'
  <2>1. AtomicText(<<"begin">>)
    BY DEF AtomicText
  <2> QED BY <1>0, <1>2, <2>1, RequestArrives DEF begin_transaction
<1>3. ASSUME NEW l \in Lanes, end_transaction(l) PROVE AttemptInv'
  <2>1. PICK kind \in {"commit", "rollback"}, id \in Issued : Receive(l, kind, <<kind>>, id)
    BY <1>3 DEF end_transaction
  <2>2. AtomicText(<<kind>>) /\ Goto(l, "check")
    BY <1>3 DEF AtomicText, end_transaction
  <2> QED BY <1>0, <2>1, <2>2, RequestArrives
<1>4. ASSUME NEW l \in Lanes, Continue(l) PROVE AttemptInv'
  BY <1>0, <1>4, ExecuteStep, RecoverStep, TableStep DEF Continue
<1>5. CASE UNCHANGED vars
  <2>1. UNCHANGED <<conn, db, durable, pc, req, at, calls>>
    BY <1>5 DEF vars, engine, lane
  <2> QED BY <1>0, <2>1 DEF AttemptInv, WorkInTransaction, OwnNumbers, Attempt, NoTrace, Doomed
<1> QED BY <1>1, <1>2, <1>3, <1>4, <1>5 DEF Next

\* Nothing is written before the first request.
LEMMA AttemptInit == Init => AttemptInv
<1> SUFFICES ASSUME Init PROVE AttemptInv
  OBVIOUS
<1>1. /\ conn = NoLane /\ calls = 0 /\ durable = NoWork
      /\ db = [mode |-> "auto", serial |-> 0, work |-> NoWork]
      /\ \A l \in Lanes : pc[l] = "idle" /\ at[l] = 1 /\ req[l] = NoRequest
  BY DEF Init
<1>2. \A n \in Calls : NoTrace(n)
  BY <1>1 DEF NoTrace, NoWork
<1>3. WorkInTransaction /\ OwnNumbers
  BY <1>1, <1>2 DEF WorkInTransaction, OwnNumbers, NoTrace
<1>4. ASSUME NEW l \in Lanes PROVE AtomicText(req[l].script) /\ Attempt(l)
  <2>1. req[l].script = <<"write">> /\ conn # l
    BY <1>1, LanesAssumption DEF NoRequest
  <2> QED BY <1>1, <2>1 DEF AtomicText, Attempt
<1> QED BY <1>3, <1>4, TypeInit DEF AttemptInv

\* with_transaction_recovery: the second attempt of a text of one command, or of one that
\* wraps its writes in a transaction, finds nothing of the first, whatever the other
\* requests of the session did to the connection in between.
THEOREM SecondAttemptIsFirst == ASSUME RetriableTexts PROVE Spec => []RetryStartsClean
<1>1. AttemptInv => RetryStartsClean
  BY DEF AttemptInv, Attempt, NoTrace, RetryStartsClean
<1>2. AttemptInv /\ [Next]_vars => AttemptInv'
  BY AttemptStep
<1> QED BY <1>1, <1>2, AttemptInit, PTL DEF Spec
================================================================================
