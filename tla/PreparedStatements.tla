------------------------- MODULE PreparedStatements -------------------------
(***************************************************************************)
(* The prepared statements of one session and its cache of query schemas   *)
(* (session/mod.rs), as the Flight SQL handlers use them for the clients   *)
(* that share the session (handlers/prepared.rs, handlers/statement.rs,    *)
(* service/execute.rs).                                                    *)
(*                                                                         *)
(* Every client is a lane that carries one request at a time.  A step is   *)
(* one critical section: a lookup or update under the mutex of the map of  *)
(* prepared statements or of the schema cache, or one statement executed   *)
(* under the connection's mutex.  Between two steps of a lane anything the *)
(* other lanes do may happen, exactly as between two lock acquisitions of  *)
(* the code.  The request gate, transactions and cancellation are modelled *)
(* in modules of their own.                                                *)
(***************************************************************************)
EXTENDS Naturals, FiniteSets, Sequences, SequencesExt

CONSTANTS
    Clients,            \* the concurrent requests of the session
    Sqls,               \* the statement texts the clients send
    Unparsed,           \* texts sqlparser rejects
    Queries,            \* texts with a statement that returns rows
    Multi,              \* texts of several statements
    Inserts,            \* texts whose last statement is INSERT INTO a table
    Prefixed,           \* texts that begin with CREATE, ALTER, DROP, ...
    Changing,           \* texts that change what a query's schema may be
    Capacity,           \* SCHEMA_CACHE_CAPACITY
    MaxHandles,         \* bound: statements created
    MaxBinds,           \* bound: parameter sets bound
    MaxChanges,         \* bound: changes of the catalog
    MaxSets,            \* bound: parameter sets of one DoPut
    NoSql               \* "no text"

ASSUME ShapeAssumption ==
    /\ Unparsed \subseteq Sqls /\ Queries \subseteq Sqls \ Unparsed
    /\ Multi \subseteq Sqls \ Unparsed
    /\ Inserts \subseteq Sqls \ Unparsed
    /\ Prefixed \subseteq Sqls /\ Changing \subseteq Sqls
    /\ NoSql \notin Sqls
ASSUME BoundsAssumption ==
    /\ Capacity \in Nat \ {0} /\ MaxHandles \in Nat /\ MaxBinds \in Nat
    /\ MaxChanges \in Nat /\ MaxSets \in Nat \ {0}

VARIABLES
    prepared,       \* handle -> what the session keeps of the statement
    last,           \* last_prepared_statement_handle, 0 when None
    made,           \* StatementHandleGenerator: handles given out
    entries,        \* the schema cache: text -> planned schema
    order,          \*   and its keys, the least recently used first
    lane,           \* client -> its request
    catalog,        \* version of the catalog, as DuckDB holds it
    silent,         \* the catalog changed on a path that clears no cache
    told,           \* <<handle, text>>: what clients know of their handles
    binds           \* parameter set -> [to: handle, ran: who executed it]

vars == <<prepared, last, made, entries, order, lane, catalog, silent, told, binds>>

Handles == 1..MaxHandles
None == 0                       \* no handle, no parameters, no schema
Schemas == 0..(MaxChanges + 1)  \* a schema planned at catalog version v is v + 1

Idle == [pc |-> "idle", cmd |-> "none", handle |-> None, sql |-> NoSql,
         named |-> NoSql, query |-> FALSE, eph |-> FALSE, params |-> None,
         schema |-> None, sets |-> 0]

Init ==
    /\ prepared = <<>> /\ last = None /\ made = 0
    /\ entries = <<>> /\ order = <<>>
    /\ lane = [c \in Clients |-> Idle]
    /\ catalog = 0 /\ silent = FALSE
    /\ told = {} /\ binds = <<>>

At(c, pc) == lane[c].pc = pc
\* The request of c becomes l at step pc / is answered, with an error or not.
\* An operator with a parameter l is a critical section of the request l, which
\* is lane[c], or begins with it: nothing before it is seen by the others.
Goto(c, l, pc) == lane' = [lane EXCEPT ![c] = [l EXCEPT !.pc = pc]]
Answer(c) == lane' = [lane EXCEPT ![c] = Idle]
(***************************************************************************)
(* What the session keeps: each operator is one critical section.          *)
(***************************************************************************)
StatementVars == <<prepared, last, made>>
CacheVars == <<entries, order>>
GhostVars == <<told, binds>>

\* (mutant: the smallest handle that is free)
ReusedHandle == CHOOSE h \in Handles \ DOMAIN prepared :
                  \A g \in Handles \ DOMAIN prepared : h <= g

NextHandle == made + 1

\* create_prepared_statement.  (The code draws the number before it takes the
\* lock; a number is new either way, and nothing else is read of it.)
Register(sql, isQuery, schema, ephemeral) ==
    /\ made < MaxHandles
    /\ made' = made + 1
    /\ prepared' = [h \in DOMAIN prepared \cup {NextHandle} |->
                      IF h = NextHandle
                      THEN [sql |-> sql, query |-> isQuery, schema |-> schema,
                            eph |-> ephemeral, params |-> None]
                      ELSE prepared[h]]
    /\ last' = NextHandle

\* (mutant: the last handle is left as it is)
RemoveOnly(h) ==
    /\ prepared' = [g \in DOMAIN prepared \ {h} |-> prepared[g]]
    /\ UNCHANGED <<last, made>>

\* close_prepared_statement of a handle that is there
Forget(h) ==
    /\ prepared' = [g \in DOMAIN prepared \ {h} |-> prepared[g]]
    /\ last' = IF last = h THEN None ELSE last
    /\ UNCHANGED made

\* touch_key: the key is taken out of the order, wherever it is, and put at its end
Touched(key) ==
    Append(FlattenSeq([i \in DOMAIN order |-> IF order[i] = key THEN <<>> ELSE <<order[i]>>]),
           key)

\* SchemaCache::insert: at most one key is over the capacity, the oldest goes
Cache(key, schema) ==
    LET keys == DOMAIN entries \cup {key}
        full == Cardinality(keys) > Capacity
        gone == IF full THEN {Head(Touched(key))} ELSE {}
    IN  /\ entries' = [k \in keys \ gone |->
                         IF k = key THEN [schema |-> schema, late |-> schema # catalog + 1]
                         ELSE entries[k]]
        /\ order' = IF full THEN Tail(Touched(key)) ELSE Touched(key)

\* (mutant: only a text of one statement is recognised)
InvalidatesSingle(sql) == sql \in Prefixed \ Multi

should_invalidate_schema_cache(sql) == sql \in Prefixed

(***************************************************************************)
(* schema_for_query: the cache is read, the plan is made without its lock, *)
(* and the result is put there under the lock again.                       *)
(***************************************************************************)
AfterSchema(cmd) == CASE cmd = "create" -> "register"
                      [] cmd = "flight info" -> "remember"
                      [] cmd = "info" -> "done"

Planned(c, l, schema) ==
    IF AfterSchema(l.cmd) = "done" THEN Answer(c)
    ELSE Goto(c, [l EXCEPT !.schema = schema], AfterSchema(l.cmd))

schema_cache_get(c, l) ==
    /\ IF l.sql \in DOMAIN entries
       THEN Planned(c, l, entries[l.sql].schema) /\ order' = Touched(l.sql)
       ELSE Goto(c, l, "plan") /\ UNCHANGED order
    /\ UNCHANGED <<StatementVars, entries, GhostVars, catalog, silent>>

schema_for_query(c) ==
    /\ At(c, "plan")
    /\ Goto(c, [lane[c] EXCEPT !.schema = catalog + 1], "insert")
    /\ UNCHANGED <<StatementVars, CacheVars, GhostVars, catalog, silent>>

schema_cache_insert(c) ==
    /\ At(c, "insert")
    /\ Cache(lane[c].sql, lane[c].schema)
    /\ Planned(c, lane[c], lane[c].schema)
    /\ UNCHANGED <<StatementVars, GhostVars, catalog, silent>>

cache_prepared_statement_schema(c) ==
    /\ At(c, "remember")
    /\ prepared' = IF lane[c].handle \in DOMAIN prepared
                   THEN [prepared EXCEPT ![lane[c].handle].schema = lane[c].schema]
                   ELSE prepared
    /\ Answer(c)
    /\ UNCHANGED <<last, made, CacheVars, GhostVars, catalog, silent>>

(***************************************************************************)
(* Executions.                                                             *)
(***************************************************************************)
\* The execution of l consumes the parameters it took.
Consumed(l) == IF l.params = None THEN binds
               ELSE [binds EXCEPT ![l.params].ran = Append(@, l.handle)]

\* Executing s changes the catalog or not; the change is silent when the path
\* taken does not clear the cache.
Effect(s, clears) ==
    IF s \in Changing
    THEN /\ catalog < MaxChanges
         /\ catalog' = catalog + 1
         /\ silent' = (silent \/ ~clears)
    ELSE UNCHANGED <<catalog, silent>>

\* execute_query_streaming
execute_query_streaming(c, l) ==
    /\ l.query
    /\ Effect(l.sql, FALSE)
    /\ binds' = Consumed(l)
    /\ Answer(c)
    /\ UNCHANGED <<StatementVars, CacheVars, told>>

\* execute_statement and one round of execute_statement_batches
execute_statement(c, l) ==
    LET clears == should_invalidate_schema_cache(l.sql)
        more == l.sets > 1
        rest == [l EXCEPT !.params = None, !.sets = IF more THEN @ - 1 ELSE 0]
    IN  /\ ~l.query
        /\ Effect(l.sql, l.sql \in Prefixed)
        /\ binds' = Consumed(l)
        /\ IF clears THEN Goto(c, rest, "clear")
           ELSE IF more THEN Goto(c, rest, "run") ELSE Answer(c)
        /\ UNCHANGED <<StatementVars, CacheVars, told>>

\* DuckDB refuses.  A text of several statements may have changed the catalog by
\* then; nothing is cleared.
execution_fails(c, l) ==
    /\ \/ UNCHANGED <<catalog, silent>>
       \/ l.sql \in Multi \cap Changing /\ Effect(l.sql, FALSE)
    /\ binds' = Consumed(l)
    /\ Answer(c)
    /\ UNCHANGED <<StatementVars, CacheVars, told>>

Execute(c, l) == \/ execute_query_streaming(c, l)
                 \/ execute_statement(c, l)
                 \/ execution_fails(c, l)

clear_schema_cache(c) ==
    /\ At(c, "clear")
    /\ entries' = <<>> /\ order' = <<>>
    /\ IF lane[c].sets = 0 THEN Answer(c) ELSE Goto(c, lane[c], "run")
    /\ UNCHANGED <<StatementVars, GhostVars, catalog, silent>>

\* insert_with_appender: the batches of the DoPut go to the table, whose schema
\* was read before; the text of the statement is not executed.
insert_with_appender(c) ==
    /\ At(c, "append")
    /\ Answer(c)
    /\ UNCHANGED <<StatementVars, CacheVars, GhostVars, catalog, silent>>

\* A plan, the parameter count or the appender fails.
Fail(c) ==
    /\ lane[c].pc \in {"plan", "register", "append"}
    /\ Answer(c)
    /\ UNCHANGED <<StatementVars, CacheVars, GhostVars, catalog, silent>>

(***************************************************************************)
(* Steps of the requests that use a handle.                                *)
(***************************************************************************)
BindsLeft == Len(binds) + Cardinality({c \in Clients : At(c, "bind")}) < MaxBinds

\* Where a handler goes with the statement m it found.
AfterMeta(cmd, m) ==
    CASE cmd \in {"get", "ticket"} -> {"take"}
      [] cmd = "flight info" -> {IF m.query /\ m.schema = None THEN "lookup" ELSE "done"}
      [] cmd = "bind" -> {"done"} \cup {pc \in {"bind"} : BindsLeft}
      [] cmd = "put" -> IF m.query THEN {"done"}
                        ELSE IF m.sql \in Inserts THEN {"run", "append"} ELSE {"run"}

get_prepared_statement_meta(c, l) ==
    /\ IF l.handle \notin DOMAIN prepared THEN Answer(c)
       ELSE LET m == prepared[l.handle]
            IN \E pc \in AfterMeta(l.cmd, m) :
                 IF pc = "done" THEN Answer(c)
                 ELSE \E n \in IF pc = "run" THEN 0..MaxSets ELSE {0} :
                        Goto(c, [l EXCEPT !.sql = m.sql, !.query = m.query,
                                          !.eph = m.eph, !.sets = n], pc)
    /\ UNCHANGED <<StatementVars, CacheVars, GhostVars, catalog, silent>>

\* set_prepared_statement_parameters: the first set of the DoPut, no other
set_prepared_statement_parameters(c) ==
    /\ At(c, "bind")
    /\ IF lane[c].handle \in DOMAIN prepared
       THEN /\ prepared' = [prepared EXCEPT ![lane[c].handle].params = Len(binds) + 1]
            /\ binds' = Append(binds, [to |-> lane[c].handle, ran |-> <<>>])
       ELSE UNCHANGED <<prepared, binds>>
    /\ Answer(c)
    /\ UNCHANGED <<last, made, CacheVars, catalog, silent, told>>

\* (mutant: the parameters are copied, not taken)
PeekParameters(c) ==
    LET h == lane[c].handle IN
    /\ At(c, "take")
    /\ IF h \in DOMAIN prepared
       THEN Goto(c, [lane[c] EXCEPT !.params = prepared[h].params],
                 IF lane[c].eph THEN "close" ELSE "run")
       ELSE Answer(c)
    /\ UNCHANGED <<StatementVars, CacheVars, GhostVars, catalog, silent>>

\* take_prepared_statement_parameters
take_prepared_statement_parameters(c) ==
    LET h == lane[c].handle IN
    /\ At(c, "take")
    /\ IF h \in DOMAIN prepared
       THEN /\ prepared' = [prepared EXCEPT ![h].params = None]
            /\ Goto(c, [lane[c] EXCEPT !.params = prepared[h].params],
                    IF lane[c].eph THEN "close" ELSE "run")
       ELSE Answer(c) /\ UNCHANGED prepared
    /\ UNCHANGED <<last, made, CacheVars, GhostVars, catalog, silent>>

\* (mutant: only the session's last statement is closed)
CloseIfLast(c) ==
    /\ At(c, "close")
    /\ IF lane[c].handle \in DOMAIN prepared /\ lane[c].handle = last THEN Forget(lane[c].handle)
       ELSE UNCHANGED StatementVars
    /\ Goto(c, lane[c], "run")
    /\ UNCHANGED <<CacheVars, GhostVars, catalog, silent>>

\* An ephemeral statement is closed before it is executed; a failure is logged.
close_prepared_statement(c) ==
    /\ At(c, "close")
    /\ IF lane[c].handle \in DOMAIN prepared THEN Forget(lane[c].handle)
       ELSE UNCHANGED StatementVars
    /\ Goto(c, lane[c], "run")
    /\ UNCHANGED <<CacheVars, GhostVars, catalog, silent>>

\* create_prepared_statement: the end of CreatePreparedStatement (the number of
\* parameters has been asked for), and the beginning of an ephemeral statement
create_prepared_statement(c, l) ==
    /\ Register(l.sql, l.query, l.schema, l.eph)
    /\ IF l.eph
       THEN Goto(c, [l EXCEPT !.handle = NextHandle], "meta") /\ UNCHANGED told
       ELSE Answer(c) /\ told' = told \cup {<<NextHandle, l.sql>>}
    /\ UNCHANGED <<CacheVars, catalog, silent, binds>>

(***************************************************************************)
(* The requests.  Each begins with its first critical section.             *)
(***************************************************************************)
\* CreatePreparedStatement: the schema first when the text is one query.
do_action_create_prepared_statement(c, s) ==
    LET l == [Idle EXCEPT !.cmd = "create", !.sql = s, !.query = s \in Queries] IN
    IF s \in Queries \ Multi THEN schema_cache_get(c, l)
    ELSE create_prepared_statement(c, l)

\* GetFlightInfo of a text: a schema is planned for a single query, and tried
\* for a text the parser does not know; otherwise nothing of the session moves.
get_flight_info_statement(c, s) ==
    /\ s \in (Queries \ Multi) \cup Unparsed
    /\ schema_cache_get(c, [Idle EXCEPT !.cmd = "info", !.sql = s])

\* DoPut of a text: execute_statement, whatever the text is.
do_put_statement_update(c, s) == Execute(c, [Idle EXCEPT !.cmd = "update", !.sql = s])

\* DoGet of a ticket that carries a text: an ephemeral statement when the
\* ticket says that it returns rows, otherwise execute_statement.  The ticket's
\* flag is the one get_flight_info_statement put there.
TicketRows(s) == IF s \in Unparsed THEN BOOLEAN ELSE {s \in Queries}

execute_ephemeral_ticket_statement(c, s) ==
    \E rows \in TicketRows(s) :
        LET l == [Idle EXCEPT !.cmd = "ticket", !.sql = s, !.query = rows, !.eph = rows]
        IN  IF rows THEN create_prepared_statement(c, l) ELSE Execute(c, l)

\* A request that names a handle: one the client was given, with the text it
\* was given for, or none, which means the session's last one.  "get" is DoGet
\* of the handle and of a ticket with the handle.
HandleCommands == {"flight info", "get", "bind", "put"}

last_prepared_statement_handle(c, l) ==
    /\ last # None
    /\ Goto(c, [l EXCEPT !.handle = last], "meta")
    /\ UNCHANGED <<StatementVars, CacheVars, GhostVars, catalog, silent>>

resolve_session_and_meta(c, cmd, n) ==
    LET l == [Idle EXCEPT !.cmd = cmd, !.handle = n[1],
                          !.named = IF cmd \in {"get", "put"} THEN n[2] ELSE NoSql] IN
    IF n[1] = None THEN last_prepared_statement_handle(c, l)
    ELSE get_prepared_statement_meta(c, l)

\* ClosePreparedStatement
do_action_close_prepared_statement(c, n) ==
    /\ n[1] \in DOMAIN prepared
    /\ Forget(n[1])
    /\ UNCHANGED <<lane, CacheVars, GhostVars, catalog, silent>>

Request(c) ==
    \/ \E s \in Sqls : \/ do_action_create_prepared_statement(c, s)
                       \/ get_flight_info_statement(c, s)
                       \/ do_put_statement_update(c, s)
                       \/ execute_ephemeral_ticket_statement(c, s)
    \/ \E n \in told \cup {<<None, NoSql>>} : \E cmd \in HandleCommands :
          resolve_session_and_meta(c, cmd, n)
    \/ \E n \in told : do_action_close_prepared_statement(c, n)

Step(c) ==
    \/ At(c, "meta") /\ get_prepared_statement_meta(c, lane[c])
    \/ set_prepared_statement_parameters(c)
    \/ take_prepared_statement_parameters(c)
    \/ close_prepared_statement(c)
    \/ At(c, "register") /\ create_prepared_statement(c, lane[c])
    \/ At(c, "lookup") /\ schema_cache_get(c, lane[c])
    \/ schema_for_query(c)
    \/ schema_cache_insert(c)
    \/ cache_prepared_statement_schema(c)
    \/ At(c, "run") /\ Execute(c, lane[c])
    \/ clear_schema_cache(c)
    \/ insert_with_appender(c)
    \/ Fail(c)

Next == \E c \in Clients : (At(c, "idle") /\ Request(c)) \/ Step(c)

Spec == Init /\ [][Next]_vars

(***************************************************************************)
(* Properties.                                                             *)
(***************************************************************************)
Pcs == {"idle", "meta", "bind", "take", "close", "register", "lookup", "plan",
        "insert", "remember", "run", "clear", "append"}

\* Type invariant.
TypeOK ==
    /\ made \in 0..MaxHandles
    /\ DOMAIN prepared \subseteq 1..made
    /\ \A h \in DOMAIN prepared :
         prepared[h] \in [sql : Sqls, query : BOOLEAN, schema : Schemas,
                          eph : BOOLEAN, params : 0..Len(binds)]
    /\ last \in 0..made
    /\ DOMAIN entries \subseteq Sqls
    /\ order \in Seq(Sqls)
    /\ lane \in [Clients -> [pc : Pcs, cmd : HandleCommands
                              \cup {"none", "create", "info", "update", "ticket"},
                            handle : 0..made, sql : Sqls \cup {NoSql},
                            named : Sqls \cup {NoSql}, query : BOOLEAN, eph : BOOLEAN,
                            params : 0..Len(binds), schema : Schemas, sets : 0..MaxSets]]
    /\ catalog \in 0..MaxChanges /\ silent \in BOOLEAN
    /\ told \subseteq (1..made) \X Sqls

\* The empty handle of a request stands for the session's last statement: what
\* it stands for is a statement that is still there, whoever closes which
\* statement in between (prepared.rs:38; two mutexes, taken one inside the
\* other).
LastHandleLives == last # None => last \in DOMAIN prepared

\* An ephemeral statement stays in the session's map no longer than the request
\* that made it needs to close it: neither an error on the way nor another
\* client that reaches it through the empty handle leaves one behind.
NoEphemeralLeak ==
    \A h \in DOMAIN prepared : prepared[h].eph =>
        \E c \in Clients : lane[c].handle = h /\ lane[c].eph
                           /\ lane[c].pc \in {"meta", "take", "close"}

\* A parameter set a client binds is used by one execution at most, and by an
\* execution of the statement it was bound to, however many clients execute the
\* statement at once.
BoundOnce ==
    \A p \in 1..Len(binds) :
        binds[p].ran = <<>> \/ binds[p].ran = <<binds[p].to>>

\* A request that names a handle executes the text the client prepared under
\* that handle, and nothing else, also when the statement has been closed and
\* others were made meanwhile.
RunsWhatItNames ==
    \A c \in Clients :
        (lane[c].named # NoSql /\ lane[c].pc \in {"take", "close", "run", "append", "clear"})
           => lane[c].sql = lane[c].named

\* A cached schema is the one DuckDB has now, when all changes of the catalog
\* came from the session's own statements on the paths that clear the cache:
\* unless the change's request is still about to clear, or the schema was planned
\* while the change was made and cached after the clearing (session/mod.rs:743).
FreshUnlessOverlapped ==
    (~silent /\ \A c \in Clients : ~At(c, "clear")) =>
        \A s \in DOMAIN entries : entries[s].late \/ entries[s].schema = catalog + 1
=============================================================================
