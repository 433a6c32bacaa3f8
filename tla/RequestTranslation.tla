-------------------------- MODULE RequestTranslation --------------------------
(***************************************************************************)
(* The requests that carry rows in or out and touch no state two of them   *)
(* could share: a request arrives and its handler answers.  The            *)
(* translations are the operators of the modules this one extends; the     *)
(* properties compare each with a reference definition of what the client  *)
(* asked for.                                                              *)
(***************************************************************************)
EXTENDS FilterPushdown, InsertBatches, ResultProjection

\* The requests of each kind: scans, prepared INSERTs and queries.
CONSTANTS ScanRequests, InsertRequests, ReadRequests

\* DuckDB has no table without columns, and no two columns of a table, and of an
\* INSERT's list, have one name.
ASSUME RequestsAssumption ==
  /\ \A r \in ScanRequests :
       /\ r.handler = "scan" /\ r.descriptor \in {"path", "cmd"}
       /\ r.filters \in Seq(Trees[MaxDepth])
  /\ \A r \in InsertRequests :
       /\ r.handler = "insert"
       /\ r.table \in Seq(STRING) \ {<<>>} /\ IsInjective(r.table)
       /\ r.columns \in Seq(STRING) /\ IsInjective(r.columns)
       /\ r.batches \in Seq(Batches)
  /\ \A r \in ReadRequests : r.handler = "read"

VARIABLES request, answer, answered

trVars == <<request, answer, answered>>

\* scan:      the descriptor's kind and the filters
\* insert:    the batches, the table's columns and the listed ones
\* read:      the tokens of the text, its columns and its rows
TrInit ==
  /\ answer = <<>> /\ answered = FALSE
  /\ \/ \E r \in ScanRequests : request = r
     \/ \E r \in InsertRequests : request = r
     \/ \E r \in ReadRequests : request = r

Handle(kind, result) ==
  /\ ~answered /\ request.handler = kind
  /\ answer' = result
  /\ answered' = TRUE
  /\ UNCHANGED request

do_action_endpoints == Handle("scan", endpoint_query(request.descriptor, request.filters))
do_put_prepared_statement_update ==
  Handle("insert", insert_batches(request.batches, request.table, request.columns))
execute_read == Handle("read", for_streaming_query(request.tokens, request.columns, request.rows))

TrNext == do_action_endpoints \/ do_put_prepared_statement_update \/ execute_read

\* A request of another kind: its handler may do what it likes with the answer.
Elsewhere == request.handler \notin {"scan", "insert", "read"}

TrSpec == (Elsewhere \/ TrInit) /\ [][TrNext \/ (Elsewhere /\ UNCHANGED request)]_trVars

Answered(kind) == answered /\ request.handler = kind

-----------------------------------------------------------------------------
(* Safety properties                                                         *)

\* A scan with pushed-down filters delivers every row the filters select: DuckDB
\* applies them again to what it is sent, so a row left out is lost.  Where
\* everything was translated the clause selects exactly those rows
\* (action.rs expression_to_sql).  Filters in which something was dropped or a
\* cast stripped where this makes the condition stronger are left out.
PushdownKeepsRows ==
  Answered("scan") /\ (\A i \in DOMAIN request.filters : OnlyWeakened[request.filters[i]]) =>
    \A row \in [x : {Null, 0, 1, 2}, u : {Null, 0, 1}] :
      LET wanted == \A i \in DOMAIN request.filters : Selects(request.filters[i], row)
      IN  /\ wanted => Selects(answer.where, row)
          /\ request.descriptor = "path" /\ (\A i \in DOMAIN request.filters : Complete[request.filters[i]])
               => (Selects(answer.where, row) <=> wanted)

\* The batch is empty, or has a value for every listed column of the table, by
\* number or by name, or is several rows sent as one; without a list its columns
\* are the table's.
Fits(batch, table, columns) ==
  IF columns = <<>> THEN Len(batch.names) = Len(table)
  ELSE /\ \A i \in DOMAIN columns : Contains(table, columns[i])
       /\ \/ batch = Batch(<<>>, <<>>)
          \/ /\ Len(batch.names) = Len(columns)
             /\ \/ has_positional_field_names(batch)
                \/ ToSet(batch.names) = {Word(columns[i]) : i \in DOMAIN columns}
          \/ /\ has_positional_field_names(batch)
             /\ Len(batch.rows) = 1 /\ Len(batch.names) % Len(columns) = 0

\* The values of a prepared INSERT's batches reach the rows and columns the
\* statement names, and every other column gets NULL (batch.rs
\* align_batch_to_table_schema), for batches that fit.
ValuesLand ==
  Answered("insert") /\ (\A b \in DOMAIN request.batches :
                           Fits(request.batches[b], request.table, request.columns))
  => answer = FlattenSeq([b \in DOMAIN request.batches |->
                            Meant(request.batches[b], request.table, request.columns)])

\* A query rewritten for its VARIANT columns returns the columns of the original
\* in their order, with their names even where these repeat, NULL still NULL, and
\* each value in the type the early schema announced: exactly those of a column
\* announced with another type than its own are converted; a batch is never
\* probed, as DESCRIBE would run its first statements (result_projection.rs).
ProjectionKeepsResult ==
  Answered("read") =>
    LET columns == request.columns
    IN  /\ answer.probed => ~ Contains(query_body(request.tokens), ";")
        /\ ~answer.asis =>
             /\ [i \in DOMAIN columns |-> columns[i].name] = [i \in DOMAIN columns |-> answer.schema[i].name]
             /\ \A r \in DOMAIN request.rows, i \in DOMAIN columns :
                  LET cell == answer.rows[r][i]
                  IN  /\ cell.name = columns[i].name
                      /\ cell.value[2] = request.rows[r][i]
                      /\ cell.value[1] = "json"
                            <=> (answer.schema[i].type # columns[i].type /\ request.rows[r][i] # "NULL")
=============================================================================
