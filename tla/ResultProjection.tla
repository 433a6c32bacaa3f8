--------------------------- MODULE ResultProjection ---------------------------
(***************************************************************************)
(* The query the server runs instead of one whose result has VARIANT       *)
(* columns, and the schema it announces for it before the first row        *)
(* (swanlake-core/src/engine/result_projection.rs).  A column is its name  *)
(* and its type; a query is the columns DESCRIBE tells of it and its rows. *)
(***************************************************************************)
EXTENDS Integers, Sequences, SequencesExt

QueryStarts == {"SELECT", "FROM", "WITH", "VALUES", "TABLE", "PIVOT", "UNPIVOT", "("}
NoQuery == <<"none">>

\* The text as its significant tokens: trailing semicolons are dropped, a batch
\* and a command are left alone.
query_body(tokens) ==
  LET body == SubSeq(tokens, 1, Max({0} \union {i \in DOMAIN tokens : tokens[i] # ";"}))
  IN  IF body # <<>> /\ ~ Contains(body, ";") /\ Head(body) \in QueryStarts THEN body ELSE NoQuery

\* VARIANT, on its own or inside a list or a struct.
contains_variant(type) == type \in {"VARIANT", "VARIANT[]", "STRUCT(v VARIANT)"}
exported_type(type) == IF contains_variant(type) THEN "JSON" ELSE type

\* Casting a NULL variant would give JSON's null; SQL's NULL is retained.
Exported(type, value) ==
  IF contains_variant(type) /\ value # "NULL" THEN <<"json", value>> ELSE <<"sql", value>>

\* Mutant: sources are found by their output name.
SourceByName(columns, i) == SelectInSeq(columns, LAMBDA c : c.name = columns[i].name)

\* project_columns(): the sources are named by position in the subquery, so
\* output names may repeat.
source_of(columns, i) == i

project_columns(columns) ==
  [i \in DOMAIN columns |-> [from |-> source_of(columns, i), name |-> columns[i].name]]

empty_schema_query(columns) ==
  [i \in DOMAIN columns |-> [name |-> columns[i].name, type |-> exported_type(columns[i].type)]]

\* What a request gets for a query: the schema announced early and the rows of
\* the projection; a text that is no single query, or that DESCRIBE cannot bind
\* (columns = <<>>), runs as it is.  Probed tells that DESCRIBE was asked.
for_streaming_query(tokens, columns, rows) ==
  LET probed == query_body(tokens) # NoQuery
      run == project_columns(columns)
      cell(row, i) == Exported(columns[run[i].from].type, row[run[i].from])
  IN  IF ~probed \/ columns = <<>> THEN [probed |-> probed, schema |-> <<>>, rows |-> <<>>, asis |-> TRUE]
      ELSE [probed |-> TRUE, asis |-> FALSE, schema |-> empty_schema_query(columns),
            rows |-> [r \in DOMAIN rows |-> [i \in DOMAIN run |-> [name |-> run[i].name,
                                                                   value |-> cell(rows[r], i)]]]]
=============================================================================
