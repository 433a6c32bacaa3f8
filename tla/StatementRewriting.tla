-------------------------- MODULE StatementRewriting --------------------------
(***************************************************************************)
(* The requests of RequestTranslation and those whose handler reads or     *)
(* rewrites the text of a statement: a client prepares a statement and is  *)
(* told its parameters' columns, or an ATTACH statement of the             *)
(* configuration is brought into the form that is executed.  The           *)
(* properties compare each answer with what the text itself says.          *)
(***************************************************************************)
EXTENDS RequestTranslation, PlaceholderColumns, AttachStatement

CONSTANTS Statements,    \* the requests that prepare a statement
          Attachments,   \* the requests that attach a database
          Lower          \* what lower-casing makes of the names in the statements

ASSUME StatementsAssumption ==
  /\ \A r \in Statements : r.handler = "prepare"
  /\ \A r \in Attachments : r.handler = "attach"

\* prepare:   the statement, the table's columns
\* attach:    the configured text, the one statement in it, the access mode
Init ==
  \/ TrInit
  \/ request \in Statements \union Attachments /\ answer = <<>> /\ answered = FALSE

\* The number of parameters DuckDB counts in a statement.
param_count(s) ==
  IF s.kind = "insert" THEN s.rows * s.width ELSE s.outside + Len(PlaceholdersOf(s))

do_action_create_prepared_statement ==
  Handle("prepare", infer_parameter_schema(request.statement, request.table, Lower,
                                           param_count(request.statement)))
do_action_duckvis_attach ==
  Handle("attach", normalize_attach(request.text, "name", request.read_only))

Next == TrNext \/ do_action_create_prepared_statement \/ do_action_duckvis_attach

Spec == Init /\ [][Next]_trVars

Ascii(token) == Garbled(token) = token

-----------------------------------------------------------------------------
(* Safety properties                                                         *)

\* A parameter schema a client is told names, for every placeholder in the order
\* of the text, a column of the comparison, range, list or assignment it stands
\* in, and for an INSERT the column the value is stored in
\* (parser.rs parameter_columns, prepared.rs infer_parameter_schema).
ColumnsInOrder ==
  Answered("prepare") /\ answer # NoAnswer =>
    LET s == request.statement
        listed == IF s.columns = <<>> THEN request.table ELSE s.columns
    IN  /\ Len(answer) = param_count(s)
        /\ \A i \in DOMAIN answer :
             IF s.kind = "insert" THEN answer[i] = listed[((i - 1) % s.width) + 1]
             ELSE answer[i] \in PlaceholdersOf(s)[i]

\* An attachment is opened under the given name at the configured path with the
\* configured options; who may not write gets exactly one READ_ONLY, without a
\* value, whatever the configuration said; and rewriting again changes nothing
\* (attach.rs normalize_attach).  Text beyond ASCII is left out: see Garbled.
NormalisedAttach ==
  Answered("attach") /\ answer # <<>> /\ (\A i \in DOMAIN request.text : Ascii(request.text[i])) =>
    LET asked == parse_attach(request.statement)
        given == parse_attach(answer)
        entries(options) == IF options = <<>> THEN <<>> ELSE Entries(Inner(options))
        others(options) == SelectSeq(entries(options), LAMBDA e : e # <<>> /\ Head(e) # "READ_ONLY")
    IN  /\ given.path = request.path
        /\ answer[6] = "name"
        /\ attach_data_path(answer) = attach_data_path(request.statement)
        /\ others(given.options) = others(asked.options)
        /\ IF request.read_only
           THEN SelectSeq(entries(given.options), LAMBDA e : Head(e) = "READ_ONLY") = <<<<"READ_ONLY">>>>
           ELSE given.options = asked.options
        /\ normalize_attach(answer, "name", request.read_only) = answer
=============================================================================
