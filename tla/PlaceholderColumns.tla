------------------------- MODULE PlaceholderColumns -------------------------
(***************************************************************************)
(* Which column each placeholder of a prepared statement is for: the       *)
(* collection from the parsed statement (swanlake-core/src/sql/parser.rs)  *)
(* and the parameter schema a client is told                               *)
(* (swanlake-core/src/service/handlers/prepared.rs).  An expression is a   *)
(* record with its class, a name and its children; a table's columns are   *)
(* its names in lower case, and Fold is what lower-casing makes of a name. *)
(***************************************************************************)
EXTENDS Integers, Sequences, SequencesExt

Node(class, name, children) == [class |-> class, name |-> name, children |-> children]
Ident(name) == Node("Identifier", name, <<>>)
Placeholder == Node("Placeholder", "", <<>>)
Literal == Node("Literal", "", <<>>)

\* Option::None as an entry of a list of columns, and as a whole answer.
NoColumn == ""
NoAnswer == <<"none">>

column_name(e) == IF e.class = "Identifier" THEN e.name ELSE NoColumn

\* The placeholders below e, each for the given column.  Only the bounds of a
\* BETWEEN and the list of an IN are searched, never their operand.
RECURSIVE collect_placeholders_with_column(_, _)
collect_placeholders_with_column(e, column) ==
  LET below(from) == FlattenSeq([i \in 1..(Len(e.children) - from + 1) |->
                       collect_placeholders_with_column(e.children[from + i - 1], column)])
  IN  CASE e.class = "Placeholder" -> <<column>>
        [] e.class \in {"Nested", "Cast", "BinaryOp"} -> below(1)
        [] e.class \in {"Between", "InList"} -> below(2)
        [] OTHER -> <<>>

RECURSIVE collect_params_from_expr(_)
collect_params_from_expr(e) ==
  LET each == FlattenSeq([i \in DOMAIN e.children |-> collect_params_from_expr(e.children[i])])
      column(i) == column_name(e.children[i])
      given(i, c) == IF c = NoColumn THEN <<>>
                     ELSE collect_placeholders_with_column(e.children[i], c)
  IN  CASE e.class = "BinaryOp" ->
             IF given(2, column(1)) # <<>> THEN given(2, column(1))
             ELSE IF given(1, column(2)) # <<>> THEN given(1, column(2))
             ELSE each
        [] e.class \in {"Between", "InList"} ->
             IF column(1) = NoColumn THEN each
             ELSE FlattenSeq([i \in 1..(Len(e.children) - 1) |-> given(i + 1, column(1))])
        [] e.class \in {"Nested", "Cast"} -> each
        [] e.class = "Placeholder" -> <<NoColumn>>
        [] OTHER -> <<>>

\* A statement: its kind, the placeholders of its parts that are not searched
\* (outside), the assignments of an UPDATE, its WHERE clause, and for an INSERT
\* the listed columns (<<>> for none), whether its VALUES are all
\* placeholders (plain) and their shape.
parameter_columns(s) ==
  LET assigned == FlattenSeq([i \in DOMAIN s.assignments |->
                    collect_placeholders_with_column(s.assignments[i].value, s.assignments[i].column)])
      columns == (IF s.kind = "update" THEN assigned ELSE <<>>) \o collect_params_from_expr(s.where)
  IN  IF NoColumn \in {columns[i] : i \in DOMAIN columns} THEN NoAnswer ELSE columns

find_field(table, Fold, name) == \E i \in DOMAIN table : table[i] = Fold[name]

\* Mutant: the columns found are not counted against the parameters.
InferUncounted(s, table, Fold, param_count) ==
  LET columns == parameter_columns(s)
  IN  IF s.kind = "insert" \/ param_count = 0 \/ columns = NoAnswer THEN NoAnswer
      ELSE SelectSeq(columns, LAMBDA n : find_field(table, Fold, n))

\* infer_parameter_schema() for a statement over a known table, with the
\* number of parameters DuckDB counts; a field is told by its column's name.
infer_parameter_schema(s, table, Fold, param_count) ==
  LET found(names) == SelectSeq(names, LAMBDA n : find_field(table, Fold, n))
      target == IF s.columns = <<>> THEN table ELSE found(s.columns)
      repeated(n) == [i \in 1..n |-> target[((i - 1) % Len(target)) + 1]]
      columns == parameter_columns(s)
  IN  IF param_count = 0 THEN NoAnswer
      ELSE IF s.kind = "insert"
      THEN IF ~s.plain \/ s.rows * s.width # param_count \/ Len(target) < Len(s.columns)
           THEN NoAnswer
           ELSE repeated(s.rows * s.width)
      ELSE IF columns = NoAnswer \/ Len(found(columns)) # param_count THEN NoAnswer
      ELSE found(columns)

-----------------------------------------------------------------------------
(* Reference: the placeholders in text order, each with the columns of the    *)
(* comparison, range or list it stands in.                                    *)

RECURSIVE Around(_, _)
Around(e, names) ==
  LET own == {column_name(e.children[i]) : i \in DOMAIN e.children} \ {NoColumn}
      inner == IF e.name \in {"AND", "OR"} THEN {} ELSE names \union own
  IN  IF e.class = "Placeholder" THEN <<names>>
      ELSE FlattenSeq([i \in DOMAIN e.children |-> Around(e.children[i], inner)])

PlaceholdersOf(s) ==
  FlattenSeq([i \in DOMAIN s.assignments |-> Around(s.assignments[i].value, {s.assignments[i].column})])
    \o Around(s.where, {})
=============================================================================
