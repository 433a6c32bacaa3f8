--------------------------- MODULE FilterPushdown ---------------------------
(***************************************************************************)
(* The filters DuckDB's Airport client sends with a table scan and the     *)
(* WHERE clause the server makes of them                                   *)
(* (swanlake-core/src/service/handlers/action.rs).  An expression is a     *)
(* record with its class, its type and its children; SQL text is           *)
(* represented by the expression DuckDB parses from it.  What the texts    *)
(* mean is a reference definition: SQL's three-valued logic over one       *)
(* nullable integer column.                                                *)
(***************************************************************************)
EXTENDS Integers, Sequences, SequencesExt

CONSTANTS MaxDepth,      \* bound: how deep the expressions are
          OtherTypes     \* functions the server does not know, operators it does not support
ASSUME DepthAssumption == MaxDepth \in Nat

\* DuckDBExpression and DuckDBValue; "Unknown" is any class of expression the
\* enumeration does not list, and every value is an integer.
Expr(class, type, children) == [class |-> class, type |-> type, value |-> 0, children |-> children]
Column == Expr("ColumnRef", "", <<>>)
Constant(v) == [class |-> "Constant", type |-> "", value |-> v, children |-> <<>>]
Unknown == Expr("Unknown", "", <<>>)

Classes == {"ColumnRef", "Constant", "Cast", "Comparison", "Between", "Conjunction",
            "Operator", "Function", "Unknown"}
Comparisons == {"=", "!=", "<", ">", "<=", ">="}
Lists == {"IN", "NOT_IN"}
Tests == {"IS_NULL", "IS_NOT_NULL"}
Patterns == {"like", "not_like", "ilike"}
Types == Comparisons \union Lists \union Tests \union Patterns
         \union {"", "NOT", "AND", "OR"} \union OtherTypes

\* Option::None: no SQL for the expression.
Untranslated == Expr("None", "", <<>>)

\* Texts that stand as an operand without parentheses, which the code adds to
\* conjunctions only.
Operand(e) ==
  \/ e.class \in {"ColumnRef", "Constant", "Cast", "Conjunction", "Unknown"}
  \/ e.class = "Function" /\ e.type \notin Patterns

\* The numbers of children DuckDB sends, and operands whose text is one.
WellFormed(e) ==
  LET n == Len(e.children)
      operands == \A i \in 1..n : Operand(e.children[i])
  IN  /\ e.class \in {"ColumnRef", "Constant", "Unknown"} => n = 0
      /\ e.class = "Cast" => n = 1 /\ operands
      /\ e.class = "Comparison" => n = 2 /\ operands
      /\ e.class = "Between" => n = 3 /\ operands
      /\ e.class = "Conjunction" => n > 0 /\ e.type \in {"AND", "OR"}
      /\ e.class = "Operator" => /\ e.type = "NOT" => n = 1
                                 /\ e.type \in Tests => n = 1 /\ operands
                                 /\ e.type \in Lists => n > 1 /\ operands
      /\ e.class = "Function" /\ e.type \in Patterns => n = 2 /\ operands
      /\ e.class # "Constant" => e.value = 0

\* The expressions of fewer than so many levels.
Over(Children) ==
  {e \in [class : Classes, type : Types, value : Int, children : Seq(Children)] : WellFormed(e)}
Trees[n \in 0..(MaxDepth + 1)] == IF n = 0 THEN {} ELSE Over(Trees[n - 1])
Exprs == Trees[MaxDepth + 1]

\* filter_map: those that were translated, in their order.
Known(sqls) ==
  FlattenSeq([i \in DOMAIN sqls |-> IF sqls[i] = Untranslated THEN <<>> ELSE <<sqls[i]>>])

Supported(e) ==
  /\ e.class = "Comparison" => e.type \in Comparisons
  /\ e.class = "Operator" => e.type \in Lists \union Tests \union {"NOT"}

\* expression_to_sql() of an expression, given that of its children.
sql_of(e, sqls) ==
  LET known == Known(sqls)
      when(ok, args) == IF ok THEN Expr(e.class, e.type, args) ELSE Untranslated
  IN  CASE e.class \in {"ColumnRef", "Constant"} -> e
        [] e.class = "Unknown" -> Untranslated
        [] e.class = "Cast" -> sqls[1]
        [] e.class = "Conjunction" -> when(known # <<>>, known)
        [] e.class = "Operator" /\ e.type \in Lists ->
             when(sqls[1] # Untranslated /\ Len(known) > 1, known)
        [] e.class = "Function" /\ e.type \notin Patterns ->
             when(known # <<>> \/ sqls = <<>>, known)
        [] OTHER -> when(Supported(e) /\ Len(known) = Len(sqls), sqls)

expression_to_sql[e \in Exprs] ==
  sql_of(e, [i \in DOMAIN e.children |-> expression_to_sql[e.children[i]]])

sqls_of(filters) == [i \in DOMAIN filters |-> expression_to_sql[filters[i]]]

\* Mutant: a disjunction without its parentheses takes the next condition into
\* its last alternative.
Ungrouped(filters) ==
  LET conditions == Known(sqls_of(filters))
      both(x, y) == Expr("Conjunction", "AND", <<x, y>>)
  IN  IF conditions = <<>> THEN Untranslated
      ELSE IF Len(conditions) = 2 /\ conditions[1].type = "OR"
      THEN Expr("Conjunction", "OR", Append(Front(conditions[1].children),
                                            both(Last(conditions[1].children), conditions[2])))
      ELSE Expr("Conjunction", "AND", conditions)

\* The conditions are joined by AND without parentheses: every condition that
\* could be split by it (a conjunction) carries its own.
parse_filters_to_where_clause(filters) ==
  LET conditions == Known(sqls_of(filters))
  IN  IF conditions = <<>> THEN Untranslated ELSE Expr("Conjunction", "AND", conditions)

\* The query of an endpoint: raw SQL of the descriptor as it is, otherwise a
\* scan of the table under the filters' clause.
endpoint_query(descriptor, filters) ==
  IF descriptor = "cmd" THEN [source |-> "cmd", where |-> Untranslated]
  ELSE [source |-> "table", where |-> parse_filters_to_where_clause(filters)]

-----------------------------------------------------------------------------
(* What the texts mean: 1, 0 and Null are the three truth values, ordered     *)
(* 0 < Null < 1 by Rank; another number is true where a truth value is asked.  *)

Null == -1
Truth3(v) == IF v \in {Null, 0} THEN v ELSE 1
Rank(v) == IF v = 0 THEN 0 ELSE IF v = Null THEN 1 ELSE 2
Weakest(vs) == CHOOSE v \in vs : \A w \in vs : Rank(v) <= Rank(w)
Strongest(vs) == CHOOSE v \in vs : \A w \in vs : Rank(v) >= Rank(w)
Not3(v) == IF v = Null THEN Null ELSE 1 - v
Truth(b) == IF b THEN 1 ELSE 0
Compare(op, x, y) ==
  IF Null \in {x, y} THEN Null
  ELSE Truth(CASE op = "=" -> x = y   [] op = "!=" -> x # y
               [] op = "<" -> x < y   [] op = ">" -> x > y
               [] op = "<=" -> x <= y [] op = ">=" -> x >= y)

\* The value of an expression for a row, given those of its children: the
\* column's value is row.x; what the server does not know, and a cast, may have
\* any value, row.u; and LIKE, like any other function, is some comparison.
value_of(e, vs, row) ==
  LET truths == {Truth3(vs[i]) : i \in DOMAIN vs}
      within == Strongest({Compare("=", vs[1], vs[i]) : i \in 2..Len(vs)})
      last == vs[Len(vs)]
  IN  CASE e.class = "ColumnRef" -> row.x
        [] e.class = "Constant" -> e.value
        [] e.class = "Comparison" /\ e.type \in Comparisons -> Compare(e.type, vs[1], vs[2])
        [] e.class = "Between" ->
             Weakest({Compare("<=", vs[2], vs[1]), Compare("<=", vs[1], vs[3])})
        [] e.class = "Conjunction" -> IF e.type = "AND" THEN Weakest(truths) ELSE Strongest(truths)
        [] e.class = "Operator" /\ e.type = "IS_NULL" -> Truth(vs[1] = Null)
        [] e.class = "Operator" /\ e.type = "IS_NOT_NULL" -> Truth(vs[1] # Null)
        [] e.class = "Operator" /\ e.type = "NOT" -> Not3(Truth3(vs[1]))
        [] e.class = "Operator" /\ e.type = "IN" -> within
        [] e.class = "Operator" /\ e.type = "NOT_IN" -> Not3(within)
        [] e.class = "Function" /\ vs # <<>> ->
             IF e.type = "not_like" THEN Not3(Compare("=", vs[1], last)) ELSE Compare("=", vs[1], last)
        [] OTHER -> row.u

Value(e, row) ==
  LET value[d \in Exprs] == value_of(d, [i \in DOMAIN d.children |-> value[d.children[i]]], row)
  IN  value[e]

Selects(e, row) == e = Untranslated \/ Truth3(Value(e, row)) = 1

\* The text says all the expression says: nothing was dropped or stripped.
Complete[e \in Exprs] ==
  /\ e.class \notin {"Unknown", "Cast"} /\ Supported(e)
  /\ \A i \in DOMAIN e.children : Complete[e.children[i]]

\* What was dropped can only have made the condition weaker: a whole condition,
\* a member of a conjunction, or a value a NOT IN excludes.
OnlyWeakened[e \in Exprs] ==
  \/ Complete[e]
  \/ expression_to_sql[e] = Untranslated
  \/ /\ e.class = "Conjunction" /\ e.type = "AND"
     /\ \A i \in DOMAIN e.children : OnlyWeakened[e.children[i]]
  \/ /\ e.class = "Operator" /\ e.type = "NOT_IN" /\ Complete[e.children[1]]
     /\ \A i \in DOMAIN e.children : \/ Complete[e.children[i]]
                                     \/ expression_to_sql[e.children[i]] = Untranslated
=============================================================================
