------------------------- MODULE MCRequestTranslation -------------------------
(* Small requests of every kind. *)
EXTENDS StatementRewriting, TLC

SeqsUpTo(S, n) == UNION {[1..k -> S] : k \in 0..n}

-----------------------------------------------------------------------------
(* Scans: leaves over one column, negated, combined and listed.               *)

Cast(e) == Expr("Cast", "", <<e>>)
Cmp(op, l, r) == Expr("Comparison", op, <<l, r>>)
Op(type, es) == Expr("Operator", type, es)
Leaves ==
  {Cmp(op, Column, Constant(1)) : op \in Comparisons}
  \union {Op(t, <<Column, Constant(0), v>>) : t \in {"IN", "NOT_IN"},
                                             v \in {Constant(2), Constant(Null), Unknown}}
  \union {Op(t, <<Column>>) : t \in {"IS_NULL", "IS_NOT_NULL"}}
  \union {Cmp("=", Column, Unknown), Cmp("DISTINCT", Column, Constant(0)),
          Cmp("=", Cast(Column), Constant(1)), Unknown,
          Expr("Between", "", <<Column, Constant(1), Constant(2)>>),
          Expr("Function", "like", <<Column, Constant(1)>>),
          Expr("Function", "not_like", <<Column, Constant(1)>>),
          Expr("Function", "other", <<Column, Constant(1)>>), Expr("Function", "other", <<Unknown>>)}
Combined == {Expr("Conjunction", t, <<a, b>>) : t \in {"AND", "OR"}, a \in Leaves, b \in Leaves}
Negated == {Op("NOT", <<e>>) : e \in Leaves \union Combined}
MCScans ==
  {[handler |-> "scan", descriptor |-> d, filters |-> f] :
     d \in {"path"}, f \in {<<e>> : e \in Leaves \union Combined \union Negated}}
  \union {[handler |-> "scan", descriptor |-> d, filters |-> f] :
     d \in {"path", "cmd"},
     f \in [1..2 -> Leaves] \union {<<c, Cmp("=", Column, Constant(2))>> : c \in Combined}}

-----------------------------------------------------------------------------
(* Prepared INSERTs with one or two batches of up to four columns and two rows.*)

Numerals(base, n) == [i \in 1..n |-> Numeral(base + i - 1)]
Words(names) == [i \in DOMAIN names |-> Word(names[i])]
Filled(names, n, from) ==
  Batch(names, [r \in 1..n |-> [c \in DOMAIN names |-> from + (r - 1) * Len(names) + c]])
Names == {<<>>} \union {Numerals(base, n) : base \in 0..1, n \in 1..4}
         \union {Words(n) : n \in {<<"a">>, <<"b">>, <<"a", "b">>, <<"b", "a">>, <<"a", "B">>}}
MCInserts ==
  {[handler |-> "insert", table |-> t, columns |-> c, batches |-> b] :
     t \in {<<"a", "b">>, <<"a", "b", "c">>},
     c \in {<<>>, <<"b">>, <<"b", "a">>, <<"a", "b">>, <<"c", "a">>, <<"B", "a">>},
     b \in {<<Filled(n, r, 0)>> : n \in Names, r \in 0..2}
           \union {<<Filled(n, 1, 0), Filled(m, 2, 10)>> : n \in Names, m \in Names}}

-----------------------------------------------------------------------------
(* Reads of up to three columns, and texts that are no single query.          *)

Columns == [name : {"a", "b"}, type : {"INTEGER", "VARIANT", "STRUCT(v VARIANT)"}]
Texts == {<<"SELECT", "x">>, <<"WITH", "x", ";">>, <<"(", "x", ")", ";", ";">>,
          <<"SELECT", "x", ";", "SELECT", "y">>, <<"INSERT", "x">>, <<";">>, <<>>}
MCReads ==
  {[handler |-> "read", tokens |-> t, columns |-> cs, rows |-> <<row>>] :
     t \in Texts, cs \in SeqsUpTo(Columns, 2), row \in [1..2 -> {"NULL", "1", "2"}]}

-----------------------------------------------------------------------------
(* Statements over a table of three columns.                                  *)

MCTable == <<"a", "b", "c">>
MCLower == [n \in {"a", "b", "c", "B", "z"} |-> IF n = "B" THEN "b" ELSE n]
Bin(op, l, r) == Node("BinaryOp", op, <<l, r>>)
Operands == {Placeholder, Literal, Ident("b"), Ident("B"), Ident("z"), Node("Cast", "", <<Placeholder>>),
             Node("Nested", "", <<Placeholder>>), Bin("+", Ident("c"), Placeholder),
             Node("Function", "f", <<Placeholder>>)}
Conditions ==
  {Bin("=", l, r) : l \in Operands \union {Ident("a")}, r \in Operands}
  \union {Node("Between", "", <<x, l, h>>) : x \in {Ident("a"), Node("Nested", "", <<Ident("a")>>)},
                                             l \in Operands, h \in {Placeholder, Literal}}
  \union {Node("InList", "", <<Ident("a"), l, h>>) : l \in Operands, h \in {Placeholder, Literal}}
Simple == {Bin("=", Ident("a"), Placeholder), Bin("<", Placeholder, Ident("c")),
           Node("Between", "", <<Ident("b"), Placeholder, Placeholder>>)}
Wheres == Conditions \union {Node("Nested", "", <<Bin(op, x, y)>>) :
                               op \in {"AND", "OR"}, x \in Simple, y \in Conditions}
Stmt(kind, outside, assignments, where, columns, plain, rows, width) ==
  [kind |-> kind, outside |-> outside, assignments |-> assignments, where |-> where,
   columns |-> columns, plain |-> plain, rows |-> rows, width |-> width]
Assigned == {<<[column |-> "c", value |-> v]>> : v \in Operands}
            \union {<<[column |-> "b", value |-> Placeholder],
                      [column |-> "a", value |-> v]>> : v \in Operands}
MCStatements ==
  {[handler |-> "prepare", table |-> MCTable, statement |-> s] : s \in
     {Stmt(k, o, <<>>, w, <<>>, FALSE, 0, 0) : k \in {"select", "delete"}, o \in 0..1, w \in Wheres}
     \union {Stmt("update", 0, a, w, <<>>, FALSE, 0, 0) : a \in Assigned, w \in Simple}
     \union {Stmt("insert", 0, <<>>, Literal, c, p, n, IF c = <<>> THEN 3 ELSE Len(c)) :
               c \in {<<>>, <<"b">>, <<"c", "a">>, <<"a", "z">>}, p \in BOOLEAN, n \in 1..3}}

-----------------------------------------------------------------------------
(* ATTACH statements with up to three options.                                *)

OptionEntries == {<<"DATA_PATH", "d">>, <<"READ_ONLY">>, <<"READ_ONLY", "false">>, <<"TYPE", "x">>}
Block(es) == IF es = <<>> THEN <<>>
             ELSE <<"(">> \o Front(FlattenSeq([i \in DOMAIN es |-> Append(es[i], ",")])) \o <<")">>
Attach(path, mode, alias, es) == <<"ATTACH">> \o mode \o <<path>> \o alias \o Block(es)
Attaches ==
  {Attach(p, m, a, es) : p \in {"'p'", "'u'"},
                         m \in {<<>>, <<"OR", "REPLACE">>, <<"DATABASE", "IF", "NOT", "EXISTS">>},
                         a \in {<<>>, <<"AS", "other">>}, es \in SeqsUpTo(OptionEntries, 3)}
  \union {<<"DETACH", "d">>, <<"ATTACH">>, <<"ATTACH", "'p'", "NOW">>, <<"/**/", "ATTACH", "'p'">>}
Surroundings == {[before |-> b, after |-> a] : b \in {<<>>, <<";">>},
                                         a \in {<<>>, <<";">>, <<";", ";">>, <<";", "SELECT", "1">>}}
MCAttachments ==
  {[handler |-> "attach", path |-> "'p'", read_only |-> ro, statement |-> s,
    text |-> around.before \o s \o around.after] :
     ro \in BOOLEAN, s \in Attaches, around \in Surroundings}
  \union {[handler |-> "attach", path |-> "", read_only |-> ro, statement |-> <<>>, text |-> t] :
     ro \in BOOLEAN, t \in {<<>>, <<";">>, <<"--">>}}
\* A path beyond ASCII, each of its bytes a character, those bytes again, ...
MCGarbled(token) == CASE token = "'u'" -> "'uu'" [] token = "'uu'" -> "'uuuu'" [] OTHER -> token
=============================================================================
