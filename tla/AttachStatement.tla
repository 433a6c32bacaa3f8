--------------------------- MODULE AttachStatement ---------------------------
(***************************************************************************)
(* The ATTACH statement of a data attachment as the server rewrites it     *)
(* before it runs it in a session (swanlake-core/src/duckvis/attach.rs).   *)
(* A text is its sequence of tokens; keywords are tokens in capitals,      *)
(* whatever their case in the text, quoted tokens stand for themselves, a  *)
(* comment is one token.                                                   *)
(***************************************************************************)
EXTENDS Integers, Sequences, SequencesExt

\* What becomes of a token when each of its bytes is taken for a character: a
\* token beyond ASCII is another one afterwards.
CONSTANT Garbled(_)

Comments == {"--", "/**/"}

\* The segments between the semicolons, with their comments; the last one only
\* if it is not empty.  Bytes are copied as characters.
split_top_level_statements(tokens) ==
  LET ends == {i \in DOMAIN tokens : tokens[i] = ";"}
      starts == {1} \union {i + 1 : i \in ends \ {Len(tokens)}}
      next(i) == SelectInSeq(SubSeq(tokens, i, Len(tokens)), LAMBDA t : t = ";")
      upto(i) == IF next(i) = 0 THEN Len(tokens) ELSE i + next(i) - 2
      ordered == SetToSortSeq(starts, <)
  IN  IF tokens = <<>> THEN <<>>
      ELSE [k \in DOMAIN ordered |->
              [j \in 1..(upto(ordered[k]) - ordered[k] + 1) |-> Garbled(tokens[ordered[k] + j - 1])]]

\* The first word after the comments.
leading_keyword(tokens) ==
  LET words == SelectSeq(tokens, LAMBDA t : t \notin Comments)
  IN  IF words = <<>> THEN "end" ELSE words[1]

\* Quoted tokens are copied byte by byte once more.
tokenize(tokens) == [i \in DOMAIN tokens |-> Garbled(tokens[i])]

\* DuckvisError::AttachInvalid.
AttachInvalid == [path |-> "invalid", options |-> <<>>]

\* The tokens from a place on start with the given keywords, which are skipped.
Skip(tokens, idx, keywords) ==
  IF IsPrefix(keywords, SubSeq(tokens, idx, Len(tokens))) THEN idx + Len(keywords) ELSE idx

At(tokens, idx) == IF idx <= Len(tokens) THEN tokens[idx] ELSE "end"

\* The path and the option block of an ATTACH; the alias is discarded.
parse_attach(statement) ==
  LET tokens == tokenize(statement)
      path == Skip(tokens, Skip(tokens, Skip(tokens, 2, <<"OR", "REPLACE">>), <<"DATABASE">>),
                   <<"IF", "NOT", "EXISTS">>)
      as == Skip(tokens, path + 1, <<"AS">>)
      rest == IF as > path + 1 /\ At(tokens, as) \notin {"(", "end"} THEN as + 1 ELSE as
  IN  IF \/ At(tokens, 1) # "ATTACH"
         \/ At(tokens, path) \in {"(", "end"}
         \/ At(tokens, rest) \notin {"(", "end"}
      THEN AttachInvalid
      ELSE [path |-> tokens[path], options |-> SubSeq(tokens, rest, Len(tokens))]

\* The entries of an option block: its tokens between the parentheses, split at
\* the commas.
RECURSIVE Entries(_)
Entries(tokens) ==
  LET comma == SelectInSeq(tokens, LAMBDA t : t = ",")
  IN  IF comma = 0 THEN <<tokens>>
      ELSE <<SubSeq(tokens, 1, comma - 1)>> \o Entries(SubSeq(tokens, comma + 1, Len(tokens)))

Inner(options) == SubSeq(options, 2, Len(options) - 1)

\* Mutant: the flag is appended where none is, and one with a value stays.
AppendIfAbsent(options) ==
  IF Contains(options, "READ_ONLY") THEN tokenize(options)
  ELSE IF options = <<>> THEN <<"(", "READ_ONLY", ")">>
  ELSE Front(tokenize(options)) \o <<",", "READ_ONLY", ")">>

\* Every READ_ONLY entry goes, with its value; the bare flag is appended.
enforce_read_only(options) ==
  LET kept == SelectSeq(Entries(Inner(tokenize(options))), LAMBDA e : e # <<>> /\ Head(e) # "READ_ONLY")
      joined == FlattenSeq([i \in DOMAIN kept |-> Append(kept[i], ",")])
  IN  <<"(">> \o joined \o <<"READ_ONLY", ")">>

\* Text with two statements, or whose only one is no ATTACH, is invalid; a comment
\* before the ATTACH passes the keyword's check and not the parser.
normalize_attach(text, name, read_only) ==
  LET statements == SelectSeq(split_top_level_statements(text), LAMBDA s : s # <<>>)
      parsed == parse_attach(statements[1])
  IN  IF Len(statements) # 1 \/ leading_keyword(statements[1]) # "ATTACH" \/ parsed = AttachInvalid
      THEN <<>>
      ELSE <<"ATTACH", "OR", "REPLACE", parsed.path, "AS", name>>
             \o (IF read_only THEN enforce_read_only(parsed.options) ELSE parsed.options)

\* The value after the first DATA_PATH; "end" for a statement with none.
attach_data_path(tokens) ==
  LET parsed == parse_attach(tokens)
      key == SelectInSeq(parsed.options, LAMBDA t : t = "DATA_PATH")
  IN  IF parsed = AttachInvalid \/ key = 0 THEN "end" ELSE At(tokenize(parsed.options), key + 1)
=============================================================================
