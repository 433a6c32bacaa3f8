---------------------------- MODULE InsertBatches ----------------------------
(***************************************************************************)
(* How the batches a client sends for a prepared INSERT become rows of the *)
(* table (swanlake-core/src/engine/batch.rs and the appender path of       *)
(* swanlake-core/src/service/handlers/prepared.rs).  A batch has a name    *)
(* per column and its rows; a name is a numeral ("1" or "$1") or a word.   *)
(***************************************************************************)
EXTENDS Integers, Sequences, SequencesExt

Numeral(n) == [number |-> n, word |-> ""]
Word(w) == [number |-> -1, word |-> w]

Batch(names, rows) == [names |-> names, rows |-> rows]
Failed == Batch(<<>>, <<>>)
NoRows == <<>>

\* The batches of a message: every row has a value per column.
Batches == {b \in [names : Seq([number : Int, word : STRING]), rows : Seq(Seq(Int))] :
              \A r \in DOMAIN b.rows : Len(b.rows[r]) = Len(b.names)}

\* NULL of the table; the values a client sends are positive.
NullValue == 0

\* The names count up from 0 or from 1.
has_positional_field_names(batch) ==
  /\ batch.names # <<>>
  /\ batch.names[1].number \in {0, 1}
  /\ \A i \in DOMAIN batch.names : batch.names[i].number = batch.names[1].number + i - 1

\* Mutant: the values are dealt out column by column.
ColumnMajor(batch, width) ==
  LET rows == Len(batch.names) \div width
  IN  Batch([i \in 1..width |-> Numeral(i)],
            [r \in 1..rows |-> [c \in 1..width |-> batch.rows[1][(c - 1) * rows + r]]])

\* One row of total values becomes total / width rows, row by row.
reshape_batch_for_multi_row_insert(batch, width) ==
  Batch([i \in 1..width |-> Numeral(i)],
        [r \in 1..(Len(batch.names) \div width) |->
           [c \in 1..width |-> batch.rows[1][(r - 1) * width + c]]])

\* The first place of x in s, 0 for none.
position(s, x) == SelectInSeq(s, LAMBDA y : y = x)

\* Where the value of each listed column is in the batch; 0 for a name the batch
\* does not have.  Of a name listed twice the last place counts.
build_lookup(batch, columns) ==
  LET place(name) == IF has_positional_field_names(batch)
                     THEN CHOOSE i \in DOMAIN columns :
                            columns[i] = name /\ \A j \in DOMAIN columns : columns[j] = name => j <= i
                     ELSE position(batch.names, Word(name))
  IN  [name \in {columns[i] : i \in DOMAIN columns} |-> place(name)]

align_batch_to_table_schema(batch, table, columns) ==
  LET many == /\ has_positional_field_names(batch)
              /\ Len(batch.names) > Len(columns)
              /\ Len(batch.names) % Len(columns) = 0
              /\ Len(batch.rows) = 1
      used == IF many THEN reshape_batch_for_multi_row_insert(batch, Len(columns)) ELSE batch
      lookup == build_lookup(used, columns)
      cell(row, name) == IF name \in DOMAIN lookup THEN row[lookup[name]] ELSE NullValue
      aligned(rows) == Batch([i \in DOMAIN table |-> Word(table[i])], rows)
  IN  IF batch = Batch(<<>>, <<>>) THEN aligned(<<>>)
      ELSE IF Len(used.names) # Len(columns) \/ \E name \in DOMAIN lookup : lookup[name] = 0
      THEN Failed
      ELSE aligned([r \in DOMAIN used.rows |-> [i \in DOMAIN table |-> cell(used.rows[r], table[i])]])

\* DuckDB's appender takes a batch by position and refuses another width.
Appended(batches, table) ==
  IF \E b \in DOMAIN batches : Len(batches[b].names) # Len(table) THEN NoRows
  ELSE FlattenSeq([b \in DOMAIN batches |-> batches[b].rows])

\* The rows an INSERT with batches leaves in the table.  All batches are aligned
\* before the first is appended; without a column list they are taken as sent.
insert_batches(batches, table, columns) ==
  LET aligned == [b \in DOMAIN batches |-> align_batch_to_table_schema(batches[b], table, columns)]
  IN  IF columns = <<>> THEN Appended(batches, table)
      ELSE IF \E b \in DOMAIN aligned : aligned[b] = Failed THEN NoRows
      ELSE Appended(aligned, table)

-----------------------------------------------------------------------------
(* Reference: the rows the client means.  The values of a batch are read row   *)
(* after row; the listed columns take them in turn, or by the batch's names    *)
(* where it has some, and without a list the table's columns take them in turn.*)

Meant(batch, table, columns) ==
  LET listed == IF columns = <<>> THEN table ELSE columns
      width == Len(listed)
      values == FlattenSeq(batch.rows)
      slot(name) == IF has_positional_field_names(batch) \/ columns = <<>>
                    THEN position(listed, name)
                    ELSE position(batch.names, Word(name))
      cell(r, name) == IF ~ Contains(listed, name) THEN NullValue
                       ELSE values[(r - 1) * width + slot(name)]
  IN  [r \in 1..(Len(values) \div width) |-> [i \in DOMAIN table |-> cell(r, table[i])]]
=============================================================================
