------------------------------ MODULE Executor ------------------------------
(***************************************************************************)
(* executor.c as pure operators: what one parsed statement means under the *)
(* schema loaded for its table.  A text (a name, a literal, a CSV cell) is *)
(* a sequence of pieces, one piece per byte; the pieces tell apart only    *)
(* what the properties do.                                                 *)
(***************************************************************************)
EXTENDS Integers, Sequences, FiniteSets

CONSTANTS Piece,         \* the bytes of the texts of the instance
          IntText,       \* the texts strtol reads, whole, as an int
          FormulaText,   \* the texts that start with = + - or @
          MaxColumns     \* SQLPROC_MAX_COLUMNS

ASSUME TextAssumption == /\ IntText \subseteq Seq(Piece)
                         /\ FormulaText \subseteq Seq(Piece)
ASSUME MaxColumnsAssumption == MaxColumns \in Nat \ {0}

Text == Seq(Piece)
DataType == {"INT", "STRING"}

Column  == [name : Text, type : DataType]
Literal == [text : Text, type : DataType]

(* A TableSchema; the empty sequence stands for a schema file that is     *)
(* absent or that load_table_schema refuses.                              *)
TableSchema == {s \in Seq(Column) : Len(s) <= MaxColumns}

(* The parser gives a column list as many values as it has names.         *)
InsertStatement ==
    {s \in [kind : {"INSERT"}, has_list : BOOLEAN,
            columns : Seq(Text), values : Seq(Literal)] :
        s.has_list => Len(s.columns) = Len(s.values)}
SelectStatement == [kind : {"SELECT"}, all : BOOLEAN, columns : Seq(Text)]
Statement == InsertStatement \cup SelectStatement

Names(schema) == [c \in DOMAIN schema |-> schema[c].name]
Least(S) == CHOOSE n \in S : \A m \in S : n <= m

(* An ErrorInfo: which check failed, and where the location it is given    *)
(* points: at the table, or at the n-th name or value.                     *)
ErrorInfo == [message : {"none", "count", "unknown", "twice", "missing",
                         "type", "range", "formula"},
              at : {"none", "table", "column", "value"} \X Nat]
NoError == [message |-> "none", at |-> <<"none", 0>>]
Failure(message, what, n) == [message |-> message, at |-> <<what, n>>]

-----------------------------------------------------------------------------
(* The first column of that name, or 0 (the code's -1).                    *)
FindSchemaColumn(schema, name) ==
    LET found == {c \in DOMAIN schema : schema[c].name = name}
    IN  IF found = {} THEN 0 ELSE Least(found)

(* validate_literal_type, int_literal_in_range and                         *)
(* string_literal_is_safe_for_csv, in the order they are called.           *)
LiteralFault(column, literal) ==
    CASE literal.type # column.type -> "type"
      [] literal.type = column.type /\ column.type = "INT" /\ literal.text \notin IntText
           -> "range"
      [] literal.type = column.type /\ column.type = "STRING" /\ literal.text \in FormulaText
           -> "formula"
      [] OTHER -> "none"

(* The place in the row of the i-th value: the column of the i-th name of  *)
(* the list, or the i-th column when there is no list.                     *)
Target(schema, stmt, i) ==
    IF stmt.has_list THEN FindSchemaColumn(schema, stmt.columns[i]) ELSE i

(* What one iteration of the loop over the values refuses.                 *)
PairFault(schema, stmt, i) ==
    LET c == Target(schema, stmt, i) IN
    CASE c = 0 -> "unknown"
      [] c # 0 /\ (\E j \in 1 .. i - 1 : Target(schema, stmt, j) = c) -> "twice"
      [] OTHER -> LiteralFault(schema[c], stmt.values[i])

(* Where the error is reported: at the name, or at the value.              *)
PairFailure(schema, stmt, i) ==
    LET message == PairFault(schema, stmt, i)
    IN  Failure(message, IF message \in {"unknown", "twice"} THEN "column" ELSE "value", i)

CountIsWrong(schema, stmt) == ~stmt.has_list /\ Len(stmt.values) # Len(schema)

FaultyPairs(schema, stmt) ==
    {i \in DOMAIN stmt.values : PairFault(schema, stmt, i) # "none"}

Covered(schema, stmt) ==
    \A c \in DOMAIN schema : \E i \in DOMAIN stmt.values : Target(schema, stmt, i) = c

(* The verdict of build_insert_row_values, and the row it builds: the      *)
(* values of an accepted statement in the order of the schema.             *)
InsertError(schema, stmt) ==
    CASE CountIsWrong(schema, stmt) -> Failure("count", "table", 0)
      [] ~CountIsWrong(schema, stmt) /\ FaultyPairs(schema, stmt) # {}
           -> PairFailure(schema, stmt, Least(FaultyPairs(schema, stmt)))
      [] ~CountIsWrong(schema, stmt) /\ FaultyPairs(schema, stmt) = {}
            /\ ~Covered(schema, stmt) -> Failure("missing", "table", 0)
      [] OTHER -> NoError

InsertRow(schema, stmt) ==
    [c \in DOMAIN schema |->
        stmt.values[CHOOSE i \in DOMAIN stmt.values : Target(schema, stmt, i) = c].text]

-----------------------------------------------------------------------------
(* resolve_selected_columns.                                               *)
UnknownColumns(schema, stmt) ==
    {i \in DOMAIN stmt.columns : FindSchemaColumn(schema, stmt.columns[i]) = 0}

SelectError(schema, stmt) ==
    IF stmt.all \/ UnknownColumns(schema, stmt) = {}
    THEN NoError
    ELSE Failure("unknown", "column", Least(UnknownColumns(schema, stmt)))

SelectedIndices(schema, stmt) ==
    IF stmt.all
    THEN [i \in 1 .. Len(schema) |-> i]
    ELSE [i \in DOMAIN stmt.columns |-> FindSchemaColumn(schema, stmt.columns[i])]

(* One printed line: the chosen cells of a row, in the order chosen.       *)
Project(row, selected) == [k \in DOMAIN selected |-> row[selected[k]]]
=============================================================================
