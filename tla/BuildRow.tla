------------------------------ MODULE BuildRow ------------------------------
(***************************************************************************)
(* build_insert_row_values of executor.c, one step per iteration of its    *)
(* loops, with its two arrays: row_values, zeroed first and filled in the  *)
(* order the values are written, and used_columns.  The operators          *)
(* InsertError and InsertRow of Executor are the declarative reading of    *)
(* the same function; the properties say that the loops compute it.        *)
(***************************************************************************)
EXTENDS Executor

CONSTANTS Schemas, Inserts      \* the calls of the instance

ASSUME CallAssumption == /\ Schemas \subseteq TableSchema \ {<<>>}
                         /\ Inserts \subseteq InsertStatement

VARIABLES schema, stmt,         \* the arguments
          pc, i,                \* the loop reached, and its index
          used, row,            \* used_columns, row_values
          error                 \* the ErrorInfo, NoError while all is well

vars == <<schema, stmt, pc, i, used, row, error>>

Init ==
    /\ schema \in Schemas
    /\ stmt \in Inserts
    /\ pc = "count"
    /\ i = 1
    /\ used = [c \in DOMAIN schema |-> FALSE]
    /\ row = [c \in DOMAIN schema |-> <<>>]
    /\ error = NoError

Fail(e) == /\ pc' = "failed"
           /\ error' = e
           /\ UNCHANGED <<schema, stmt, i, used, row>>

(* Without a column list the number of values must be that of the columns. *)
CountValues ==
    /\ pc = "count"
    /\ IF ~stmt.has_list /\ Len(stmt.values) # Len(schema)
       THEN Fail(Failure("count", "table", 0))
       ELSE /\ pc' = "values"
            /\ UNCHANGED <<schema, stmt, i, used, row, error>>

(* Mutant: the value is stored where it is written, not at its column.     *)
PlaceAt_ByPosition(c) ==
    LET fault == LiteralFault(schema[c], stmt.values[i]) IN
    IF fault # "none"
    THEN Fail(Failure(fault, "value", i))
    ELSE /\ row' = [k \in DOMAIN row |-> IF k = i THEN stmt.values[i].text ELSE row[k]]
         /\ used' = IF stmt.has_list THEN [used EXCEPT ![c] = TRUE] ELSE used
         /\ i' = i + 1
         /\ UNCHANGED <<schema, stmt, pc, error>>
(* The i-th value is placed at column c unless it is refused there.        *)
PlaceAt(c) ==
    LET fault == LiteralFault(schema[c], stmt.values[i]) IN
    IF fault # "none"
    THEN Fail(Failure(fault, "value", i))
    ELSE /\ row' = [row EXCEPT ![c] = stmt.values[i].text]
         /\ used' = IF stmt.has_list THEN [used EXCEPT ![c] = TRUE] ELSE used
         /\ i' = i + 1
         /\ UNCHANGED <<schema, stmt, pc, error>>

PlaceInOrder ==
    /\ pc = "values" /\ ~stmt.has_list
    /\ i <= Len(schema)
    /\ PlaceAt(i)

(* Mutant: a column may be given twice.                                    *)
PlaceByName_Twice ==
    /\ pc = "values" /\ stmt.has_list
    /\ i <= Len(stmt.columns)
    /\ LET c == FindSchemaColumn(schema, stmt.columns[i]) IN
       IF c = 0 THEN Fail(Failure("unknown", "column", i)) ELSE PlaceAt(c)

PlaceByName ==
    /\ pc = "values" /\ stmt.has_list
    /\ i <= Len(stmt.columns)
    /\ LET c == FindSchemaColumn(schema, stmt.columns[i]) IN
       CASE c = 0 -> Fail(Failure("unknown", "column", i))
         [] c # 0 /\ used[c] -> Fail(Failure("twice", "column", i))
         [] OTHER -> PlaceAt(c)

(* Mutant: the second loop starts before the first column.                 *)
EndOfValues_FromZero ==
    /\ pc = "values"
    /\ i > (IF stmt.has_list THEN Len(stmt.columns) ELSE Len(schema))
    /\ pc' = IF stmt.has_list THEN "used" ELSE "built"
    /\ i' = 0
    /\ UNCHANGED <<schema, stmt, used, row, error>>
(* Only a statement with a list goes through the second loop.              *)
EndOfValues ==
    /\ pc = "values"
    /\ i > (IF stmt.has_list THEN Len(stmt.columns) ELSE Len(schema))
    /\ pc' = IF stmt.has_list THEN "used" ELSE "built"
    /\ i' = 1
    /\ UNCHANGED <<schema, stmt, used, row, error>>

(* Mutant: the last column is not looked at.                               *)
CheckUsed_StopsShort ==
    /\ pc = "used"
    /\ CASE i >= Len(schema) -> /\ pc' = "built"
                                /\ UNCHANGED <<schema, stmt, i, used, row, error>>
         [] i < Len(schema) /\ ~used[i] -> Fail(Failure("missing", "table", 0))
         [] OTHER -> /\ i' = i + 1
                     /\ UNCHANGED <<schema, stmt, pc, used, row, error>>

CheckUsed ==
    /\ pc = "used"
    /\ CASE i > Len(schema) -> /\ pc' = "built"
                               /\ UNCHANGED <<schema, stmt, i, used, row, error>>
         [] i <= Len(schema) /\ ~used[i] -> Fail(Failure("missing", "table", 0))
         [] OTHER -> /\ i' = i + 1
                     /\ UNCHANGED <<schema, stmt, pc, used, row, error>>

Next == CountValues \/ PlaceInOrder \/ PlaceByName \/ EndOfValues \/ CheckUsed

Spec == Init /\ [][Next]_vars

-----------------------------------------------------------------------------
TypeOK ==
    /\ schema \in TableSchema /\ stmt \in InsertStatement
    /\ pc \in {"count", "values", "used", "built", "failed"}
    /\ i \in Nat \ {0}
    /\ used \in [DOMAIN schema -> BOOLEAN]
    /\ row \in [DOMAIN schema -> Text]
    /\ error \in ErrorInfo

(* The loops accept exactly the statements the declarative reading         *)
(* accepts, report its error at its place otherwise, and an accepted       *)
(* statement leaves in row_values the row it denotes.                      *)
LoopsAgree ==
    /\ pc = "built" => InsertError(schema, stmt) = NoError /\ row = InsertRow(schema, stmt)
    /\ pc = "failed" => error = InsertError(schema, stmt)

(* The invariant of the loops: the values placed so far were accepted and  *)
(* stand in row_values at their columns, used_columns marks these columns, *)
(* and the second loop has passed only columns that are marked.            *)
Placed(n) ==
    \A j \in 1 .. n : /\ PairFault(schema, stmt, j) = "none"
                      /\ row[Target(schema, stmt, j)] = stmt.values[j].text
Marked(n) ==
    stmt.has_list =>
        \A c \in DOMAIN schema : used[c] = (\E j \in 1 .. n : Target(schema, stmt, j) = c)

LoopInvariant ==
    /\ pc # "failed" /\ pc # "count" => ~CountIsWrong(schema, stmt)
    /\ pc = "count" => i = 1 /\ Marked(0)
    /\ pc = "values" => i <= Len(stmt.values) + 1 /\ Placed(i - 1) /\ Marked(i - 1)
    /\ pc = "used" => /\ stmt.has_list
                      /\ Placed(Len(stmt.values)) /\ Marked(Len(stmt.values))
                      /\ i <= Len(schema) + 1
                      /\ \A c \in 1 .. i - 1 : used[c]
    /\ pc = "built" => Placed(Len(stmt.values)) /\ Covered(schema, stmt)
    /\ pc = "failed" => error = InsertError(schema, stmt)

Reordered(s, p) == [s EXCEPT !.columns = [k \in DOMAIN s.columns |-> s.columns[p[k]]],
                             !.values = [k \in DOMAIN s.values |-> s.values[p[k]]]]
Orders(s) == {p \in [DOMAIN s.values -> DOMAIN s.values] :
                 \A j, k \in DOMAIN s.values : p[j] = p[k] => j = k}

(* An INSERT with a column list does not depend on the order in which its  *)
(* (column, value) pairs are written: however they are reordered, the row  *)
(* built for one order is the row of every other.                          *)
OrderIsFree ==
    pc = "built" /\ stmt.has_list =>
        \A p \in Orders(stmt) :
            /\ InsertError(schema, Reordered(stmt, p)) = NoError
            /\ InsertRow(schema, Reordered(stmt, p)) = row

(* What INSERT INTO t (c1, c2) stored, SELECT c1, c2 FROM t shows: the     *)
(* selection made with the list of the INSERT picks out of the row the     *)
(* values in the order they were written.                                  *)
ReadBack ==
    pc = "built" /\ stmt.has_list =>
        LET select == [kind |-> "SELECT", all |-> FALSE, columns |-> stmt.columns] IN
        /\ SelectError(schema, select) = NoError
        /\ Project(row, SelectedIndices(schema, select))
             = [k \in DOMAIN stmt.values |-> stmt.values[k].text]
=============================================================================
