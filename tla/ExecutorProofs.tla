--------------------------- MODULE ExecutorProofs ---------------------------
(***************************************************************************)
(* Lemmas about the operators of Executor.                                 *)
(***************************************************************************)
EXTENDS Executor, SequenceLemmas

(* A nonempty set of numbers has a least element, and Least returns it.    *)
LEMMA LeastProperties ==
    ASSUME NEW S, S \subseteq Nat, S # {}
    PROVE  Least(S) \in S /\ \A m \in S : Least(S) <= m
<1>1. Least(S) = Min(S)
  BY DEF Least, Min
<1> QED
  BY <1>1, MinProperties

(* find_schema_column: the result is a column of that name, and 0 only if  *)
(* there is none.                                                          *)
LEMMA FindProperties ==
    ASSUME NEW schema \in TableSchema, NEW name
    PROVE  /\ FindSchemaColumn(schema, name) \in 0 .. Len(schema)
           /\ FindSchemaColumn(schema, name) # 0 =>
                /\ FindSchemaColumn(schema, name) \in DOMAIN schema
                /\ schema[FindSchemaColumn(schema, name)].name = name
           /\ FindSchemaColumn(schema, name) = 0 =>
                \A c \in DOMAIN schema : schema[c].name # name
<1> DEFINE found == {c \in DOMAIN schema : schema[c].name = name}
<1>1. DOMAIN schema = 1 .. Len(schema) /\ Len(schema) \in Nat
  BY DEF TableSchema
<1>2. found \subseteq Nat
  BY <1>1
<1>3. CASE found = {}
  BY <1>1, <1>3 DEF FindSchemaColumn
<1>4. CASE found # {}
  <2>1. Least(found) \in found
    BY <1>2, <1>4, LeastProperties
  <2>2. FindSchemaColumn(schema, name) = Least(found)
    BY <1>4 DEF FindSchemaColumn
  <2> HIDE DEF found
  <2>3. Least(found) \in 1 .. Len(schema) /\ schema[Least(found)].name = name
    BY <1>1, <2>1 DEF found
  <2> QED
    BY <1>1, <2>2, <2>3
<1> QED
  BY <1>3, <1>4

LEMMA LiteralFaultType ==
    ASSUME NEW column, NEW literal
    PROVE  LiteralFault(column, literal) \in {"none", "type", "range", "formula"}
<1>1. CASE literal.type # column.type
  BY <1>1, Zenon DEF LiteralFault
<1>2. CASE literal.type = column.type /\ column.type = "INT" /\ literal.text \notin IntText
  BY <1>2, Zenon DEF LiteralFault
<1> QED
  BY <1>1, <1>2 DEF LiteralFault

LEMMA ErrorInfoType ==
    /\ NoError \in ErrorInfo
    /\ \A message \in {"count", "unknown", "twice", "missing", "type", "range", "formula"},
          what \in {"table", "column", "value"}, n \in Nat :
             /\ Failure(message, what, n) \in ErrorInfo
             /\ Failure(message, what, n) # NoError
<1> QED
  BY DEF ErrorInfo, NoError, Failure

(* The place of a value of a statement the loop does not refuse is a       *)
(* column of the schema, and no two values have the same place.            *)
LEMMA TargetProperties ==
    ASSUME NEW schema \in TableSchema, NEW stmt \in InsertStatement,
           NEW i \in DOMAIN stmt.values
    PROVE  /\ stmt.has_list => Target(schema, stmt, i) \in 0 .. Len(schema)
           /\ ~stmt.has_list => Target(schema, stmt, i) = i
<1> QED
  BY FindProperties DEF Target

(* An accepted INSERT gives every column a value, and exactly the checks   *)
(* of the loops have been passed.                                          *)
LEMMA AcceptedProperties ==
    ASSUME NEW schema \in TableSchema, NEW stmt \in InsertStatement
    PROVE  InsertError(schema, stmt) = NoError <=>
              /\ ~CountIsWrong(schema, stmt)
              /\ FaultyPairs(schema, stmt) = {}
              /\ Covered(schema, stmt)
<1> DEFINE first == Least(FaultyPairs(schema, stmt))
<1>1. FaultyPairs(schema, stmt) # {} => PairFault(schema, stmt, first) # "none"
  <2>1. FaultyPairs(schema, stmt) \subseteq Nat
    BY DEF FaultyPairs, InsertStatement
  <2> QED
    BY <2>1, LeastProperties DEF FaultyPairs
<1>2. FaultyPairs(schema, stmt) # {} => PairFailure(schema, stmt, first) # NoError
  BY <1>1 DEF PairFailure, Failure, NoError
<1>3. Failure("count", "table", 0) # NoError /\ Failure("missing", "table", 0) # NoError
  BY DEF Failure, NoError
<1> QED
  BY <1>2, <1>3 DEF InsertError

(* The row of an accepted INSERT: one text for every column.               *)
LEMMA InsertRowType ==
    ASSUME NEW schema \in TableSchema, NEW stmt \in InsertStatement,
           InsertError(schema, stmt) = NoError
    PROVE  InsertRow(schema, stmt) \in Seq(Text) /\ Len(InsertRow(schema, stmt)) = Len(schema)
<1>1. DOMAIN schema = 1 .. Len(schema) /\ Len(schema) \in Nat
  BY DEF TableSchema
<1>2. stmt.values \in Seq(Literal)
  BY DEF InsertStatement
<1>3. ASSUME NEW c \in DOMAIN schema
      PROVE  stmt.values[CHOOSE i \in DOMAIN stmt.values : Target(schema, stmt, i) = c].text
                \in Text
  <2>1. \E i \in DOMAIN stmt.values : Target(schema, stmt, i) = c
    BY AcceptedProperties DEF Covered
  <2> DEFINE k == CHOOSE i \in DOMAIN stmt.values : Target(schema, stmt, i) = c
  <2>2. k \in DOMAIN stmt.values
    BY <2>1
  <2> HIDE DEF k
  <2>3. stmt.values[k] \in Literal
    BY <1>2, <2>2
  <2> QED
    BY <2>3 DEF k, Literal
<1>4. InsertRow(schema, stmt) \in [1 .. Len(schema) -> Text]
  BY <1>1, <1>3 DEF InsertRow
<1> QED
  BY <1>1, <1>4, SeqDef, LenProperties

(* The values of an accepted INSERT go to columns of their own, each with  *)
(* a text that its column takes, and stand there in the row.               *)
LEMMA AcceptedPairs ==
    ASSUME NEW schema \in TableSchema, NEW stmt \in InsertStatement,
           InsertError(schema, stmt) = NoError
    PROVE  \A i \in DOMAIN stmt.values :
              /\ Target(schema, stmt, i) \in DOMAIN schema
              /\ \A j \in DOMAIN stmt.values :
                    Target(schema, stmt, j) = Target(schema, stmt, i) => j = i
              /\ LiteralFault(schema[Target(schema, stmt, i)], stmt.values[i]) = "none"
              /\ InsertRow(schema, stmt)[Target(schema, stmt, i)] = stmt.values[i].text
<1>1. DOMAIN schema = 1 .. Len(schema) /\ Len(schema) \in Nat
  BY DEF TableSchema
<1>2. DOMAIN stmt.values = 1 .. Len(stmt.values) /\ Len(stmt.values) \in Nat
  BY DEF InsertStatement
<1>3. \A i \in DOMAIN stmt.values : PairFault(schema, stmt, i) = "none"
  BY AcceptedProperties DEF FaultyPairs
<1>4. ASSUME NEW i \in DOMAIN stmt.values
      PROVE  /\ Target(schema, stmt, i) # 0
             /\ \A j \in 1 .. i - 1 : Target(schema, stmt, j) # Target(schema, stmt, i)
             /\ LiteralFault(schema[Target(schema, stmt, i)], stmt.values[i]) = "none"
  <2> DEFINE c == Target(schema, stmt, i)
  <2>1. PairFault(schema, stmt, i) = "none"
    BY <1>3
  <2>2. c # 0
    BY <2>1 DEF PairFault
  <2>3. ~ \E j \in 1 .. i - 1 : Target(schema, stmt, j) = c
    BY <2>1, <2>2 DEF PairFault
  <2>4. PairFault(schema, stmt, i) = LiteralFault(schema[c], stmt.values[i])
    BY <2>2, <2>3, Zenon DEF PairFault
  <2> QED
    BY <2>1, <2>2, <2>3, <2>4
<1>5. ASSUME NEW i \in DOMAIN stmt.values
      PROVE  Target(schema, stmt, i) \in DOMAIN schema
  <2>1. CASE stmt.has_list
    BY <1>1, <1>4, <2>1, TargetProperties
  <2>2. CASE ~stmt.has_list
    BY <1>1, <1>2, <2>2, AcceptedProperties, TargetProperties DEF CountIsWrong
  <2> QED
    BY <2>1, <2>2
<1>6. ASSUME NEW i \in DOMAIN stmt.values, NEW j \in DOMAIN stmt.values,
             Target(schema, stmt, j) = Target(schema, stmt, i)
      PROVE  j = i
  <2>1. ~(j \in 1 .. i - 1) /\ ~(i \in 1 .. j - 1)
    BY <1>4, <1>6
  <2> QED
    BY <1>2, <2>1
<1>7. ASSUME NEW i \in DOMAIN stmt.values
      PROVE  InsertRow(schema, stmt)[Target(schema, stmt, i)] = stmt.values[i].text
  <2> DEFINE c == Target(schema, stmt, i)
             k == CHOOSE j \in DOMAIN stmt.values : Target(schema, stmt, j) = c
  <2>1. k \in DOMAIN stmt.values /\ Target(schema, stmt, k) = c
    OBVIOUS
  <2>2. InsertRow(schema, stmt)[c] = stmt.values[k].text
    BY <1>5 DEF InsertRow
  <2> HIDE DEF k
  <2>3. k = i
    BY <1>6, <2>1
  <2> QED
    BY <2>2, <2>3
<1> QED
  BY <1>4, <1>5, <1>6, <1>7

(* The columns of an accepted SELECT are columns of the schema.            *)
LEMMA SelectedIndicesType ==
    ASSUME NEW schema \in TableSchema, NEW stmt \in SelectStatement,
           SelectError(schema, stmt) = NoError
    PROVE  SelectedIndices(schema, stmt) \in Seq(1 .. Len(schema))
<1>1. DOMAIN schema = 1 .. Len(schema) /\ Len(schema) \in Nat
  BY DEF TableSchema
<1>2. CASE stmt.all
  BY <1>1, <1>2 DEF SelectedIndices
<1>3. CASE ~stmt.all
  <2>1. stmt.columns \in Seq(Text)
    BY DEF SelectStatement
  <2>2. UnknownColumns(schema, stmt) = {}
    BY <1>3 DEF SelectError, Failure, NoError
  <2>3. \A i \in DOMAIN stmt.columns :
           FindSchemaColumn(schema, stmt.columns[i]) \in 1 .. Len(schema)
    BY <1>1, <2>2, FindProperties DEF UnknownColumns
  <2> QED
    BY <1>3, <2>1, <2>3 DEF SelectedIndices
<1> QED
  BY <1>2, <1>3

(* A printed line: one cell for every chosen column.                       *)
LEMMA ProjectType ==
    ASSUME NEW n \in Nat, NEW row \in Seq(Text), n <= Len(row),
           NEW selected \in Seq(1 .. n)
    PROVE  Project(row, selected) \in Seq(Text)
<1>1. row \in [1 .. Len(row) -> Text] /\ Len(row) \in Nat
  BY LenProperties
<1>2. selected \in [1 .. Len(selected) -> 1 .. n] /\ Len(selected) \in Nat
  BY LenProperties
<1>3. \A k \in 1 .. Len(selected) : row[selected[k]] \in Text
  BY <1>1, <1>2
<1>4. Project(row, selected) = [k \in 1 .. Len(selected) |-> row[selected[k]]]
  BY <1>2 DEF Project
<1> QED
  BY <1>2, <1>3, <1>4
=============================================================================
