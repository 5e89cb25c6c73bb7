--------------------------- MODULE BuildRowProofs ---------------------------
(***************************************************************************)
(* The loops of build_insert_row_values compute what Executor says they    *)
(* do, for every schema and every statement.                               *)
(***************************************************************************)
EXTENDS BuildRow, ExecutorProofs, FiniteSetTheorems

LEMMA ArgumentsType ==
    ASSUME TypeOK
    PROVE  /\ DOMAIN schema = 1 .. Len(schema) /\ Len(schema) \in Nat
           /\ DOMAIN stmt.values = 1 .. Len(stmt.values) /\ Len(stmt.values) \in Nat
           /\ \A j \in DOMAIN stmt.values : stmt.values[j].text \in Text
           /\ stmt.has_list => Len(stmt.columns) = Len(stmt.values)
<1>1. schema \in TableSchema /\ stmt \in InsertStatement
  BY DEF TypeOK
<1>2. stmt.values \in Seq(Literal)
  BY <1>1 DEF InsertStatement
<1>3. \A j \in DOMAIN stmt.values : stmt.values[j] \in Literal
  BY <1>2
<1> QED
  BY <1>1, <1>2, <1>3 DEF TableSchema, InsertStatement, Literal

LEMMA PlaceAtType ==
    ASSUME TypeOK, pc = "values", NEW c \in DOMAIN schema, i \in DOMAIN stmt.values,
           PlaceAt(c)
    PROVE  TypeOK'
<1> DEFINE fault == LiteralFault(schema[c], stmt.values[i])
<1>1. fault \in {"none", "type", "range", "formula"}
  BY LiteralFaultType
<1>2. stmt.values[i].text \in Text
  BY ArgumentsType
<1> HIDE DEF fault
<1>3. CASE fault # "none"
  <2>1. Failure(fault, "value", i) \in ErrorInfo
    BY <1>1, <1>3, ErrorInfoType DEF TypeOK
  <2> QED
    BY <1>3, <2>1 DEF PlaceAt, Fail, TypeOK, fault
<1>4. CASE fault = "none"
  <2>1. row' = [row EXCEPT ![c] = stmt.values[i].text]
    BY <1>4, Zenon DEF PlaceAt, fault
  <2>2. used' = IF stmt.has_list THEN [used EXCEPT ![c] = TRUE] ELSE used
    BY <1>4, Zenon DEF PlaceAt, fault
  <2>3. i' = i + 1 /\ UNCHANGED <<schema, stmt, pc, error>>
    BY <1>4, Zenon DEF PlaceAt, fault
  <2>4. row' \in [DOMAIN schema -> Text]
    BY <1>2, <2>1 DEF TypeOK
  <2>5. used' \in [DOMAIN schema -> BOOLEAN]
    BY <2>2 DEF TypeOK
  <2> QED
    BY <2>3, <2>4, <2>5 DEF TypeOK
<1> QED
  BY <1>3, <1>4

LEMMA TypeInductive ==
    /\ Init => TypeOK
    /\ TypeOK /\ LoopInvariant /\ [Next]_vars => TypeOK'
<1>1. Init => TypeOK
  <2> SUFFICES ASSUME Init PROVE TypeOK
    OBVIOUS
  <2>1. schema \in TableSchema /\ stmt \in InsertStatement
    BY CallAssumption DEF Init
  <2>2. <<>> \in Text
    BY DEF Text
  <2> QED
    BY <2>1, <2>2, ErrorInfoType DEF Init, TypeOK
<1>2. TypeOK /\ LoopInvariant /\ [Next]_vars => TypeOK'
  <2> SUFFICES ASSUME TypeOK, LoopInvariant, [Next]_vars
               PROVE  TypeOK'
    OBVIOUS
  <2>1. CASE CountValues
    BY <2>1, ErrorInfoType DEF CountValues, Fail, TypeOK
  <2>2. CASE PlaceInOrder
    <3>1. i \in DOMAIN schema /\ i \in DOMAIN stmt.values
      BY <2>2, ArgumentsType DEF PlaceInOrder, TypeOK, LoopInvariant, CountIsWrong
    <3> QED
      BY <2>2, <3>1, PlaceAtType DEF PlaceInOrder
  <2>3. CASE PlaceByName
    <3> DEFINE c == FindSchemaColumn(schema, stmt.columns[i])
    <3>1. c # 0 => c \in DOMAIN schema
      BY FindProperties DEF TypeOK
    <3>2. i \in DOMAIN stmt.values
      BY <2>3, ArgumentsType DEF PlaceByName, TypeOK
    <3> HIDE DEF c
    <3>3. CASE c = 0 \/ used[c]
      BY <2>3, <3>3, ErrorInfoType DEF PlaceByName, Fail, TypeOK, c
    <3>4. CASE c # 0 /\ ~used[c]
      BY <2>3, <3>1, <3>2, <3>4, PlaceAtType DEF PlaceByName, c
    <3> QED
      BY <3>3, <3>4
  <2>4. CASE EndOfValues
    BY <2>4 DEF EndOfValues, TypeOK
  <2>5. CASE CheckUsed
    BY <2>5, ErrorInfoType DEF CheckUsed, Fail, TypeOK
  <2>6. CASE UNCHANGED vars
    BY <2>6 DEF vars, TypeOK
  <2> QED
    BY <2>1, <2>2, <2>3, <2>4, <2>5, <2>6 DEF Next
<1> QED
  BY <1>1, <1>2

(* The first value the loop refuses is the one InsertError reports.        *)
LEMMA FirstFailure ==
    ASSUME TypeOK, ~CountIsWrong(schema, stmt), i \in DOMAIN stmt.values,
           PairFault(schema, stmt, i) # "none",
           \A j \in 1 .. i - 1 : PairFault(schema, stmt, j) = "none"
    PROVE  InsertError(schema, stmt) = PairFailure(schema, stmt, i)
<1> DEFINE faulty == FaultyPairs(schema, stmt)
<1>1. i \in faulty /\ \A j \in faulty : i <= j
  BY ArgumentsType DEF FaultyPairs
<1>2. faulty \subseteq Nat
  BY ArgumentsType DEF FaultyPairs
<1> HIDE DEF faulty
<1>3. Least(faulty) = i
  <2>1. Least(faulty) \in faulty /\ \A m \in faulty : Least(faulty) <= m
    BY <1>1, <1>2, LeastProperties
  <2>2. Least(faulty) <= i /\ i <= Least(faulty)
    BY <1>1, <2>1
  <2>3. Least(faulty) \in Nat /\ i \in Nat
    BY <1>1, <1>2, <2>1
  <2> QED
    BY <2>2, <2>3
<1> QED
  BY <1>1, <1>3 DEF InsertError, faulty

LEMMA PlaceAtStep ==
    ASSUME TypeOK, LoopInvariant, pc = "values",
           NEW c \in DOMAIN schema, c = Target(schema, stmt, i), i \in DOMAIN stmt.values,
           \A j \in 1 .. i - 1 : Target(schema, stmt, j) # c,
           PlaceAt(c)
    PROVE  LoopInvariant'
<1> DEFINE fault == LiteralFault(schema[c], stmt.values[i])
<1>1. PairFault(schema, stmt, i) = fault
  <2>1. c # 0
    BY ArgumentsType
  <2> QED
    BY <2>1 DEF PairFault
<1>2. ~CountIsWrong(schema, stmt) /\ Placed(i - 1) /\ Marked(i - 1)
  BY DEF LoopInvariant
<1>3. fault \in {"none", "type", "range", "formula"}
  BY LiteralFaultType
<1> HIDE DEF fault
<1>4. CASE fault # "none"
  <2>1. pc' = "failed" /\ error' = Failure(fault, "value", i) /\ UNCHANGED <<schema, stmt>>
    BY <1>4 DEF PlaceAt, Fail, fault
  <2>2. InsertError(schema, stmt) = PairFailure(schema, stmt, i)
    BY <1>1, <1>2, <1>4, FirstFailure DEF Placed
  <2>3. PairFailure(schema, stmt, i) = Failure(fault, "value", i)
    BY <1>1, <1>3, <1>4 DEF PairFailure
  <2> QED
    BY <2>1, <2>2, <2>3 DEF LoopInvariant
<1>5. CASE fault = "none"
  <2>1. row' = [row EXCEPT ![c] = stmt.values[i].text]
    BY <1>5, Zenon DEF PlaceAt, fault
  <2>2. used' = IF stmt.has_list THEN [used EXCEPT ![c] = TRUE] ELSE used
    BY <1>5, Zenon DEF PlaceAt, fault
  <2>3. i' = i + 1 /\ UNCHANGED <<schema, stmt, pc, error>>
    BY <1>5, Zenon DEF PlaceAt, fault
  <2>4. i \in Nat /\ i <= Len(stmt.values) /\ i' - 1 = i /\ i' <= Len(stmt.values) + 1
    BY <2>3, ArgumentsType DEF TypeOK
  <2>5. Placed(i - 1)'
    <3> SUFFICES ASSUME NEW j \in 1 .. i
                 PROVE  /\ PairFault(schema, stmt, j) = "none"
                        /\ row'[Target(schema, stmt, j)] = stmt.values[j].text
      BY <2>3, <2>4 DEF Placed
    <3>1. CASE j = i
      BY <1>1, <1>5, <2>1, <3>1 DEF TypeOK
    <3>2. CASE j # i
      <4>1. j \in 1 .. i - 1
        BY <2>4, <3>2
      <4> QED
        BY <1>2, <2>1, <4>1 DEF Placed, TypeOK
    <3> QED
      BY <3>1, <3>2
  <2>6. Marked(i - 1)'
    <3> SUFFICES ASSUME stmt.has_list, NEW d \in DOMAIN schema
                 PROVE  used'[d] = (\E j \in 1 .. i : Target(schema, stmt, j) = d)
      BY <2>3, <2>4 DEF Marked
    <3>1. used'[d] = IF d = c THEN TRUE ELSE used[d]
      BY <2>2 DEF TypeOK
    <3>2. used[d] = \E j \in 1 .. i - 1 : Target(schema, stmt, j) = d
      BY <1>2 DEF Marked
    <3>3. \A j \in 1 .. i : j = i \/ j \in 1 .. i - 1
      BY <2>4
    <3>4. i \in 1 .. i /\ \A j \in 1 .. i - 1 : j \in 1 .. i
      BY <2>4, ArgumentsType
    <3>5. CASE d = c
      BY <3>1, <3>4, <3>5
    <3>6. CASE d # c
      BY <3>1, <3>2, <3>3, <3>4, <3>6
    <3> QED
      BY <3>5, <3>6
  <2> QED
    BY <1>2, <2>3, <2>4, <2>5, <2>6 DEF LoopInvariant, CountIsWrong
<1> QED
  BY <1>4, <1>5

LEMMA LoopInductive ==
    /\ Init => LoopInvariant
    /\ TypeOK /\ LoopInvariant /\ [Next]_vars => LoopInvariant'
<1>1. Init => LoopInvariant
  BY DEF Init, LoopInvariant, Marked
<1>2. TypeOK /\ LoopInvariant /\ [Next]_vars => LoopInvariant'
  <2> SUFFICES ASSUME TypeOK, LoopInvariant, [Next]_vars
               PROVE  LoopInvariant'
    OBVIOUS
  <2>0. /\ DOMAIN schema = 1 .. Len(schema) /\ Len(schema) \in Nat
        /\ DOMAIN stmt.values = 1 .. Len(stmt.values) /\ Len(stmt.values) \in Nat
        /\ stmt.has_list => Len(stmt.columns) = Len(stmt.values)
        /\ i \in Nat \ {0}
    BY ArgumentsType DEF TypeOK
  <2>1. CASE CountValues
    <3>1. CASE CountIsWrong(schema, stmt)
      BY <2>1, <3>1 DEF CountValues, Fail, CountIsWrong, LoopInvariant, InsertError
    <3>2. CASE ~CountIsWrong(schema, stmt)
      <4>1. pc' = "values" /\ UNCHANGED <<schema, stmt, i, used, row, error>>
        BY <2>1, <3>2 DEF CountValues, CountIsWrong
      <4>2. i = 1 /\ Marked(0)
        BY <2>1 DEF CountValues, LoopInvariant
      <4>3. Placed(i - 1)'
        BY <2>0, <4>1, <4>2 DEF Placed
      <4>4. Marked(i - 1)'
        <5>1. i' - 1 = 0
          BY <4>1, <4>2
        <5>2. Marked(0)'
          BY <4>1, <4>2 DEF Marked
        <5> QED
          BY <5>1, <5>2
      <4>5. (~CountIsWrong(schema, stmt) /\ i <= Len(stmt.values) + 1)'
        BY <2>0, <3>2, <4>1, <4>2
      <4> QED
        BY <4>1, <4>3, <4>4, <4>5 DEF LoopInvariant
    <3> QED
      BY <3>1, <3>2
  <2>2. CASE PlaceInOrder
    <3>1. i \in DOMAIN schema /\ i \in DOMAIN stmt.values
      BY <2>0, <2>2 DEF PlaceInOrder, LoopInvariant, CountIsWrong
    <3>2. \A j \in 1 .. i : Target(schema, stmt, j) = j
      BY <2>2 DEF PlaceInOrder, Target
    <3>3. pc = "values" /\ PlaceAt(i)
      BY <2>2 DEF PlaceInOrder
    <3>4. i = Target(schema, stmt, i) /\ \A j \in 1 .. i - 1 : Target(schema, stmt, j) # i
      BY <2>0, <3>2
    <3> QED
      BY <3>1, <3>3, <3>4, PlaceAtStep
  <2>3. CASE PlaceByName
    <3> DEFINE c == FindSchemaColumn(schema, stmt.columns[i])
    <3>1. c = Target(schema, stmt, i)
      BY <2>3 DEF PlaceByName, Target
    <3>2. c # 0 => c \in DOMAIN schema
      BY FindProperties DEF TypeOK
    <3>3. i \in DOMAIN stmt.values /\ pc = "values" /\ stmt.has_list
      BY <2>0, <2>3 DEF PlaceByName
    <3>4. ~CountIsWrong(schema, stmt) /\ Placed(i - 1) /\ Marked(i - 1)
      BY <3>3 DEF LoopInvariant
    <3>5. /\ c = 0 => Fail(Failure("unknown", "column", i))
          /\ c # 0 /\ used[c] => Fail(Failure("twice", "column", i))
          /\ c # 0 /\ ~used[c] => PlaceAt(c)
      BY <2>3 DEF PlaceByName
    <3> HIDE DEF c
    <3>6. c # 0 => (used[c] = \E j \in 1 .. i - 1 : Target(schema, stmt, j) = c)
      BY <3>2, <3>3, <3>4 DEF Marked
    <3>7. ASSUME NEW message \in {"unknown", "twice"},
                 PairFault(schema, stmt, i) = message, Fail(Failure(message, "column", i))
          PROVE  LoopInvariant'
      <4>1. InsertError(schema, stmt) = PairFailure(schema, stmt, i)
        BY <3>3, <3>4, <3>7, FirstFailure DEF Placed
      <4>2. PairFailure(schema, stmt, i) = Failure(message, "column", i)
        BY <3>7 DEF PairFailure
      <4> QED
        BY <3>7, <4>1, <4>2 DEF Fail, LoopInvariant
    <3>8. CASE c = 0
      <4>1. PairFault(schema, stmt, i) = "unknown"
        BY <3>1, <3>8 DEF PairFault
      <4> QED
        BY <3>5, <3>7, <3>8, <4>1
    <3>9. CASE c # 0 /\ used[c]
      <4>1. PairFault(schema, stmt, i) = "twice"
        BY <3>1, <3>6, <3>9 DEF PairFault
      <4> QED
        BY <3>5, <3>7, <3>9, <4>1
    <3>10. CASE c # 0 /\ ~used[c]
      <4>1. \A j \in 1 .. i - 1 : Target(schema, stmt, j) # c
        BY <3>6, <3>10
      <4> QED
        BY <3>1, <3>2, <3>3, <3>5, <3>10, <4>1, PlaceAtStep
    <3> QED
      BY <3>8, <3>9, <3>10
  <2>4. CASE EndOfValues
    <3>1. /\ ~CountIsWrong(schema, stmt) /\ i <= Len(stmt.values) + 1
          /\ Placed(i - 1) /\ Marked(i - 1)
      BY <2>4 DEF EndOfValues, LoopInvariant
    <3>2. i - 1 = Len(stmt.values)
      BY <2>0, <2>4, <3>1 DEF EndOfValues, CountIsWrong
    <3>3. Placed(Len(stmt.values)) /\ Marked(Len(stmt.values))
      BY <3>1, <3>2
    <3>4. UNCHANGED <<schema, stmt, used, row, error>> /\ i' = 1
      BY <2>4 DEF EndOfValues
    <3>5. Placed(Len(stmt.values))'
      BY <3>3, <3>4 DEF Placed
    <3>6. Marked(Len(stmt.values))'
      BY <3>3, <3>4 DEF Marked
    <3>7. (~CountIsWrong(schema, stmt))'
      BY <3>1, <3>4
    <3>8. CASE stmt.has_list
      <4>1. pc' = "used"
        BY <2>4, <3>8 DEF EndOfValues
      <4>2. (stmt.has_list /\ i <= Len(schema) + 1 /\ \A c \in 1 .. i - 1 : used[c])'
        BY <2>0, <3>4, <3>8
      <4> QED
        BY <3>5, <3>6, <3>7, <4>1, <4>2 DEF LoopInvariant
    <3>9. CASE ~stmt.has_list
      <4>1. Covered(schema, stmt)
        BY <2>0, <3>1, <3>9 DEF Covered, CountIsWrong, Target
      <4>2. pc' = "built"
        BY <2>4, <3>9 DEF EndOfValues
      <4>3. Covered(schema, stmt)'
        BY <3>4, <4>1
      <4> QED
        BY <3>5, <3>7, <4>2, <4>3 DEF LoopInvariant
    <3> QED
      BY <3>8, <3>9
  <2>5. CASE CheckUsed
    <3>1. /\ ~CountIsWrong(schema, stmt) /\ stmt.has_list
          /\ Placed(Len(stmt.values)) /\ Marked(Len(stmt.values))
          /\ i <= Len(schema) + 1 /\ \A c \in 1 .. i - 1 : used[c]
      BY <2>5 DEF CheckUsed, LoopInvariant
    <3>2. \A c \in DOMAIN schema :
             used[c] = \E j \in 1 .. Len(stmt.values) : Target(schema, stmt, j) = c
      BY <3>1 DEF Marked
    <3>3. CASE i > Len(schema)
      <4>1. \A c \in DOMAIN schema : used[c]
        BY <2>0, <3>1, <3>3
      <4>2. Covered(schema, stmt)
        BY <2>0, <3>2, <4>1 DEF Covered
      <4>3. pc' = "built" /\ UNCHANGED <<schema, stmt, i, used, row, error>>
        BY <2>0, <2>5, <3>3 DEF CheckUsed
      <4>4. Placed(Len(stmt.values))'
        BY <3>1, <4>3 DEF Placed
      <4>5. (Covered(schema, stmt) /\ ~CountIsWrong(schema, stmt))'
        BY <3>1, <4>2, <4>3
      <4> QED
        BY <4>3, <4>4, <4>5 DEF LoopInvariant
    <3>4. CASE i <= Len(schema) /\ ~used[i]
      <4>1. i \in DOMAIN schema
        BY <2>0, <3>4
      <4>2. ~Covered(schema, stmt)
        BY <2>0, <3>2, <3>4, <4>1 DEF Covered
      <4>3. FaultyPairs(schema, stmt) = {}
        BY <2>0, <3>1 DEF FaultyPairs, Placed
      <4>4. InsertError(schema, stmt) = Failure("missing", "table", 0)
        BY <3>1, <4>2, <4>3 DEF InsertError
      <4> QED
        BY <2>0, <2>5, <3>4, <4>4 DEF CheckUsed, Fail, LoopInvariant
    <3>5. CASE i <= Len(schema) /\ used[i]
      <4>1. i' = i + 1 /\ UNCHANGED <<schema, stmt, pc, used, row, error>>
        BY <2>0, <2>5, <3>5 DEF CheckUsed
      <4>2. \A c \in 1 .. i : used[c]
        BY <2>0, <3>1, <3>5
      <4>3. Placed(Len(stmt.values))'
        BY <3>1, <4>1 DEF Placed
      <4>4. Marked(Len(stmt.values))'
        BY <3>1, <4>1 DEF Marked
      <4>5. (/\ ~CountIsWrong(schema, stmt) /\ stmt.has_list
             /\ i <= Len(schema) + 1 /\ \A c \in 1 .. i - 1 : used[c])'
        <5>1. i' - 1 = i /\ i' <= Len(schema) + 1
          BY <2>0, <3>5, <4>1
        <5> QED
          BY <3>1, <4>1, <4>2, <5>1
      <4>6. pc' = "used"
        BY <2>5, <4>1 DEF CheckUsed
      <4> QED
        BY <4>3, <4>4, <4>5, <4>6 DEF LoopInvariant
    <3> QED
      BY <2>0, <3>3, <3>4, <3>5
  <2>6. CASE UNCHANGED vars
    <3>0. UNCHANGED <<schema, stmt, pc, i, used, row, error>>
      BY <2>6 DEF vars
    <3>1. Placed(i - 1) = Placed(i - 1)'
      BY <3>0 DEF Placed
    <3>2. Marked(i - 1) => Marked(i - 1)'
      BY <3>0 DEF Marked
    <3>3. Marked(0) => Marked(0)'
      BY <3>0 DEF Marked
    <3>4. Placed(Len(stmt.values)) => Placed(Len(stmt.values))'
      BY <3>0 DEF Placed
    <3>5. Marked(Len(stmt.values)) => Marked(Len(stmt.values))'
      BY <3>0 DEF Marked
    <3>6. (pc # "failed" /\ pc # "count" => ~CountIsWrong(schema, stmt))'
      BY <3>0 DEF LoopInvariant
    <3>7. (pc = "failed" => error = InsertError(schema, stmt))'
      BY <3>0 DEF LoopInvariant
    <3>8. (pc = "used" => \A c \in 1 .. i - 1 : used[c])'
      BY <3>0 DEF LoopInvariant
    <3> QED
      BY <3>0, <3>1, <3>2, <3>3, <3>4, <3>5, <3>6, <3>7, <3>8 DEF LoopInvariant
  <2> QED
    BY <2>1, <2>2, <2>3, <2>4, <2>5, <2>6 DEF Next
<1> QED
  BY <1>1, <1>2

LEMMA LoopsEnd ==
    ASSUME TypeOK, LoopInvariant
    PROVE  LoopsAgree
<1>1. ASSUME pc = "built"
      PROVE  InsertError(schema, stmt) = NoError /\ row = InsertRow(schema, stmt)
  <2>1. Placed(Len(stmt.values)) /\ Covered(schema, stmt) /\ ~CountIsWrong(schema, stmt)
    BY <1>1 DEF LoopInvariant
  <2>2. FaultyPairs(schema, stmt) = {}
    BY <2>1, ArgumentsType DEF FaultyPairs, Placed
  <2>3. InsertError(schema, stmt) = NoError
    BY <2>1, <2>2, AcceptedProperties DEF TypeOK
  <2>4. ASSUME NEW c \in DOMAIN schema
        PROVE  row[c] = InsertRow(schema, stmt)[c]
    <3> DEFINE j == CHOOSE k \in DOMAIN stmt.values : Target(schema, stmt, k) = c
    <3>1. j \in DOMAIN stmt.values /\ Target(schema, stmt, j) = c
      BY <2>1 DEF Covered
    <3>2. InsertRow(schema, stmt)[c] = stmt.values[j].text
      BY DEF InsertRow
    <3> HIDE DEF j
    <3> QED
      BY <2>1, <3>1, <3>2, ArgumentsType DEF Placed
  <2>5. row \in [DOMAIN schema -> Text]
    BY DEF TypeOK
  <2>6. InsertRow(schema, stmt) = [c \in DOMAIN schema |-> InsertRow(schema, stmt)[c]]
    BY DEF InsertRow
  <2> QED
    BY <2>3, <2>4, <2>5, <2>6
<1>2. pc = "failed" => error = InsertError(schema, stmt)
  BY DEF LoopInvariant
<1> QED
  BY <1>1, <1>2 DEF LoopsAgree

(* The arguments keep their types, and row_values and used_columns have a  *)
(* place for every column of the schema, through both loops.               *)
THEOREM TypeCorrect == Spec => []TypeOK
<1>1. Init => TypeOK /\ LoopInvariant
  BY TypeInductive, LoopInductive
<1>2. TypeOK /\ LoopInvariant /\ [Next]_vars => TypeOK' /\ LoopInvariant'
  BY TypeInductive, LoopInductive
<1> QED
  BY <1>1, <1>2, PTL DEF Spec

(* build_insert_row_values accepts, refuses and builds what the            *)
(* declarative InsertError and InsertRow say, whatever its arguments.      *)
THEOREM LoopsCorrect == Spec => []LoopsAgree
<1>1. Init => TypeOK /\ LoopInvariant
  BY TypeInductive, LoopInductive
<1>2. TypeOK /\ LoopInvariant /\ [Next]_vars => TypeOK' /\ LoopInvariant'
  BY TypeInductive, LoopInductive
<1>3. TypeOK /\ LoopInvariant => LoopsAgree
  BY LoopsEnd
<1> QED
  BY <1>1, <1>2, <1>3, PTL DEF Spec

-----------------------------------------------------------------------------
(* The order of the pairs                                                  *)
-----------------------------------------------------------------------------
(* An order of the pairs takes each of them.                               *)
LEMMA OrderTakesAll ==
    ASSUME NEW n \in Nat, NEW p \in [1 .. n -> 1 .. n],
           \A j, k \in 1 .. n : p[j] = p[k] => j = k, NEW k \in 1 .. n
    PROVE  \E j \in 1 .. n : p[j] = k
<1>1. p \in Injection(1 .. n, 1 .. n)
  BY DEF Injection, IsInjective
<1>2. IsFiniteSet(1 .. n)
  BY FS_Interval
<1>3. p \in Surjection(1 .. n, 1 .. n)
  BY <1>1, <1>2, FS_Injection
<1> QED
  BY <1>3 DEF Surjection

LEMMA ReorderedType ==
    ASSUME NEW s \in InsertStatement, s.has_list, NEW p \in Orders(s)
    PROVE  /\ Reordered(s, p) \in InsertStatement /\ Reordered(s, p).has_list
           /\ Len(Reordered(s, p).values) = Len(s.values)
           /\ DOMAIN Reordered(s, p).values = DOMAIN s.values
           /\ \A k \in DOMAIN s.values : /\ Reordered(s, p).columns[k] = s.columns[p[k]]
                                         /\ Reordered(s, p).values[k] = s.values[p[k]]
<1> DEFINE n == Len(s.values)
           names == [k \in DOMAIN s.columns |-> s.columns[p[k]]]
           values == [k \in DOMAIN s.values |-> s.values[p[k]]]
<1>1. /\ s.columns \in Seq(Text) /\ s.values \in Seq(Literal) /\ n \in Nat
      /\ DOMAIN s.columns = 1 .. n /\ DOMAIN s.values = 1 .. n
  BY DEF InsertStatement
<1>2. p \in [1 .. n -> 1 .. n]
  BY <1>1 DEF Orders
<1>3. names \in [1 .. n -> Text] /\ values \in [1 .. n -> Literal]
  BY <1>1, <1>2
<1>4. names \in Seq(Text) /\ values \in Seq(Literal) /\ Len(names) = n /\ Len(values) = n
  BY <1>1, <1>3
<1> HIDE DEF names, values
<1>5. Reordered(s, p) = [s EXCEPT !.columns = names, !.values = values]
  BY DEF Reordered, names, values
<1>6. /\ Reordered(s, p) \in [kind : {"INSERT"}, has_list : BOOLEAN,
                              columns : Seq(Text), values : Seq(Literal)]
      /\ Reordered(s, p).has_list = s.has_list
      /\ Reordered(s, p).columns = names /\ Reordered(s, p).values = values
  BY <1>4, <1>5 DEF InsertStatement
<1> QED
  BY <1>1, <1>4, <1>6 DEF InsertStatement, names, values

(* Reordering the pairs of an accepted INSERT changes neither the verdict  *)
(* nor the row.                                                            *)
LEMMA ReorderedSame ==
    ASSUME NEW t \in TableSchema, NEW s \in InsertStatement, s.has_list,
           InsertError(t, s) = NoError, NEW p \in Orders(s)
    PROVE  /\ InsertError(t, Reordered(s, p)) = NoError
           /\ InsertRow(t, Reordered(s, p)) = InsertRow(t, s)
<1> DEFINE r == Reordered(s, p)
           n == Len(s.values)
<1>1. /\ r \in InsertStatement /\ r.has_list /\ DOMAIN r.values = 1 .. n
      /\ n \in Nat /\ DOMAIN s.values = 1 .. n
      /\ \A k \in 1 .. n : r.columns[k] = s.columns[p[k]] /\ r.values[k] = s.values[p[k]]
  <2>1. n \in Nat /\ DOMAIN s.values = 1 .. n
    BY DEF InsertStatement
  <2> QED
    BY <2>1, ReorderedType
<1>2. /\ p \in [1 .. n -> 1 .. n]
      /\ \A j, k \in 1 .. n : p[j] = p[k] => j = k
  BY <1>1 DEF Orders
<1> HIDE DEF r
<1>3. \A k \in 1 .. n : Target(t, r, k) = Target(t, s, p[k])
  BY <1>1 DEF Target
<1>4. \A m \in 1 .. n :
         /\ Target(t, s, m) \in DOMAIN t
         /\ \A j \in 1 .. n : Target(t, s, j) = Target(t, s, m) => j = m
         /\ LiteralFault(t[Target(t, s, m)], s.values[m]) = "none"
         /\ InsertRow(t, s)[Target(t, s, m)] = s.values[m].text
  BY <1>1, AcceptedPairs
<1>5. ASSUME NEW k \in 1 .. n
      PROVE  PairFault(t, r, k) = "none"
  <2> DEFINE c == Target(t, r, k)
  <2>1. c = Target(t, s, p[k]) /\ p[k] \in 1 .. n
    BY <1>2, <1>3
  <2>2. c \in DOMAIN t /\ LiteralFault(t[c], s.values[p[k]]) = "none"
    BY <1>4, <2>1
  <2>3. c # 0
    BY <2>2 DEF TableSchema
  <2>4. ~ \E j \in 1 .. k - 1 : Target(t, r, j) = c
    <3> SUFFICES ASSUME NEW j \in 1 .. k - 1, Target(t, r, j) = c PROVE FALSE
      OBVIOUS
    <3>1. j \in 1 .. n /\ j # k
      BY <1>1
    <3>2. p[j] \in 1 .. n /\ Target(t, s, p[j]) = Target(t, s, p[k])
      BY <1>2, <1>3, <2>1, <3>1
    <3>3. p[j] = p[k]
      BY <1>4, <2>1, <3>2
    <3> QED
      BY <1>2, <3>1, <3>3
  <2>5. PairFault(t, r, k) = LiteralFault(t[c], r.values[k])
    BY <2>3, <2>4, Zenon DEF PairFault
  <2> QED
    BY <1>1, <2>2, <2>5
<1>6. ~CountIsWrong(t, r)
  BY <1>1 DEF CountIsWrong
<1>7. FaultyPairs(t, r) = {}
  BY <1>1, <1>5 DEF FaultyPairs
<1>8. ASSUME NEW c \in DOMAIN t
      PROVE  \E k \in 1 .. n : Target(t, r, k) = c
  <2>1. PICK m \in 1 .. n : Target(t, s, m) = c
    BY <1>1, AcceptedProperties DEF Covered
  <2>2. PICK k \in 1 .. n : p[k] = m
    <3>1. n \in Nat
      BY <1>1
    <3> QED
      BY <1>2, <3>1, OrderTakesAll, ZenonT(30)
  <2> QED
    BY <1>3, <2>1, <2>2
<1>9. InsertError(t, r) = NoError
  BY <1>1, <1>6, <1>7, <1>8, AcceptedProperties DEF Covered
<1>10. ASSUME NEW c \in DOMAIN t
       PROVE  InsertRow(t, r)[c] = InsertRow(t, s)[c]
  <2>1. PICK k \in 1 .. n : Target(t, r, k) = c
    BY <1>8
  <2>2. InsertRow(t, r)[c] = r.values[k].text
    BY <1>1, <1>9, <2>1, AcceptedPairs
  <2>3. p[k] \in 1 .. n /\ Target(t, s, p[k]) = c
    BY <1>2, <1>3, <2>1
  <2>4. InsertRow(t, s)[c] = s.values[p[k]].text
    BY <1>4, <2>3
  <2> QED
    BY <1>1, <2>2, <2>4
<1>11. InsertRow(t, r) = InsertRow(t, s)
  <2>1. /\ InsertRow(t, r) = [c \in DOMAIN t |-> InsertRow(t, r)[c]]
        /\ InsertRow(t, s) = [c \in DOMAIN t |-> InsertRow(t, s)[c]]
    BY DEF InsertRow
  <2> QED
    BY <1>10, <2>1
<1> QED
  BY <1>9, <1>11 DEF r

(* The list of an accepted INSERT, as that of a SELECT, selects from the   *)
(* row its values in the order they were written.                          *)
LEMMA SelectedBack ==
    ASSUME NEW t \in TableSchema, NEW s \in InsertStatement, s.has_list,
           InsertError(t, s) = NoError,
           NEW select, select = [kind |-> "SELECT", all |-> FALSE, columns |-> s.columns]
    PROVE  /\ SelectError(t, select) = NoError
           /\ Project(InsertRow(t, s), SelectedIndices(t, select))
                = [k \in DOMAIN s.values |-> s.values[k].text]
<1>1. DOMAIN s.values = 1 .. Len(s.values) /\ DOMAIN s.columns = 1 .. Len(s.values)
  BY DEF InsertStatement
<1>2. \A k \in DOMAIN s.values :
         FindSchemaColumn(t, s.columns[k]) = Target(t, s, k)
  BY DEF Target
<1>3. \A k \in DOMAIN s.values :
         /\ Target(t, s, k) \in DOMAIN t
         /\ InsertRow(t, s)[Target(t, s, k)] = s.values[k].text
  BY AcceptedPairs
<1>4. \A k \in DOMAIN s.values : Target(t, s, k) # 0
  BY <1>3 DEF TableSchema
<1>5. UnknownColumns(t, select) = {}
  BY <1>1, <1>2, <1>4 DEF UnknownColumns
<1>6. SelectError(t, select) = NoError
  BY <1>5 DEF SelectError
<1>7. SelectedIndices(t, select) = [k \in DOMAIN s.values |-> Target(t, s, k)]
  BY <1>1, <1>2 DEF SelectedIndices
<1> QED
  BY <1>3, <1>6, <1>7 DEF Project

(* The row of an INSERT with a column list does not depend on the order of *)
(* its pairs, for any number of columns.                                   *)
THEOREM OrderCorrect == Spec => []OrderIsFree
<1>1. Init => TypeOK /\ LoopInvariant
  BY TypeInductive, LoopInductive
<1>2. TypeOK /\ LoopInvariant /\ [Next]_vars => TypeOK' /\ LoopInvariant'
  BY TypeInductive, LoopInductive
<1>3. TypeOK /\ LoopInvariant => OrderIsFree
  BY LoopsEnd, ReorderedSame DEF LoopsAgree, OrderIsFree, TypeOK
<1> QED
  BY <1>1, <1>2, <1>3, PTL DEF Spec

(* A SELECT with the column list of an INSERT shows its values in the      *)
(* order they were written.                                                *)
THEOREM ReadBackCorrect == Spec => []ReadBack
<1>1. Init => TypeOK /\ LoopInvariant
  BY TypeInductive, LoopInductive
<1>2. TypeOK /\ LoopInvariant /\ [Next]_vars => TypeOK' /\ LoopInvariant'
  BY TypeInductive, LoopInductive
<1>3. TypeOK /\ LoopInvariant => ReadBack
  BY LoopsEnd, SelectedBack DEF LoopsAgree, ReadBack, TypeOK
<1> QED
  BY <1>1, <1>2, <1>3, PTL DEF Spec
=============================================================================
