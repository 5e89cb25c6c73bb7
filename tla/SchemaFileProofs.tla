-------------------------- MODULE SchemaFileProofs --------------------------
(***************************************************************************)
(* What load_table_schema loads is a TableSchema within its limits, for    *)
(* every text of a schema file; it is what the line read declares, of a    *)
(* line that was cut the first columns, and its header fits the buffers.   *)
(***************************************************************************)
EXTENDS SchemaFile, ExecutorProofs, FiniteSetTheorems

(* A piece of a text is a text, no longer than what it was cut from.       *)
LEMMA SubText ==
    ASSUME NEW t \in Text, NEW m \in Nat \ {0}, NEW n \in Int, n <= Len(t)
    PROVE  SubSeq(t, m, n) \in Text /\ Len(SubSeq(t, m, n)) <= Len(t)
BY DEF Text

LEMMA UptoText ==
    ASSUME NEW t \in Text, NEW S
    PROVE  Upto(t, S) \in Text /\ Len(Upto(t, S)) <= Len(t)
<1> DEFINE I == {k \in 1 .. Len(t) : t[k] \in S}
<1>1. Upto(t, S) = LET at == IF I # {} THEN Least(I) ELSE 0
                   IN  IF at = 0 THEN t ELSE SubSeq(t, 1, at - 1)
  BY DEF Upto, SelectInSeq, Min, Least
<1>2. CASE I = {}
  BY <1>1, <1>2 DEF Text
<1>3. CASE I # {}
  <2>0. I \subseteq Nat
    BY DEF Text
  <2>1. Least(I) \in I
    BY <1>3, <2>0, LeastProperties, Zenon
  <2>2. Least(I) \in 1 .. Len(t)
    BY <2>1
  <2> HIDE DEF I
  <2>3. Upto(t, S) = SubSeq(t, 1, Least(I) - 1)
    BY <1>1, <1>3, <2>2
  <2> QED
    BY <2>2, <2>3, SubText DEF Text
<1> QED
  BY <1>2, <1>3

LEMMA LowerTextType ==
    ASSUME NEW t \in Text
    PROVE  LowerText(t) \in Text /\ Len(LowerText(t)) = Len(t)
<1>1. DOMAIN t = 1 .. Len(t) /\ Len(t) \in Nat
  BY DEF Text
<1>2. \A k \in 1 .. Len(t) : Lower[t[k]] \in Piece
  BY SchemaAssumption DEF Text
<1>3. LowerText(t) \in [1 .. Len(t) -> Piece]
  BY <1>1, <1>2 DEF LowerText
<1> QED
  BY <1>1, <1>3 DEF Text

LEMMA ColumnType ==
    ASSUME NEW entry \in Text, EntryFault(entry) = "none"
    PROVE  /\ ColumnOf(entry) \in Column
           /\ Len(ColumnOf(entry).name) \in 1 .. MaxNameLen - 1
<1>1. NamePart(entry) \in Text
  BY UptoText DEF NamePart
<1>2. /\ Len(NamePart(entry)) \in 1 .. MaxNameLen - 1
      /\ LowerText(TypePart(entry)) \in DOMAIN TypeNames
  <2>1. HasColon(entry)
    BY DEF EntryFault
  <2>2. ~(Len(NamePart(entry)) >= MaxNameLen)
    BY <2>1 DEF EntryFault
  <2>3. NamePart(entry) # <<>>
    BY <2>1 DEF EntryFault
  <2>4. Len(NamePart(entry)) \in 1 .. MaxNameLen - 1
    BY <1>1, <2>2, <2>3, SchemaAssumption DEF Text
  <2> QED
    BY <2>1, <2>2, <2>3, <2>4 DEF EntryFault
<1>3. TypeNames[LowerText(TypePart(entry))] \in DataType
  BY <1>2, SchemaAssumption
<1>4. LowerText(NamePart(entry)) \in Text /\ Len(LowerText(NamePart(entry))) = Len(NamePart(entry))
  BY <1>1, LowerTextType
<1> QED
  BY <1>2, <1>3, <1>4 DEF ColumnOf, Column

LEMMA FaultType ==
    ASSUME NEW entry
    PROVE  EntryFault(entry) \in {"none", "format", "long", "empty", "type"}
BY Zenon DEF EntryFault

LEMMA TypeInductive ==
    /\ Init => TypeOK
    /\ TypeOK /\ [Next]_vars => TypeOK'
<1>1. Init => TypeOK
  <2> SUFFICES ASSUME Init PROVE TypeOK
    OBVIOUS
  <2>1. file \in [exists : BOOLEAN, text : Text]
    <3>1. file \in [exists : {TRUE}, text : Text] \cup {NoFile}
      BY SchemaAssumption DEF Init
    <3>2. NoFile \in [exists : BOOLEAN, text : Text]
      BY DEF NoFile, Text
    <3> QED
      BY <3>1, <3>2
  <2>2. columns \in TableSchema
    BY MaxColumnsAssumption DEF Init, TableSchema
  <2> QED
    BY <2>1, <2>2 DEF Init, TypeOK, Text
<1>2. ASSUME TypeOK, [Next]_vars PROVE TypeOK'
  <2>0. ASSUME NEW message, Fail(message),
               message \in {"absent", "no line", "columns", "format", "long", "empty", "type",
                            "none given"}
        PROVE  TypeOK'
    BY <1>2, <2>0 DEF Fail, TypeOK
  <2>1. CASE OpenSchema
    <3>1. CASE ~file.exists
      BY <2>0, <2>1, <3>1 DEF OpenSchema
    <3>2. CASE file.exists /\ file.text = <<>>
      BY <2>0, <2>1, <3>2 DEF OpenSchema
    <3>3. CASE file.exists /\ file.text # <<>>
      <4>1. pc' = "entries" /\ line' = LineRead(file.text)
              /\ UNCHANGED <<file, cursor, columns, error>>
        BY <2>1, <3>3 DEF OpenSchema
      <4>2. file.text \in Text
        BY <1>2 DEF TypeOK
      <4> DEFINE part == SubSeq(file.text, 1, IF Len(file.text) < LineMax
                                              THEN Len(file.text) ELSE LineMax)
      <4>3. part \in Text
        BY <4>2, SubText, SchemaAssumption DEF Text
      <4> HIDE DEF part
      <4>4. LineRead(file.text) \in Text
        BY <4>3, UptoText DEF LineRead, part
      <4> QED
        BY <1>2, <4>1, <4>4 DEF TypeOK
    <3> QED
      BY <3>1, <3>2, <3>3
  <2>2. CASE ReadEntry
    <3> DEFINE entry == Upto(Rest, {Comma})
    <3>1. entry \in Text
      <4>1. line \in Text /\ cursor \in Nat \ {0}
        BY <1>2, Zenon DEF TypeOK
      <4>2. Len(line) \in Int
        BY <4>1 DEF Text
      <4>3. Rest \in Text
        BY <4>1, <4>2, SubText DEF Rest
      <4> QED
        BY <4>3, UptoText
    <3>2. columns \in Seq(Column) /\ Len(columns) \in Nat /\ MaxColumns \in Nat
      <4>1. columns \in TableSchema
        BY <1>2 DEF TypeOK
      <4>2. columns \in Seq(Column)
        BY <4>1 DEF TableSchema
      <4> QED
        BY <4>2, MaxColumnsAssumption
    <3> HIDE DEF entry
    <3>3. CASE Len(columns) >= MaxColumns
      <4>1. ~(Len(columns) < MaxColumns)
        BY <3>2, <3>3
      <4>2. Fail("columns")
        BY <2>2, <3>3, <4>1, Zenon DEF ReadEntry, entry
      <4> QED
        BY <2>0, <4>2
    <3>4. CASE ~(Len(columns) >= MaxColumns) /\ EntryFault(entry) # "none"
      <4>1. Len(columns) < MaxColumns
        BY <3>2, <3>4
      <4>2. Fail(EntryFault(entry))
        BY <2>2, <3>4, <4>1, Zenon DEF ReadEntry, entry
      <4> QED
        BY <2>0, <3>4, <4>2, FaultType
    <3>5. CASE ~(Len(columns) >= MaxColumns) /\ EntryFault(entry) = "none"
      <4>1. /\ columns' = Append(columns, ColumnOf(entry))
            /\ cursor' = cursor + Len(entry) + 1
            /\ UNCHANGED <<file, pc, line, error>>
        BY <2>2, <3>5, Zenon DEF ReadEntry, entry
      <4>2. ColumnOf(entry) \in Column /\ Len(ColumnOf(entry).name) \in 1 .. MaxNameLen - 1
        BY <3>1, <3>5, ColumnType
      <4>3. columns \in Seq(Column) /\ Len(columns) < MaxColumns
        BY <3>2, <3>5
      <4>4. columns' \in TableSchema /\ columns' # <<>>
        BY <3>2, <4>1, <4>2, <4>3 DEF TableSchema
      <4>5. \A c \in DOMAIN columns' : Len(columns'[c].name) \in 1 .. MaxNameLen - 1
        <5>1. \A c \in DOMAIN columns : Len(columns[c].name) \in 1 .. MaxNameLen - 1
          BY <1>2 DEF TypeOK
        <5>2. \A c \in DOMAIN columns' :
                columns'[c] = IF c \in DOMAIN columns THEN columns[c] ELSE ColumnOf(entry)
          BY <4>1, <4>2, <4>3
        <5> QED
          BY <4>2, <5>1, <5>2
      <4>6. cursor' \in Nat \ {0}
        <5>1. cursor \in Nat \ {0}
          BY <1>2, Zenon DEF TypeOK
        <5>2. Len(entry) \in Nat
          BY <3>1 DEF Text
        <5> QED
          BY <4>1, <5>1, <5>2
      <4> QED
        BY <1>2, <4>1, <4>4, <4>5, <4>6 DEF TypeOK
    <3> QED
      BY <3>3, <3>4, <3>5
  <2>3. CASE EndOfEntries
    <3>1. CASE columns = <<>>
      BY <2>0, <2>3, <3>1 DEF EndOfEntries
    <3>2. CASE columns # <<>>
      BY <1>2, <2>3, <3>2 DEF EndOfEntries, TypeOK
    <3> QED
      BY <3>1, <3>2
  <2>4. CASE UNCHANGED vars
    BY <1>2, <2>4 DEF vars, TypeOK
  <2> QED
    BY <1>2, <2>1, <2>2, <2>3, <2>4 DEF Next
<1> QED
  BY <1>1, <1>2

(* Whatever a schema file holds, what load_table_schema returns is what    *)
(* the executor assumes of a schema: no more columns than there are places *)
(* for, at least one, each with a name that fits and one of the two types. *)
THEOREM TypeCorrect == Spec => []TypeOK
<1> QED
  BY TypeInductive, PTL DEF Spec

-----------------------------------------------------------------------------
(* Texts that begin alike                                                  *)
-----------------------------------------------------------------------------
Part(t, m, n) == SubSeq(t, m, n)

LEMMA SubFacts ==
    ASSUME NEW t \in Text, NEW m \in Nat \ {0}, NEW n \in Nat, n <= Len(t), m <= n + 1
    PROVE  /\ Part(t, m, n) \in Text /\ Len(Part(t, m, n)) = n - m + 1
           /\ \A k \in 1 .. Len(Part(t, m, n)) : Part(t, m, n)[k] = t[m - 1 + k]
<1> DEFINE c == Part(t, m, n)
<1>1. Len(t) \in Nat
  BY DEF Text
<1>2. c \in Text /\ Len(c) = n - m + 1
  BY <1>1 DEF Text, Part
<1>3. \A k \in 1 .. n - m + 1 : c[k] = t[m - 1 + k]
  BY <1>1 DEF Text, Part
<1> QED
  BY <1>2, <1>3

(* What Upto cuts off: no more than there is, no character of the set, and *)
(* not less than it could.                                                 *)
LEMMA UptoSpec ==
    ASSUME NEW t \in Text, NEW S, NEW r, r = Upto(t, S)
    PROVE  /\ r \in Text /\ Len(r) <= Len(t) /\ Len(r) \in Nat /\ Len(t) \in Nat
           /\ \A k \in 1 .. Len(r) : r[k] = t[k] /\ t[k] \notin S
           /\ Len(r) < Len(t) => t[Len(r) + 1] \in S
<1>0. Len(t) \in Nat
  BY DEF Text
<1> DEFINE I == {k \in 1 .. Len(t) : t[k] \in S}
<1>1. r = LET at == IF I # {} THEN Least(I) ELSE 0
          IN  IF at = 0 THEN t ELSE SubSeq(t, 1, at - 1)
  BY DEF Upto, SelectInSeq, Min, Least
<1>2. CASE I = {}
  <2>1. r = t
    BY <1>1, <1>2
  <2>2. \A k \in 1 .. Len(t) : t[k] \notin S
    BY <1>2
  <2> QED
    BY <1>0, <2>1, <2>2
<1>3. CASE I # {}
  <2>0. I \subseteq Nat
    OBVIOUS
  <2>1. PICK n : n = Least(I) /\ n \in I /\ \A m \in I : n <= m
    <3> HIDE DEF I
    <3>1. Least(I) \in I /\ \A m \in I : Least(I) <= m
      BY <1>3, <2>0, LeastProperties
    <3> QED
      BY <3>1
  <2>2. /\ n \in 1 .. Len(t) /\ t[n] \in S
        /\ \A k \in 1 .. Len(t) : k < n => t[k] \notin S
    <3>1. n \in 1 .. Len(t) /\ t[n] \in S
      BY <2>1
    <3>2. ASSUME NEW k \in 1 .. Len(t), k < n, t[k] \in S PROVE FALSE
      <4>1. k \in I
        BY <3>2
      <4>2. n <= k
        BY <2>1, <4>1
      <4> QED
        BY <3>1, <3>2, <4>2
    <3> QED
      BY <3>1, <3>2
  <2> HIDE DEF I
  <2>3. r = SubSeq(t, 1, n - 1)
    BY <1>1, <1>3, <2>1, <2>2
  <2>4. n - 1 \in Nat /\ n - 1 <= Len(t) /\ 1 <= (n - 1) + 1 /\ 1 \in Nat \ {0}
    BY <1>0, <2>2
  <2>5. PICK m : m = n - 1
    OBVIOUS
  <2>6. /\ r \in Text /\ Len(r) = m - 1 + 1
        /\ \A k \in 1 .. Len(r) : r[k] = t[1 - 1 + k]
    <3>1. r = Part(t, 1, m) /\ m \in Nat /\ m <= Len(t) /\ 1 <= m + 1 /\ 1 \in Nat \ {0}
      BY <2>3, <2>4, <2>5 DEF Part
    <3> QED
      BY <3>1, SubFacts
  <2>8. /\ Len(r) = n - 1
        /\ \A k \in 1 .. Len(r) : 1 - 1 + k = k /\ k \in 1 .. Len(t) /\ k < n
    BY <1>0, <2>2, <2>5, <2>6
  <2>7. n - 1 + 1 = n
    BY <2>2
  <2> QED
    BY <1>0, <2>2, <2>4, <2>6, <2>7, <2>8
<1> QED
  BY <1>2, <1>3

Begins(s, t) == /\ s \in Text /\ t \in Text /\ Len(s) <= Len(t)
                /\ \A k \in 1 .. Len(s) : s[k] = t[k]

LEMMA BeginsEqual ==
    ASSUME NEW s, NEW t, Begins(s, t), Len(s) = Len(t)
    PROVE  s = t
BY DEF Begins, Text

(* Texts that begin alike are cut alike, unless the shorter one ends first. *)
LEMMA UptoBegins ==
    ASSUME NEW s, NEW t, Begins(s, t), NEW S
    PROVE  /\ Begins(Upto(s, S), Upto(t, S))
           /\ Len(Upto(s, S)) < Len(s) => Upto(s, S) = Upto(t, S)
<1> DEFINE a == Upto(s, S)
           b == Upto(t, S)
<1>1. /\ s \in Text /\ t \in Text /\ Len(s) <= Len(t)
      /\ \A k \in 1 .. Len(s) : s[k] = t[k]
  BY DEF Begins
<1>2. /\ a \in Text /\ Len(a) <= Len(s) /\ Len(a) \in Nat /\ Len(s) \in Nat
      /\ \A k \in 1 .. Len(a) : a[k] = s[k] /\ s[k] \notin S
      /\ Len(a) < Len(s) => s[Len(a) + 1] \in S
  BY <1>1, UptoSpec
<1>3. /\ b \in Text /\ Len(b) <= Len(t) /\ Len(b) \in Nat /\ Len(t) \in Nat
      /\ \A k \in 1 .. Len(b) : b[k] = t[k] /\ t[k] \notin S
      /\ Len(b) < Len(t) => t[Len(b) + 1] \in S
  BY <1>1, UptoSpec
<1> HIDE DEF a, b
<1>4. Len(a) <= Len(b)
  <2> SUFFICES ASSUME Len(b) < Len(a) PROVE FALSE
    BY <1>2, <1>3
  <2>1. PICK k : k = Len(b) + 1 /\ k \in 1 .. Len(a) /\ k \in 1 .. Len(s)
    BY <1>2, <1>3
  <2>2. t[k] \in S
    BY <1>1, <1>2, <1>3, <2>1
  <2> QED
    BY <1>1, <1>2, <2>1, <2>2
<1>5. \A k \in 1 .. Len(a) : k \in 1 .. Len(s) /\ k \in 1 .. Len(b)
  BY <1>2, <1>3, <1>4
<1>6. Begins(a, b)
  BY <1>1, <1>2, <1>3, <1>4, <1>5, Zenon DEF Begins
<1>7. ASSUME Len(a) < Len(s) PROVE a = b
  <2>1. PICK k : k = Len(a) + 1 /\ k \in 1 .. Len(s) /\ s[k] \in S
    BY <1>2, <1>7
  <2>2. t[k] \in S
    BY <1>1, <2>1
  <2>3. ~(Len(a) < Len(b))
    <3> SUFFICES ASSUME Len(a) < Len(b) PROVE FALSE
      OBVIOUS
    <3>1. k \in 1 .. Len(b)
      BY <1>2, <1>3, <2>1
    <3> QED
      BY <1>3, <2>2, <3>1
  <2>4. Len(a) = Len(b)
    BY <1>2, <1>3, <1>4, <2>3
  <2> QED
    BY <1>6, <2>4, BeginsEqual
<1> QED
  BY <1>6, <1>7 DEF a, b

LEMMA SubBegins ==
    ASSUME NEW s, NEW t, Begins(s, t), NEW m \in Nat \ {0}, m <= Len(s) + 1
    PROVE  Begins(SubSeq(s, m, Len(s)), SubSeq(t, m, Len(t)))
<1> DEFINE a == SubSeq(s, m, Len(s))
           b == SubSeq(t, m, Len(t))
<1>1. /\ s \in Text /\ t \in Text /\ Len(s) <= Len(t) /\ Len(s) \in Nat /\ Len(t) \in Nat
      /\ \A k \in 1 .. Len(s) : s[k] = t[k]
  BY DEF Begins, Text
<1>3. m <= Len(t) + 1 /\ Len(s) <= Len(s) /\ Len(t) <= Len(t)
  BY <1>1
<1>7. a = Part(s, m, Len(s)) /\ b = Part(t, m, Len(t))
  BY DEF Part
<1> HIDE DEF a, b
<1>2. /\ a \in Text /\ Len(a) = Len(s) - m + 1
      /\ \A k \in 1 .. Len(a) : a[k] = s[m - 1 + k]
  <2>1. PICK n : n = Len(s) /\ n \in Nat /\ n <= Len(s) /\ m <= n + 1 /\ a = Part(s, m, n)
    BY <1>1, <1>3, <1>7
  <2>2. s \in Text
    BY <1>1
  <2>3. /\ a \in Text /\ Len(a) = n - m + 1
        /\ \A k \in 1 .. Len(a) : a[k] = s[m - 1 + k]
    BY <2>1, <2>2, SubFacts
  <2> QED
    BY <2>1, <2>3
<1>4. /\ b \in Text /\ Len(b) = Len(t) - m + 1
      /\ \A k \in 1 .. Len(b) : b[k] = t[m - 1 + k]
  <2>1. PICK n : n = Len(t) /\ n \in Nat /\ n <= Len(t) /\ m <= n + 1 /\ b = Part(t, m, n)
    BY <1>1, <1>3, <1>7
  <2>2. t \in Text
    BY <1>1
  <2>3. /\ b \in Text /\ Len(b) = n - m + 1
        /\ \A k \in 1 .. Len(b) : b[k] = t[m - 1 + k]
    BY <2>1, <2>2, SubFacts
  <2> QED
    BY <2>1, <2>3
<1>5. /\ Len(a) <= Len(b)
      /\ \A k \in 1 .. Len(a) : k \in 1 .. Len(b) /\ m - 1 + k \in 1 .. Len(s)
  BY <1>1, <1>2, <1>4
<1>6. \A k \in 1 .. Len(a) : a[k] = b[k]
  BY <1>1, <1>2, <1>4, <1>5
<1> QED
  BY <1>2, <1>4, <1>5, <1>6, Zenon DEF Begins, a, b

-----------------------------------------------------------------------------
(* Entries and their numbers                                               *)
-----------------------------------------------------------------------------
LEMMA EntrySpec ==
    ASSUME NEW t \in Text, NEW k \in DOMAIN t, NEW e, e = EntryAt(t, k)
    PROVE  /\ e \in Text /\ Len(e) \in Nat /\ Len(t) \in Nat /\ k \in 1 .. Len(t)
           /\ k + Len(e) <= Len(t) + 1
           /\ \A i \in 1 .. Len(e) : e[i] = t[k - 1 + i] /\ t[k - 1 + i] # Comma
           /\ k + Len(e) <= Len(t) => t[k + Len(e)] = Comma
<1>1. Len(t) \in Nat /\ DOMAIN t = 1 .. Len(t)
  BY DEF Text
<1>2. PICK n : n = Len(t) /\ n \in Nat /\ n <= Len(t) /\ k <= n + 1 /\ k \in Nat \ {0}
  BY <1>1
<1>3. PICK c : c = Part(t, k, n)
  OBVIOUS
<1>4. /\ c \in Text /\ Len(c) = n - k + 1
      /\ \A i \in 1 .. Len(c) : c[i] = t[k - 1 + i]
  BY <1>2, <1>3, SubFacts
<1>5. PICK S : S = {Comma}
  OBVIOUS
<1>6. e = Upto(c, S)
  BY <1>2, <1>3, <1>5 DEF EntryAt, Part
<1>7. /\ e \in Text /\ Len(e) <= Len(c) /\ Len(e) \in Nat /\ Len(c) \in Nat
      /\ \A i \in 1 .. Len(e) : e[i] = c[i] /\ c[i] \notin S
      /\ Len(e) < Len(c) => c[Len(e) + 1] \in S
  BY <1>4, <1>6, UptoSpec
<1>8. ASSUME NEW i \in 1 .. Len(e) PROVE e[i] = t[k - 1 + i] /\ t[k - 1 + i] # Comma
  <2>1. i \in 1 .. Len(c)
    BY <1>7
  <2> QED
    BY <1>4, <1>5, <1>7, <2>1
<1>9. ASSUME k + Len(e) <= Len(t) PROVE t[k + Len(e)] = Comma
  <2>1. PICK i : i = Len(e) + 1 /\ i \in 1 .. Len(c) /\ k - 1 + i = k + Len(e) /\ Len(e) < Len(c)
    BY <1>1, <1>2, <1>4, <1>7, <1>9
  <2>2. c[i] = Comma
    BY <1>5, <1>7, <2>1
  <2> QED
    BY <1>4, <2>1, <2>2
<1> QED
  BY <1>1, <1>2, <1>4, <1>7, <1>8, <1>9

Below(t, c) == {j \in EntryStarts(t) : j < c}

(* Behind an entry and its comma begins the next one.                      *)
LEMMA NextStart ==
    ASSUME NEW t \in Text, NEW c \in EntryStarts(t),
           NEW d, d = c + Len(EntryAt(t, c)) + 1
    PROVE  /\ Below(t, d) = Below(t, c) \cup {c}
           /\ d \in EntryStarts(t) \/ d > Len(t)
           /\ d \in Nat \ {0} /\ d <= Len(t) + 2
<1>1. c \in DOMAIN t
  BY DEF EntryStarts
<1>2. PICK e : e = EntryAt(t, c)
  OBVIOUS
<1>3. /\ e \in Text /\ Len(e) \in Nat /\ Len(t) \in Nat /\ c \in 1 .. Len(t)
      /\ c + Len(e) <= Len(t) + 1
      /\ \A i \in 1 .. Len(e) : e[i] = t[c - 1 + i] /\ t[c - 1 + i] # Comma
      /\ c + Len(e) <= Len(t) => t[c + Len(e)] = Comma
  BY <1>1, <1>2, EntrySpec
<1>4. d = c + Len(e) + 1 /\ DOMAIN t = 1 .. Len(t)
  BY <1>2 DEF Text
<1>5. ASSUME NEW j \in EntryStarts(t), c < j, j < d PROVE FALSE
  <2>1. j \in 1 .. Len(t) /\ j # 1 /\ t[j - 1] = Comma
    BY <1>3, <1>4, <1>5 DEF EntryStarts
  <2>2. PICK i : i = j - c /\ i \in 1 .. Len(e) /\ c - 1 + i = j - 1
    BY <1>3, <1>4, <1>5, <2>1
  <2> QED
    BY <1>3, <2>1, <2>2
<1>6. \A j \in EntryStarts(t) : j \in Nat
  BY <1>4 DEF EntryStarts
<1>7. \A j \in EntryStarts(t) : j < d <=> j < c \/ j = c
  <2> TAKE j \in EntryStarts(t)
  <2>1. j \in Nat /\ d \in Nat /\ c \in Nat /\ c < d
    BY <1>3, <1>4, <1>6
  <2>2. ~(c < j /\ j < d)
    BY <1>5
  <2> QED
    BY <2>1, <2>2
<1>8. Below(t, d) = Below(t, c) \cup {c}
  BY <1>7 DEF Below
<1>9. ASSUME ~(d > Len(t)) PROVE d \in EntryStarts(t)
  <2>0. PICK n, m : n = Len(t) /\ n \in Nat /\ m = Len(e) /\ m \in Nat /\ c \in 1 .. n
                      /\ d = c + m + 1 /\ ~(d > n)
    BY <1>3, <1>4, <1>9, Zenon
  <2>1. d \in 1 .. Len(t) /\ d - 1 = c + Len(e) /\ c + Len(e) <= Len(t) /\ d # 1
    BY <2>0
  <2> QED
    BY <1>3, <1>4, <2>1 DEF EntryStarts
<1>10. d \in Nat \ {0} /\ d <= Len(t) + 2
  BY <1>3, <1>4
<1> QED
  BY <1>8, <1>9, <1>10

(* The entries before a place are those with the lowest numbers.           *)
LEMMA NumberFacts ==
    ASSUME NEW t \in Text, NEW c \in Nat
    PROVE  /\ Cardinality(Below(t, c)) \in Nat /\ Cardinality(EntryStarts(t)) \in Nat
           /\ Cardinality(Below(t, c)) <= Cardinality(EntryStarts(t))
           /\ \A k \in Below(t, c) : Number(t, k) \in 1 .. Cardinality(Below(t, c))
           /\ \A k \in EntryStarts(t) \ Below(t, c) :
                Number(t, k) > Cardinality(Below(t, c)) /\ Number(t, k) \in Nat
           /\ c \in EntryStarts(t) =>
                /\ Number(t, c) = Cardinality(Below(t, c)) + 1
                /\ Cardinality(Below(t, c) \cup {c}) = Cardinality(Below(t, c)) + 1
                /\ Cardinality(Below(t, c)) < Cardinality(EntryStarts(t))
<1> DEFINE A == EntryStarts(t)
           B == Below(t, c)
           C(k) == {j \in EntryStarts(t) : j <= k}
<1>1. Len(t) \in Nat /\ A \subseteq 1 .. Len(t)
  BY DEF EntryStarts, Text
<1>2. IsFiniteSet(A)
  <2>1. PICK L : L = 1 .. Len(t)
    OBVIOUS
  <2>2. IsFiniteSet(L)
    BY <1>1, <2>1, FS_Interval
  <2> HIDE DEF A
  <2>3. A \in SUBSET L
    BY <1>1, <2>1
  <2> QED
    BY <2>2, <2>3, FS_Subset
<1>3. B \in SUBSET A /\ \A k \in A : C(k) \in SUBSET A
  BY DEF Below
<1>4. \A k : Number(t, k) = Cardinality(C(k))
  BY DEF Number
<1>5. \A j \in A : j \in B <=> j < c
  BY DEF Below
<1>6. \A k \in A : \A j \in A : j \in C(k) <=> j <= k
  OBVIOUS
<1> HIDE DEF A, B, C
<1>7. IsFiniteSet(B) /\ Cardinality(B) \in Nat /\ Cardinality(A) \in Nat /\ Cardinality(B) <= Cardinality(A)
  BY <1>2, <1>3, FS_Subset, FS_CardinalityType
<1>8. \A j \in A : j \in Nat
  BY <1>1
<1>9. ASSUME NEW k \in B PROVE Cardinality(C(k)) \in 1 .. Cardinality(B)
  <2>1. k \in A /\ C(k) \in SUBSET B
    <3>1. k \in A /\ k < c
      BY <1>3, <1>5, <1>9
    <3>2. \A j \in C(k) : j \in A /\ j < c
      BY <1>3, <1>6, <1>8, <3>1
    <3> QED
      BY <1>5, <3>1, <3>2
  <2>2. k \in C(k)
    BY <1>6, <1>8, <2>1
  <2>3. IsFiniteSet(C(k)) /\ Cardinality(C(k)) <= Cardinality(B) /\ Cardinality(C(k)) \in Nat
    BY <1>7, <2>1, FS_Subset, FS_CardinalityType
  <2>4. Cardinality(C(k)) # 0
    BY <2>2, <2>3, FS_EmptySet
  <2> QED
    BY <1>7, <2>3, <2>4
<1>10. ASSUME NEW k \in A, k \notin B
       PROVE  /\ Cardinality(B \cup {k}) = Cardinality(B) + 1 /\ IsFiniteSet(B \cup {k})
              /\ Cardinality(C(k)) \in Nat /\ Cardinality(C(k)) >= Cardinality(B) + 1
  <2>1. IsFiniteSet(C(k)) /\ Cardinality(C(k)) \in Nat
    BY <1>2, <1>3, FS_Subset, FS_CardinalityType
  <2>2. IsFiniteSet(B \cup {k}) /\ Cardinality(B \cup {k}) = Cardinality(B) + 1
    BY <1>7, <1>10, FS_AddElement
  <2>3. B \cup {k} \in SUBSET C(k)
    <3>1. \A j \in B : j \in A /\ j < c /\ j \in Nat
      BY <1>3, <1>5, <1>8
    <3>2. ~(k < c) /\ k \in Nat
      BY <1>5, <1>8, <1>10
    <3>3. \A j \in B : j <= k
      BY <3>1, <3>2
    <3> QED
      BY <1>6, <3>1, <3>2, <3>3
  <2>4. Cardinality(B \cup {k}) <= Cardinality(C(k))
    BY <2>1, <2>3, FS_Subset
  <2> QED
    BY <2>1, <2>2, <2>4
<1>11. ASSUME c \in A
       PROVE  /\ Cardinality(C(c)) = Cardinality(B) + 1
              /\ Cardinality(B \cup {c}) = Cardinality(B) + 1
              /\ Cardinality(B) < Cardinality(A)
  <2>1. c \notin B
    BY <1>5, <1>11
  <2>2. C(c) = B \cup {c}
    <3>1. \A j \in A : j <= c <=> j < c \/ j = c
      BY <1>8
    <3> QED
      BY <1>3, <1>5, <1>6, <1>11, <3>1
  <2>3. B \cup {c} \in SUBSET A
    BY <1>3, <1>11
  <2>4. Cardinality(B \cup {c}) <= Cardinality(A)
    BY <1>2, <2>3, FS_Subset
  <2> QED
    BY <1>7, <1>10, <1>11, <2>1, <2>2, <2>4
<1>12. ASSUME NEW k \in A \ B PROVE Cardinality(C(k)) > Cardinality(B) /\ Cardinality(C(k)) \in Nat
  <2>1. k \in A /\ k \notin B
    OBVIOUS
  <2>2. PICK m, n : /\ m = Cardinality(C(k)) /\ n = Cardinality(B)
                    /\ m \in Nat /\ n \in Nat /\ m >= n + 1
    BY <1>7, <1>10, <2>1
  <2>3. m > n
    BY <2>2
  <2> QED
    BY <2>2, <2>3
<1> QED
  BY <1>4, <1>7, <1>9, <1>11, <1>12 DEF A, B

-----------------------------------------------------------------------------
(* The header of the columns                                               *)
-----------------------------------------------------------------------------
Sign == Piece \cup {Comma}
Labelled(column) == column.name \o <<Comma>>

LEMMA LabelledFacts ==
    ASSUME NEW c \in Column
    PROVE  /\ Labelled(c) \in Seq(Sign) /\ Len(c.name) \in Nat
           /\ Len(Labelled(c)) = Len(c.name) + 1
<1>1. PICK s : s = c.name /\ s \in Seq(Sign)
  <2>1. c.name \in Seq(Piece) /\ Piece \subseteq Sign
    BY DEF Column, Text, Sign
  <2> QED
    BY <2>1
<1>2. PICK e : e = Comma /\ e \in Sign
  BY DEF Sign
<1>3. PICK t : t = s \o <<e>>
  OBVIOUS
<1>4. t \in Seq(Sign) /\ Len(t) = Len(s) + 1 /\ Len(s) \in Nat
  BY <1>1, <1>2, <1>3, Ended
<1> QED
  BY <1>1, <1>2, <1>3, <1>4 DEF Labelled

LEMMA HeaderType ==
    ASSUME NEW p \in Seq(Column)
    PROVE  Header(p) \in Seq(Sign) /\ Len(Header(p)) \in Nat
<1> DEFINE q == [n \in DOMAIN p |-> Labelled(p[n])]
<1>1. Header(p) = FlattenSeq(q)
  BY DEF Header, Labelled
<1>2. Len(p) \in Nat /\ DOMAIN p = 1 .. Len(p) /\ \A n \in 1 .. Len(p) : p[n] \in Column
  BY LenProperties, ElementOfSeq
<1>3. q \in [1 .. Len(p) -> Seq(Sign)]
  BY <1>2, LabelledFacts
<1> HIDE DEF q
<1>4. q \in Seq(Seq(Sign))
  BY <1>2, <1>3, FunctionIsSeq
<1>5. FlattenSeq(q) \in Seq(Sign)
  <2>1. CASE q = <<>>
    <3>1. FlattenSeq(q) = <<>>
      BY <2>1 DEF FlattenSeq
    <3> QED
      BY <3>1, EmptySeq
  <2>2. CASE q # <<>>
    BY <1>4, <2>2, FlattenPlaces
  <2> QED
    BY <2>1, <2>2
<1> QED
  BY <1>1, <1>5, LenProperties

LEMMA HeaderGrows ==
    ASSUME NEW p \in Seq(Column), NEW c \in Column
    PROVE  Len(Header(Append(p, c))) = Len(Header(p)) + Len(c.name) + 1
<1> DEFINE m == Len(p)
           longer == Append(p, c)
           q == [n \in DOMAIN p |-> Labelled(p[n])]
           r == [n \in DOMAIN longer |-> Labelled(longer[n])]
<1>1. /\ m \in Nat /\ DOMAIN p = 1 .. m /\ \A n \in 1 .. m : p[n] \in Column
      /\ DOMAIN longer = 1 .. m + 1 /\ longer[m + 1] = c
      /\ \A n \in 1 .. m : longer[n] = p[n]
  BY AppendProperties, LenProperties, ElementOfSeq
<1>2. \A n \in 1 .. m : Labelled(p[n]) \in Seq(Sign)
  BY <1>1, LabelledFacts
<1>3. Labelled(c) \in Seq(Sign)
  BY LabelledFacts
<1>4. q \in [1 .. m -> Seq(Sign)] /\ \A n \in 1 .. m : q[n] = Labelled(p[n])
  BY <1>1, <1>2
<1>5. r = [n \in 1 .. m + 1 |-> Labelled(longer[n])]
  BY <1>1
<1>6. Header(p) = FlattenSeq(q) /\ Header(longer) = FlattenSeq(r)
  BY DEF Header, Labelled
<1> HIDE DEF m, q, r, longer
<1>7. q \in Seq(Seq(Sign)) /\ Len(q) = m
  BY <1>1, <1>4, FunctionIsSeq
<1>8. /\ r[m + 1] = Labelled(c) /\ \A n \in 1 .. m : r[n] = q[n]
      /\ r \in [1 .. m + 1 -> Seq(Sign)]
  <2>1. /\ m + 1 \in 1 .. m + 1 /\ \A n \in 1 .. m : n \in 1 .. m + 1
        /\ \A n \in 1 .. m + 1 : n \in 1 .. m \/ n = m + 1
    BY <1>1
  <2>2. \A n \in 1 .. m + 1 : Labelled(longer[n]) \in Seq(Sign)
    BY <1>1, <1>2, <1>3, <2>1
  <2> QED
    BY <1>1, <1>4, <1>5, <2>1, <2>2
<1>9. r \in Seq(Seq(Sign)) /\ Len(r) = m + 1
  <2>1. m + 1 \in Nat
    BY <1>1
  <2> QED
    BY <1>8, <2>1, FunctionIsSeq
<1>10. PICK e : e = Labelled(c) /\ e \in Seq(Sign)
  BY <1>3
<1>11. PICK a : a = Append(q, e)
  OBVIOUS
<1>12. /\ a \in Seq(Seq(Sign)) /\ Len(a) = m + 1 /\ a[m + 1] = e
       /\ \A n \in 1 .. m : a[n] = q[n]
  BY <1>7, <1>10, <1>11, AppendProperties
<1>13. r = a
  <2>1. \A n \in 1 .. m + 1 : n \in 1 .. m \/ n = m + 1
    BY <1>1
  <2>2. \A n \in 1 .. Len(r) : r[n] = a[n]
    BY <1>8, <1>9, <1>10, <1>12, <2>1
  <2> QED
    BY <1>9, <1>12, <2>2, SeqEqual
<1>14. FlattenSeq(r) = FlattenSeq(q) \o e
  BY <1>7, <1>10, <1>11, <1>13, FlattenAppend
<1>15. PICK h : h = Header(p) /\ h \in Seq(Sign) /\ Len(h) \in Nat
  BY HeaderType
<1>16. Header(longer) = h \o e
  BY <1>6, <1>14, <1>15
<1>17. Len(h \o e) = Len(h) + Len(e)
  BY <1>10, <1>15, ConcatFacts
<1>18. Len(e) = Len(c.name) + 1 /\ Len(c.name) \in Nat
  BY <1>10, LabelledFacts
<1> QED
  BY <1>15, <1>16, <1>17, <1>18 DEF longer

-----------------------------------------------------------------------------
(* The line of a schema file and what follows a colon in it                *)
-----------------------------------------------------------------------------
LEMMA LineSpec ==
    ASSUME NEW t \in Text
    PROVE  /\ LineRead(t) \in Text /\ Len(LineRead(t)) <= LineMax
           /\ Begins(LineRead(t), Upto(t, LineEnds))
<1> DEFINE n == IF Len(t) < LineMax THEN Len(t) ELSE LineMax
<1>1. Len(t) \in Nat /\ LineMax \in Nat
  BY SchemaAssumption DEF Text
<1>2. n \in Nat /\ n <= Len(t) /\ n <= LineMax /\ 1 <= n + 1 /\ 1 \in Nat \ {0}
  BY <1>1
<1>3. LineRead(t) = Upto(Part(t, 1, n), LineEnds)
  BY DEF LineRead, Part
<1> HIDE DEF n
<1>4. PICK c : c = Part(t, 1, n)
  OBVIOUS
<1>5. /\ c \in Text /\ Len(c) = n - 1 + 1
      /\ \A k \in 1 .. Len(c) : c[k] = t[1 - 1 + k]
  BY <1>2, <1>4, SubFacts
<1>6. Len(c) = n /\ \A k \in 1 .. Len(c) : c[k] = t[k]
  <2>1. Len(c) = n /\ \A k \in 1 .. Len(c) : 1 - 1 + k = k
    BY <1>2, <1>5
  <2> QED
    BY <1>5, <2>1
<1>7. Begins(c, t)
  BY <1>2, <1>5, <1>6 DEF Begins
<1>8. Begins(LineRead(t), Upto(t, LineEnds))
  BY <1>3, <1>4, <1>7, UptoBegins
<1>9. PICK r : r = LineRead(t) /\ r = Upto(c, LineEnds)
  BY <1>3, <1>4
<1>10. r \in Text /\ Len(r) <= Len(c) /\ Len(r) \in Nat
  BY <1>5, <1>9, UptoSpec
<1>11. Len(r) <= LineMax
  BY <1>1, <1>2, <1>6, <1>10
<1> QED
  BY <1>8, <1>9, <1>10, <1>11

LEMMA NameSpec ==
    ASSUME NEW e \in Text
    PROVE  /\ NamePart(e) \in Text /\ Len(NamePart(e)) \in Nat /\ Len(e) \in Nat
           /\ HasColon(e) => Len(NamePart(e)) < Len(e)
<1>1. PICK S : S = {Colon}
  OBVIOUS
<1>2. PICK r : r = NamePart(e) /\ r = Upto(e, S)
  BY <1>1 DEF NamePart
<1>3. /\ r \in Text /\ Len(r) <= Len(e) /\ Len(r) \in Nat /\ Len(e) \in Nat
      /\ \A k \in 1 .. Len(r) : r[k] = e[k] /\ e[k] \notin S
  BY <1>2, UptoSpec
<1>4. ASSUME HasColon(e), ~(Len(r) < Len(e)) PROVE FALSE
  <2>1. Len(r) = Len(e)
    BY <1>3, <1>4
  <2>2. DOMAIN e = 1 .. Len(e)
    BY DEF Text
  <2>3. PICK k \in 1 .. Len(e) : e[k] = Colon
    BY <1>4, <2>2 DEF HasColon, ToSet
  <2> QED
    BY <1>1, <1>3, <2>1, <2>3
<1> QED
  BY <1>2, <1>3, <1>4

LEMMA LowerBegins ==
    ASSUME NEW s, NEW t, Begins(s, t)
    PROVE  Begins(LowerText(s), LowerText(t))
<1>1. /\ s \in Text /\ t \in Text /\ Len(s) <= Len(t) /\ Len(s) \in Nat /\ Len(t) \in Nat
      /\ DOMAIN s = 1 .. Len(s) /\ DOMAIN t = 1 .. Len(t)
      /\ \A k \in 1 .. Len(s) : s[k] = t[k]
  BY DEF Begins, Text
<1>2. /\ LowerText(s) \in Text /\ Len(LowerText(s)) = Len(s)
      /\ LowerText(t) \in Text /\ Len(LowerText(t)) = Len(t)
  BY <1>1, LowerTextType
<1>3. \A k \in 1 .. Len(s) : LowerText(s)[k] = LowerText(t)[k]
  <2> TAKE k \in 1 .. Len(s)
  <2>1. k \in 1 .. Len(t)
    BY <1>1
  <2> QED
    BY <1>1, <2>1 DEF LowerText
<1> QED
  BY <1>1, <1>2, <1>3 DEF Begins

(* An entry cut short that is still good declares what the whole declares: *)
(* the name ends at the same colon, and no type begins another.            *)
LEMMA CutEntry ==
    ASSUME NEW s, NEW t, Begins(s, t), EntryFault(s) = "none", EntryFault(t) = "none"
    PROVE  NamePart(s) = NamePart(t) /\ LowerText(TypePart(s)) = LowerText(TypePart(t))
<1>1. s \in Text /\ t \in Text
  BY DEF Begins
<1>2. /\ HasColon(s) /\ LowerText(TypePart(s)) \in DOMAIN TypeNames
      /\ LowerText(TypePart(t)) \in DOMAIN TypeNames
  <2>1. ASSUME NEW e \in Text, EntryFault(e) = "none"
        PROVE  HasColon(e) /\ LowerText(TypePart(e)) \in DOMAIN TypeNames
    <3>1. HasColon(e)
      BY <2>1 DEF EntryFault
    <3>2. ~(Len(NamePart(e)) >= MaxNameLen)
      BY <2>1, <3>1 DEF EntryFault
    <3>3. NamePart(e) # <<>>
      BY <2>1, <3>1 DEF EntryFault
    <3>4. Len(NamePart(e)) \in 1 .. MaxNameLen - 1
      BY <3>2, <3>3, NameSpec, SchemaAssumption DEF Text
    <3> QED
      BY <2>1, <3>1, <3>2, <3>3, <3>4 DEF EntryFault
  <2> QED
    BY <1>1, <2>1
<1>3. /\ NamePart(s) \in Text /\ Len(NamePart(s)) \in Nat /\ Len(s) \in Nat
      /\ Len(NamePart(s)) < Len(s)
  BY <1>1, <1>2, NameSpec
<1>4. NamePart(s) = NamePart(t)
  BY <1>3, UptoBegins DEF NamePart
<1>5. PICK m : m = Len(NamePart(s)) + 2 /\ m \in Nat \ {0} /\ m <= Len(s) + 1
  BY <1>3
<1>6. Begins(SubSeq(s, m, Len(s)), SubSeq(t, m, Len(t)))
  BY <1>5, SubBegins
<1>7. TypePart(s) = SubSeq(s, m, Len(s)) /\ TypePart(t) = SubSeq(t, m, Len(t))
  BY <1>4, <1>5 DEF TypePart
<1>8. PICK x, y : x = LowerText(TypePart(s)) /\ y = LowerText(TypePart(t))
  OBVIOUS
<1>9. Begins(x, y)
  BY <1>6, <1>7, <1>8, LowerBegins
<1>10. IsPrefix(x, y)
  <2>1. /\ x \in Text /\ y \in Text /\ Len(x) <= Len(y) /\ Len(x) \in Nat
        /\ \A k \in 1 .. Len(x) : x[k] = y[k]
    BY <1>9 DEF Begins, Text
  <2>2. SubSeq(x, 1, Len(x)) = SubSeq(y, 1, Len(x))
    BY <2>1 DEF Text
  <2> QED
    BY <2>1, <2>2 DEF IsPrefix
<1>11. x = y
  BY <1>2, <1>8, <1>10, SchemaAssumption
<1> QED
  BY <1>4, <1>8, <1>11

-----------------------------------------------------------------------------
(* What is loaded of a line                                                *)
-----------------------------------------------------------------------------
(* The columns so far are those of the entries before the cursor, all of   *)
(* them good, and an error is that of the entry at the cursor.  An entry   *)
(* took at least two characters more than the name it leaves.              *)
Opened == pc # "open" /\ file.exists /\ file.text # <<>>

LoadInv ==
    /\ pc = "open" => cursor = 1 /\ columns = <<>>
    /\ pc \in {"entries", "loaded"} => Opened
    /\ Opened =>
         /\ line = LineRead(file.text)
         /\ cursor \in EntryStarts(line) \/ cursor > Len(line)
         /\ cursor <= Len(line) + 2
         /\ Len(columns) = Cardinality(Below(line, cursor))
         /\ \A k \in Below(line, cursor) : /\ EntryFault(EntryAt(line, k)) = "none"
                                           /\ columns[Number(line, k)] = DeclaredAt(line, k)
         /\ Len(Header(columns)) + Len(columns) < cursor
    /\ pc = "loaded" => cursor > Len(line) /\ columns # <<>>
    /\ pc = "refused" /\ Opened =>
         \/ error = "none given" /\ columns = <<>> /\ cursor > Len(line)
         \/ error = "columns" /\ cursor \in EntryStarts(line) /\ Len(columns) >= MaxColumns
         \/ /\ cursor \in EntryStarts(line)
            /\ error = EntryFault(EntryAt(line, cursor)) /\ error # "none"

LEMMA TypeFacts ==
    ASSUME TypeOK
    PROVE  /\ line \in Text /\ Len(line) \in Nat /\ cursor \in Nat \ {0} /\ cursor \in Nat
           /\ columns \in Seq(Column) /\ Len(columns) \in Nat /\ MaxColumns \in Nat \ {0}
<1>1. line \in Text /\ cursor \in Nat \ {0} /\ columns \in TableSchema
  BY Zenon DEF TypeOK
<1>2. Len(line) \in Nat
  BY <1>1 DEF Text
<1>3. columns \in Seq(Column)
  BY <1>1 DEF TableSchema
<1>4. Len(columns) \in Nat
  BY <1>3, LenProperties
<1> QED
  BY <1>1, <1>2, <1>3, <1>4, MaxColumnsAssumption

(* One entry more.                                                         *)
LEMMA EntryLoaded ==
    ASSUME TypeOK, LoadInv, pc = "entries", cursor <= Len(line),
           NEW entry, entry = EntryAt(line, cursor), EntryFault(entry) = "none",
           columns' = Append(columns, ColumnOf(entry)),
           cursor' = cursor + Len(entry) + 1,
           UNCHANGED <<file, pc, line, error>>
    PROVE  LoadInv'
<1>1. /\ line \in Text /\ Len(line) \in Nat /\ cursor \in Nat \ {0} /\ columns \in Seq(Column)
      /\ Len(columns) \in Nat
  BY TypeFacts
<1>2. /\ Opened /\ line = LineRead(file.text) /\ cursor \in EntryStarts(line)
      /\ Len(columns) = Cardinality(Below(line, cursor))
      /\ \A k \in Below(line, cursor) : /\ EntryFault(EntryAt(line, k)) = "none"
                                        /\ columns[Number(line, k)] = DeclaredAt(line, k)
      /\ Len(Header(columns)) + Len(columns) < cursor
  <2>1. Opened
    BY DEF LoadInv
  <2>2. ~(cursor > Len(line))
    BY <1>1
  <2> QED
    BY <2>1, <2>2 DEF LoadInv
<1>3. /\ Below(line, cursor') = Below(line, cursor) \cup {cursor}
      /\ cursor' \in EntryStarts(line) \/ cursor' > Len(line)
      /\ cursor' \in Nat \ {0} /\ cursor' <= Len(line) + 2
  BY <1>1, <1>2, NextStart
<1>4. /\ Number(line, cursor) = Len(columns) + 1
      /\ Cardinality(Below(line, cursor')) = Len(columns) + 1
      /\ \A k \in Below(line, cursor) : Number(line, k) \in 1 .. Len(columns)
  <2>1. PICK n : n = cursor /\ n \in Nat /\ n \in EntryStarts(line)
    BY <1>1, <1>2
  <2>2. /\ Number(line, n) = Cardinality(Below(line, n)) + 1
        /\ Cardinality(Below(line, n) \cup {n}) = Cardinality(Below(line, n)) + 1
        /\ \A k \in Below(line, n) : Number(line, k) \in 1 .. Cardinality(Below(line, n))
    BY <1>1, <2>1, NumberFacts
  <2> QED
    BY <1>2, <1>3, <2>1, <2>2
<1>5. cursor \in DOMAIN line
  BY <1>2 DEF EntryStarts
<1>6. entry \in Text /\ Len(entry) \in Nat
  BY <1>1, <1>5, EntrySpec
<1>7. PICK c : c = ColumnOf(entry) /\ c \in Column
  BY <1>6, ColumnType
<1>8. /\ Len(columns') = Len(columns) + 1 /\ columns'[Len(columns) + 1] = c
      /\ \A k \in 1 .. Len(columns) : columns'[k] = columns[k]
  BY <1>1, <1>7, AppendProperties
<1>9. ASSUME NEW k \in Below(line, cursor')
      PROVE  /\ EntryFault(EntryAt(line, k)) = "none"
             /\ columns'[Number(line, k)] = DeclaredAt(line, k)
  <2>1. CASE k \in Below(line, cursor)
    BY <1>2, <1>4, <1>8, <2>1
  <2>2. CASE k = cursor
    <3>1. DeclaredAt(line, cursor) = c
      BY <1>7 DEF DeclaredAt, ColumnOf
    <3> QED
      BY <1>4, <1>8, <2>2, <3>1
  <2> QED
    BY <1>3, <2>1, <2>2
<1>10. Len(Header(columns')) + Len(columns') < cursor'
  <2>1. PICK h : h = Len(Header(columns)) /\ h \in Nat /\ h + Len(columns) < cursor
    BY <1>1, <1>2, HeaderType
  <2>2. PICK n : n = Len(NamePart(entry)) /\ n \in Nat /\ n < Len(entry)
    <3>1. HasColon(entry)
      BY DEF EntryFault
    <3> QED
      BY <1>6, <3>1, NameSpec
  <2>3. Len(c.name) = n
    <3>1. NamePart(entry) \in Text
      BY <1>6, NameSpec
    <3> QED
      BY <1>7, <2>2, <3>1, LowerTextType DEF ColumnOf
  <2>4. Len(Header(columns')) = h + n + 1
    BY <1>1, <1>7, <2>1, <2>3, HeaderGrows
  <2> QED
    BY <1>1, <1>6, <1>8, <2>1, <2>2, <2>4
<1>11. /\ line' = line /\ pc' = "entries" /\ file' = file /\ Opened'
       /\ Below(line', cursor') = Below(line, cursor')
  BY <1>2 DEF Opened
<1>12. \A k \in Below(line', cursor') : /\ EntryFault(EntryAt(line', k)) = "none"
                                        /\ columns'[Number(line', k)] = DeclaredAt(line', k)
  BY <1>9, <1>11
<1> QED
  BY <1>2, <1>3, <1>4, <1>8, <1>10, <1>11, <1>12 DEF LoadInv

LEMMA LoadInductive ==
    /\ Init => LoadInv
    /\ TypeOK /\ LoadInv /\ [Next]_vars => LoadInv'
<1>1. Init => LoadInv
  BY DEF Init, LoadInv, Opened
<1>2. ASSUME TypeOK, LoadInv, [Next]_vars PROVE LoadInv'
  <2>1. CASE OpenSchema
    <3>1. CASE ~file.exists \/ file.text = <<>>
      <4>1. pc' = "refused" /\ UNCHANGED <<file, line, cursor, columns>>
        BY <2>1, <3>1 DEF OpenSchema, Fail
      <4> QED
        BY <3>1, <4>1 DEF LoadInv, Opened
    <3>2. CASE file.exists /\ file.text # <<>>
      <4>1. /\ pc' = "entries" /\ line' = LineRead(file.text)
            /\ UNCHANGED <<file, cursor, columns, error>> /\ cursor = 1 /\ columns = <<>>
        BY <1>2, <2>1, <3>2 DEF OpenSchema, LoadInv
      <4>2. PICK t : t = LineRead(file.text) /\ t \in Text /\ Len(t) \in Nat /\ DOMAIN t = 1 .. Len(t)
        <5>1. file.text \in Text
          BY <1>2 DEF TypeOK
        <5>2. LineRead(file.text) \in Text
          BY <5>1, LineSpec
        <5> QED
          BY <5>2 DEF Text
      <4>3. Below(t, 1) = {} /\ Cardinality(Below(t, 1)) = 0
        <5>1. Below(t, 1) = {}
          BY <4>2 DEF Below, EntryStarts
        <5> QED
          BY <5>1, FS_EmptySet
      <4>4. 1 \in EntryStarts(t) \/ 1 > Len(t)
        BY <4>2 DEF EntryStarts
      <4>5. Len(Header(<<>>)) + Len(<<>>) < 1
        BY DEF Header, FlattenSeq
      <4>6. Opened'
        BY <3>2, <4>1 DEF Opened
      <4>7. /\ line' = t /\ cursor' = 1 /\ columns' = <<>> /\ Len(<<>>) = 0
            /\ 1 <= Len(t) + 2
        BY <4>1, <4>2
      <4> QED
        BY <4>1, <4>2, <4>3, <4>4, <4>5, <4>6, <4>7 DEF LoadInv
    <3> QED
      BY <3>1, <3>2
  <2>2. ASSUME NEW message, Fail(message), pc = "entries",
               \/ message = "none given" /\ columns = <<>> /\ cursor > Len(line)
               \/ message = "columns" /\ cursor \in EntryStarts(line) /\ Len(columns) >= MaxColumns
               \/ /\ cursor \in EntryStarts(line)
                  /\ message = EntryFault(EntryAt(line, cursor)) /\ message # "none"
        PROVE  LoadInv'
    <3>1. /\ pc' = "refused" /\ error' = message
          /\ file' = file /\ line' = line /\ cursor' = cursor /\ columns' = columns
      BY <2>2 DEF Fail
    <3>2. Opened /\ Opened'
      BY <1>2, <2>2, <3>1 DEF LoadInv, Opened
    <3>3. /\ line = LineRead(file.text)
          /\ cursor \in EntryStarts(line) \/ cursor > Len(line)
          /\ cursor <= Len(line) + 2
          /\ Len(columns) = Cardinality(Below(line, cursor))
          /\ \A k \in Below(line, cursor) : /\ EntryFault(EntryAt(line, k)) = "none"
                                            /\ columns[Number(line, k)] = DeclaredAt(line, k)
          /\ Len(Header(columns)) + Len(columns) < cursor
      BY <1>2, <3>2 DEF LoadInv
    <3> QED
      BY <2>2, <3>1, <3>2, <3>3 DEF LoadInv
  <2>3. CASE ReadEntry
    <3>1. PICK entry : entry = EntryAt(line, cursor)
      OBVIOUS
    <3>2. entry = Upto(Rest, {Comma}) /\ pc = "entries" /\ cursor <= Len(line)
      BY <2>3, <3>1 DEF ReadEntry, EntryAt, Rest
    <3>3. /\ columns \in Seq(Column) /\ Len(columns) \in Nat /\ MaxColumns \in Nat
          /\ line \in Text /\ Len(line) \in Nat /\ cursor \in Nat
      BY <1>2, TypeFacts
    <3>4. cursor \in EntryStarts(line)
      <4>1. ~(cursor > Len(line))
        BY <3>2, <3>3
      <4> QED
        BY <1>2, <3>2, <4>1 DEF LoadInv
    <3>5. CASE Len(columns) >= MaxColumns
      <4>1. ~(Len(columns) < MaxColumns)
        BY <3>3, <3>5
      <4>2. Fail("columns")
        BY <2>3, <3>5, <4>1, Zenon DEF ReadEntry
      <4> QED
        BY <2>2, <3>2, <3>4, <3>5, <4>2
    <3>6. CASE ~(Len(columns) >= MaxColumns) /\ EntryFault(entry) # "none"
      <4>1. Len(columns) < MaxColumns
        BY <3>3, <3>6
      <4>2. Fail(EntryFault(entry))
        BY <2>3, <3>2, <3>6, <4>1, Zenon DEF ReadEntry
      <4> QED
        BY <2>2, <3>1, <3>2, <3>4, <3>6, <4>2
    <3>7. CASE ~(Len(columns) >= MaxColumns) /\ EntryFault(entry) = "none"
      <4>1. /\ columns' = Append(columns, ColumnOf(entry))
            /\ cursor' = cursor + Len(entry) + 1
            /\ UNCHANGED <<file, pc, line, error>>
        BY <2>3, <3>2, <3>7, Zenon DEF ReadEntry
      <4> QED
        BY <1>2, <3>1, <3>2, <3>7, <4>1, EntryLoaded
    <3> QED
      BY <3>5, <3>6, <3>7
  <2>4. CASE EndOfEntries
    <3>1. CASE columns = <<>>
      BY <2>2, <2>4, <3>1 DEF EndOfEntries
    <3>2. CASE columns # <<>>
      <4>1. /\ pc = "entries" /\ cursor > Len(line)
            /\ pc' = "loaded" /\ UNCHANGED <<file, line, cursor, columns, error>>
        BY <2>4, <3>2 DEF EndOfEntries
      <4>2. Opened /\ Opened'
        BY <1>2, <4>1 DEF LoadInv, Opened
      <4> QED
        BY <1>2, <3>2, <4>1, <4>2 DEF LoadInv
    <3> QED
      BY <3>1, <3>2
  <2>5. CASE UNCHANGED vars
    BY <1>2, <2>5 DEF vars, LoadInv, Opened
  <2> QED
    BY <1>2, <2>1, <2>3, <2>4, <2>5 DEF Next
<1> QED
  BY <1>1, <1>2

LEMMA LoadedWell ==
    ASSUME TypeOK, LoadInv, pc = "loaded"
    PROVE  /\ line = LineRead(file.text) /\ file.text \in Text
           /\ Below(line, cursor) = EntryStarts(line)
           /\ Len(columns) = Cardinality(EntryStarts(line))
           /\ Len(columns) \in 1 .. MaxColumns
           /\ \A k \in EntryStarts(line) :
                 /\ EntryFault(EntryAt(line, k)) = "none"
                 /\ columns[Number(line, k)] = DeclaredAt(line, k)
<1>1. /\ line \in Text /\ Len(line) \in Nat /\ cursor \in Nat /\ DOMAIN line = 1 .. Len(line)
      /\ columns \in Seq(Column) /\ Len(columns) \in Nat /\ MaxColumns \in Nat
  BY TypeFacts DEF Text
<1>2. /\ Opened /\ cursor > Len(line) /\ columns # <<>>
  BY DEF LoadInv
<1>3. /\ line = LineRead(file.text)
      /\ Len(columns) = Cardinality(Below(line, cursor))
      /\ \A k \in Below(line, cursor) : /\ EntryFault(EntryAt(line, k)) = "none"
                                        /\ columns[Number(line, k)] = DeclaredAt(line, k)
  BY <1>2 DEF LoadInv
<1>4. Below(line, cursor) = EntryStarts(line)
  <2>1. \A k \in EntryStarts(line) : k < cursor
    BY <1>1, <1>2 DEF EntryStarts
  <2> QED
    BY <2>1 DEF Below
<1>5. file.text \in Text
  BY DEF TypeOK
<1>6. Len(columns) <= MaxColumns /\ Len(columns) # 0
  <2>1. Len(columns) <= MaxColumns
    BY Zenon DEF TypeOK, TableSchema
  <2> QED
    BY <1>1, <1>2, <2>1, EmptySeq
<1> QED
  BY <1>1, <1>3, <1>4, <1>5, <1>6

LEMMA RefusedWell ==
    ASSUME TypeOK, LoadInv, pc = "refused", file.exists, file.text # <<>>
    PROVE  LoadsTheLine
<1> DEFINE B == Below(line, cursor)
           n == Len(columns) + 1
<1>1. /\ line \in Text /\ Len(line) \in Nat /\ cursor \in Nat /\ DOMAIN line = 1 .. Len(line)
      /\ columns \in Seq(Column) /\ Len(columns) \in Nat /\ MaxColumns \in Nat
  BY TypeFacts DEF Text
<1>2. Opened
  BY DEF Opened
<1>3. /\ Len(columns) = Cardinality(B)
      /\ \A k \in B : EntryFault(EntryAt(line, k)) = "none"
  BY <1>2 DEF LoadInv
<1>4. \/ error = "none given" /\ columns = <<>> /\ cursor > Len(line)
      \/ error = "columns" /\ cursor \in EntryStarts(line) /\ Len(columns) >= MaxColumns
      \/ /\ cursor \in EntryStarts(line)
         /\ error = EntryFault(EntryAt(line, cursor)) /\ error # "none"
  BY <1>2 DEF LoadInv
<1>5. /\ Cardinality(EntryStarts(line)) \in Nat
      /\ \A k \in EntryStarts(line) \ B :
            Number(line, k) > Cardinality(B) /\ Number(line, k) \in Nat
      /\ cursor \in EntryStarts(line) =>
           Number(line, cursor) = Cardinality(B) + 1 /\ Cardinality(B) < Cardinality(EntryStarts(line))
  BY <1>1, NumberFacts
<1>6. ~WellFormed(line)
  <2>1. CASE columns = <<>> /\ cursor > Len(line)
    <3>1. \A k \in EntryStarts(line) : k < cursor
      BY <1>1, <2>1 DEF EntryStarts
    <3>2. B = EntryStarts(line)
      BY <3>1 DEF Below
    <3>3. Cardinality(EntryStarts(line)) = 0
      BY <1>3, <2>1, <3>2
    <3> QED
      BY <3>3 DEF WellFormed
  <2>2. CASE cursor \in EntryStarts(line) /\ Len(columns) >= MaxColumns
    <3>1. Cardinality(EntryStarts(line)) > MaxColumns
      BY <1>1, <1>3, <1>5, <2>2
    <3> QED
      BY <1>1, <1>5, <3>1 DEF WellFormed
  <2>3. CASE cursor \in EntryStarts(line) /\ EntryFault(EntryAt(line, cursor)) # "none"
    BY <2>3, Zenon DEF WellFormed
  <2> QED
    BY <1>4, <2>1, <2>2, <2>3
<1>7. ASSUME NEW k \in EntryStarts(line), Number(line, k) < n
      PROVE  EntryFault(EntryAt(line, k)) = "none"
  <2>1. ASSUME k \notin B PROVE FALSE
    <3>1. Number(line, k) > Cardinality(B) /\ Number(line, k) \in Nat
      BY <1>5, <2>1
    <3> QED
      BY <1>1, <1>3, <1>7, <3>1
  <2> QED
    BY <1>3, <2>1
<1>8. ASSUME error \notin {"columns", "none given"}
      PROVE  \E k \in EntryStarts(line) : Number(line, k) = n /\ error = EntryFault(EntryAt(line, k))
  <2>1. cursor \in EntryStarts(line) /\ error = EntryFault(EntryAt(line, cursor))
    BY <1>4, <1>8
  <2>2. Number(line, cursor) = n
    BY <1>3, <1>5, <2>1
  <2> QED
    BY <2>1, <2>2
<1> QED
  BY <1>6, <1>7, <1>8 DEF LoadsTheLine

LEMMA LineLoaded ==
    ASSUME TypeOK, LoadInv
    PROVE  LoadsTheLine
<1>1. CASE pc = "loaded"
  <2>1. WellFormed(line)
    BY <1>1, LoadedWell, Zenon DEF WellFormed
  <2> QED
    BY <1>1, <2>1, LoadedWell DEF LoadsTheLine
<1>2. CASE pc = "refused" /\ file.exists /\ file.text # <<>>
  BY <1>2, RefusedWell
<1> QED
  BY <1>1, <1>2 DEF LoadsTheLine

(* The entries of a line that is cut are the first of the whole line.      *)
LEMMA CutStarts ==
    ASSUME NEW s, NEW t, Begins(s, t)
    PROVE  /\ EntryStarts(s) = Below(t, Len(s) + 1)
           /\ \A k \in EntryStarts(s) : /\ Number(s, k) = Number(t, k)
                                        /\ Begins(EntryAt(s, k), EntryAt(t, k))
<1>1. /\ s \in Text /\ t \in Text /\ Len(s) <= Len(t) /\ Len(s) \in Nat /\ Len(t) \in Nat
      /\ DOMAIN s = 1 .. Len(s) /\ DOMAIN t = 1 .. Len(t)
      /\ \A k \in 1 .. Len(s) : s[k] = t[k]
  BY DEF Begins, Text
<1>2. ASSUME NEW k \in 1 .. Len(s) PROVE k \in EntryStarts(s) <=> k \in EntryStarts(t)
  <2>1. k \in 1 .. Len(t) /\ (k # 1 => k - 1 \in 1 .. Len(s))
    BY <1>1
  <2>2. k # 1 => s[k - 1] = t[k - 1]
    BY <1>1, <2>1
  <2> QED
    BY <1>1, <2>1, <2>2 DEF EntryStarts
<1>3. EntryStarts(s) \subseteq 1 .. Len(s) /\ EntryStarts(t) \subseteq 1 .. Len(t)
  BY <1>1 DEF EntryStarts
<1>4. EntryStarts(s) = Below(t, Len(s) + 1)
  <2>1. \A k \in EntryStarts(t) : k < Len(s) + 1 <=> k \in 1 .. Len(s)
    BY <1>1, <1>3
  <2> QED
    BY <1>2, <1>3, <2>1 DEF Below
<1>5. ASSUME NEW k \in EntryStarts(s) PROVE Number(s, k) = Number(t, k)
  <2>1. \A j \in EntryStarts(t) : j <= k => j \in EntryStarts(s)
    <3> TAKE j \in EntryStarts(t)
    <3>1. k \in 1 .. Len(s) /\ j \in 1 .. Len(t)
      BY <1>3
    <3>2. j <= k => j \in 1 .. Len(s)
      BY <1>1, <3>1
    <3> QED
      BY <1>2, <3>2
  <2>2. \A j \in EntryStarts(s) : j \in EntryStarts(t)
    BY <1>2, <1>3
  <2>3. {j \in EntryStarts(s) : j <= k} = {j \in EntryStarts(t) : j <= k}
    BY <2>1, <2>2
  <2> QED
    BY <2>3, Zenon DEF Number
<1>6. ASSUME NEW k \in EntryStarts(s) PROVE Begins(EntryAt(s, k), EntryAt(t, k))
  <2>1. k \in Nat \ {0} /\ k <= Len(s) + 1
    BY <1>1, <1>3
  <2>2. PICK a, b : a = SubSeq(s, k, Len(s)) /\ b = SubSeq(t, k, Len(t))
    OBVIOUS
  <2>3. Begins(a, b)
    BY <2>1, <2>2, SubBegins
  <2>4. PICK S : S = {Comma}
    OBVIOUS
  <2>5. Begins(Upto(a, S), Upto(b, S))
    BY <2>3, UptoBegins
  <2> QED
    BY <2>2, <2>4, <2>5 DEF EntryAt
<1> QED
  BY <1>4, <1>5, <1>6

LEMMA CutLoaded ==
    ASSUME TypeOK, LoadInv
    PROVE  CutIsPrefix
<1> DEFINE whole == Upto(file.text, LineEnds)
<1> SUFFICES ASSUME pc = "loaded", WellFormed(whole)
             PROVE  /\ Len(columns) <= Cardinality(EntryStarts(whole))
                    /\ \A k \in EntryStarts(whole) :
                         Number(whole, k) <= Len(columns) =>
                            columns[Number(whole, k)] = DeclaredAt(whole, k)
  BY DEF CutIsPrefix
<1>1. /\ Len(columns) = Cardinality(EntryStarts(line)) /\ Len(columns) \in Nat
      /\ \A k \in EntryStarts(line) :
            /\ EntryFault(EntryAt(line, k)) = "none"
            /\ columns[Number(line, k)] = DeclaredAt(line, k)
  BY LoadedWell, TypeFacts
<1>2. Begins(line, whole)
  BY LoadedWell, LineSpec
<1>3. \A k \in EntryStarts(whole) : EntryFault(EntryAt(whole, k)) = "none"
  BY Zenon DEF WellFormed
<1> HIDE DEF whole
<1>4. whole \in Text /\ Len(line) \in Nat
  BY <1>2, TypeFacts DEF Begins
<1>5. PICK c : c = Len(line) + 1 /\ c \in Nat
  BY <1>4
<1>6. /\ EntryStarts(line) = Below(whole, c)
      /\ \A k \in EntryStarts(line) : /\ Number(line, k) = Number(whole, k)
                                      /\ Begins(EntryAt(line, k), EntryAt(whole, k))
  BY <1>2, <1>5, CutStarts
<1>7. /\ Cardinality(Below(whole, c)) <= Cardinality(EntryStarts(whole))
      /\ \A k \in EntryStarts(whole) \ Below(whole, c) :
           Number(whole, k) > Cardinality(Below(whole, c)) /\ Number(whole, k) \in Nat
  BY <1>4, <1>5, NumberFacts
<1>8. ASSUME NEW k \in EntryStarts(whole), Number(whole, k) <= Len(columns)
      PROVE  columns[Number(whole, k)] = DeclaredAt(whole, k)
  <2>1. k \in EntryStarts(line)
    <3> SUFFICES ASSUME k \notin EntryStarts(line) PROVE FALSE
      OBVIOUS
    <3>1. Number(whole, k) > Len(columns) /\ Number(whole, k) \in Nat
      BY <1>1, <1>6, <1>7
    <3> QED
      BY <1>1, <1>8, <3>1
  <2>2. PICK a, b : a = EntryAt(line, k) /\ b = EntryAt(whole, k)
    OBVIOUS
  <2>3. NamePart(a) = NamePart(b) /\ LowerText(TypePart(a)) = LowerText(TypePart(b))
    <3>1. Begins(a, b) /\ EntryFault(a) = "none" /\ EntryFault(b) = "none"
      BY <1>1, <1>3, <1>6, <2>1, <2>2
    <3> QED
      BY <3>1, CutEntry
  <2>4. DeclaredAt(line, k) = DeclaredAt(whole, k)
    BY <2>2, <2>3, Zenon DEF DeclaredAt
  <2> QED
    BY <1>1, <1>6, <2>1, <2>4
<1> QED
  BY <1>1, <1>6, <1>7, <1>8

LEMMA HeaderLoaded ==
    ASSUME TypeOK, LoadInv
    PROVE  HeaderFits
<1> SUFFICES ASSUME pc = "loaded" PROVE Len(Header(columns)) <= LineMax
  BY DEF HeaderFits
<1>1. /\ Len(columns) \in 1 .. MaxColumns /\ line = LineRead(file.text) /\ file.text \in Text
      /\ columns \in Seq(Column) /\ Len(line) \in Nat /\ cursor \in Nat /\ MaxColumns \in Nat
  BY LoadedWell, TypeFacts
<1>2. Len(line) <= LineMax /\ LineMax \in Nat
  BY <1>1, LineSpec, SchemaAssumption
<1>3. Len(Header(columns)) + Len(columns) < cursor /\ cursor <= Len(line) + 2
  BY DEF LoadInv
<1>4. PICK h : h = Len(Header(columns)) /\ h \in Nat
  BY <1>1, HeaderType
<1> QED
  BY <1>1, <1>2, <1>3, <1>4

(* For every file, line buffer and limit: a schema is loaded exactly if    *)
(* the line in the buffer is well formed, with the columns that it         *)
(* declares, and an error is that of the first entry at fault.             *)
THEOREM LineCorrect == Spec => []LoadsTheLine
<1> QED
  BY TypeInductive, LoadInductive, LineLoaded, PTL DEF Spec

(* For every file and line buffer: of a good line that was cut, what is    *)
(* loaded is the first columns, under their names and types.  The type of  *)
(* the last entry could be cut to another only if it began with it.        *)
THEOREM CutCorrect == Spec => []CutIsPrefix
<1> QED
  BY TypeInductive, LoadInductive, CutLoaded, PTL DEF Spec

(* For every file and line buffer: the header of a schema that was loaded  *)
(* fits a buffer of that size, which is the one SELECT reads it with.      *)
THEOREM HeaderCorrect == Spec => []HeaderFits
<1> QED
  BY TypeInductive, LoadInductive, HeaderLoaded, PTL DEF Spec
=============================================================================
