---------------------------- MODULE ParserProofs ----------------------------
(***************************************************************************)
(* What parse_program leaves in its SqlProgram, for every list of tokens:  *)
(* statements the executor takes, at the places they were read from, and   *)
(* written out they are the tokens that were read.  And which lists it     *)
(* refuses: those that no legal program is, at the first token that none   *)
(* has there.                                                              *)
(***************************************************************************)
EXTENDS Parser, SequenceLemmas

-----------------------------------------------------------------------------
(* The invariant                                                           *)
-----------------------------------------------------------------------------
Token == [type : TokenType, text : Text]

(* A statement that is being filled in.                                    *)
Locations == [start : Nat, table : Nat, columns : Seq(Nat), values : Seq(Nat)]
Draft == [kind : {"none", "INSERT", "SELECT"}, all : BOOLEAN, has_list : BOOLEAN, table : Text,
          columns : Seq(Text), values : Seq(Literal),
          where : Locations]

(* The functions an INSERT, a SELECT and either of them is in.             *)
InInsert == {"into", "insert table", "close_columns", "values", "open", "value", "close_values"}
InSelect == {"select list", "from", "select table"}
InStatement == InInsert \cup InSelect \cup {"column"}
BehindTable == {"close_columns", "values", "open", "value", "close_values"}

(* What is in a draft stands in the list where it says, and fits.          *)
Started(list, s) ==
    /\ s.kind \in {"INSERT", "SELECT"}
    /\ s.where.start \in DOMAIN list /\ list[s.where.start].type = s.kind
TableKnown(list, s) ==
    /\ Len(s.table) < MaxNameLen
    /\ s.where.table \in DOMAIN list /\ list[s.where.table] = Name(s.table)
ColumnsKnown(list, s) ==
    /\ Len(s.columns) <= MaxColumns /\ Len(s.where.columns) = Len(s.columns)
    /\ \A i \in 1 .. Len(s.columns) :
         /\ Len(s.columns[i]) < MaxNameLen
         /\ s.where.columns[i] \in DOMAIN list
         /\ list[s.where.columns[i]] = Name(s.columns[i])
ValuesKnown(list, s) ==
    /\ Len(s.values) <= MaxColumns /\ Len(s.where.values) = Len(s.values)
    /\ \A i \in 1 .. Len(s.values) :
         /\ s.where.values[i] \in DOMAIN list
         /\ list[s.where.values[i]] = Constant(s.values[i])

(* A statement the executor may be given.                                  *)
Whole(list, s) ==
    /\ s \in Draft /\ Started(list, s) /\ ColumnsKnown(list, s) /\ ValuesKnown(list, s)
    /\ Len(s.table) < MaxNameLen
    /\ s.kind = "INSERT" => /\ TableKnown(list, s) /\ s.values # <<>>
                            /\ s.has_list => Len(s.columns) = Len(s.values)
    /\ s.kind = "SELECT" => s.all \/ s.columns # <<>>

(* What each function may rely on of the statement its callers have begun. *)
DraftFits(place, list, s) ==
    /\ place \in InStatement => Started(list, s)
    /\ place \in InInsert => s.kind = "INSERT"
    /\ place \in InSelect => s.kind = "SELECT"
    /\ place \in BehindTable \/ (place = "column" /\ s.kind = "INSERT") => TableKnown(list, s)
    /\ place \in {"from", "select table"} => s.all \/ s.columns # <<>>
    /\ place = "close_values" => /\ s.values # <<>>
                                 /\ s.has_list => Len(s.columns) = Len(s.values)

ParserInv ==
    /\ tokens \in TokenLists
    /\ pc \in DOMAIN Needed \cup InStatement \cup {"start", "statement", "parsed", "refused"}
    /\ position \in DOMAIN tokens
    /\ statement \in Draft /\ ColumnsKnown(tokens, statement) /\ ValuesKnown(tokens, statement)
    /\ DraftFits(pc, tokens, statement)
    /\ error.at \in 0 .. Len(tokens)
    /\ program \in Seq(Draft) /\ \A n \in DOMAIN program : Whole(tokens, program[n])
    /\ Len(program) <= MaxStatements
    /\ pc \in InStatement => Len(program) < MaxStatements

-----------------------------------------------------------------------------
(* Tokens and drafts                                                       *)
-----------------------------------------------------------------------------
LEMMA Calls ==
    /\ DOMAIN Needed = {"into", "values", "open", "close_columns", "close_values", "from",
                        "semicolon"}
    /\ Then["into"] = "insert table" /\ Then["values"] = "open" /\ Then["open"] = "value"
    /\ Then["close_columns"] = "values" /\ Then["close_values"] = "semicolon"
    /\ Then["from"] = "select table" /\ Then["semicolon"] = "statement"
BY DEF Needed, Then

(* The current token is one, and advancing from a token leads to one.      *)
LEMMA TokenFacts ==
    ASSUME tokens \in TokenLists
    PROVE  /\ tokens \in Seq(Token) /\ Len(tokens) \in Nat \ {0}
           /\ DOMAIN tokens = 1 .. Len(tokens)
           /\ \A n \in DOMAIN tokens : tokens[n] \in Token /\ Behind(n) \in DOMAIN tokens
<1>1. tokens \in Seq(Token) /\ tokens # <<>>
  BY ParserAssumption DEF Token
<1>2. Len(tokens) \in Nat \ {0} /\ DOMAIN tokens = 1 .. Len(tokens)
  BY <1>1, EmptySeq, LenProperties
<1>3. \A n \in DOMAIN tokens : tokens[n] \in Token
  BY <1>1, <1>2, ElementOfSeq
<1>4. \A n \in DOMAIN tokens : Behind(n) \in DOMAIN tokens
  BY <1>2 DEF Behind
<1> QED
  BY <1>1, <1>2, <1>3, <1>4

LEMMA ZeroedType ==
    ASSUME NEW list
    PROVE  Zeroed \in Draft /\ ColumnsKnown(list, Zeroed) /\ ValuesKnown(list, Zeroed)
<1>1. Zeroed \in Draft
  BY DEF Zeroed, Draft, Locations, Text
<1>2. Len(Zeroed.columns) = 0 /\ Len(Zeroed.values) = 0
      /\ Len(Zeroed.where.columns) = 0 /\ Len(Zeroed.where.values) = 0
  BY DEF Zeroed
<1> QED
  BY <1>1, <1>2, MaxColumnsAssumption DEF ColumnsKnown, ValuesKnown

(* What a draft keeps when another part of it is filled in.                *)
LEMMA SameLists ==
    ASSUME NEW list, NEW s, NEW t
    PROVE  /\ /\ t.columns = s.columns /\ t.where.columns = s.where.columns
              /\ ColumnsKnown(list, s)
              => ColumnsKnown(list, t)
           /\ /\ t.values = s.values /\ t.where.values = s.where.values
              /\ ValuesKnown(list, s)
              => ValuesKnown(list, t)
BY DEF ColumnsKnown, ValuesKnown

(* One more column, and one more value, with its location.                 *)
WithColumn(s, name, n) ==
    [s EXCEPT !.columns = Append(@, name), !.where.columns = Append(@, n)]
WithValue(s, value, n) ==
    [s EXCEPT !.values = Append(@, value), !.where.values = Append(@, n)]

LEMMA OneMoreColumn ==
    ASSUME NEW list, NEW s \in Draft, ColumnsKnown(list, s), Len(s.columns) < MaxColumns,
           NEW n \in DOMAIN list, n \in Nat, NEW name \in Text, Len(name) < MaxNameLen,
           list[n] = Name(name),
           NEW t, t = WithColumn(s, name, n)
    PROVE  /\ t \in Draft /\ ColumnsKnown(list, t) /\ t.columns # <<>>
           /\ t.kind = s.kind /\ t.table = s.table /\ t.values = s.values
           /\ t.where.start = s.where.start /\ t.where.table = s.where.table
           /\ t.where.values = s.where.values
<1>1. /\ s.columns \in Seq(Text) /\ s.where.columns \in Seq(Nat) /\ Len(s.columns) \in Nat
      /\ s.where \in Locations
  BY LenProperties DEF Draft, Locations
<1> DEFINE m == Len(s.columns)
           names == Append(s.columns, name)
           places == Append(s.where.columns, n)
<1>2. /\ names \in Seq(Text) /\ names # <<>> /\ Len(names) = m + 1 /\ names[m + 1] = name
      /\ \A i \in 1 .. m : names[i] = s.columns[i]
  BY <1>1, AppendProperties
<1>3. /\ places \in Seq(Nat) /\ Len(places) = m + 1 /\ places[m + 1] = n
      /\ \A i \in 1 .. m : places[i] = s.where.columns[i]
  <2> DEFINE old == s.where.columns
  <2>1. Len(old) = m /\ old \in Seq(Nat)
    BY <1>1 DEF ColumnsKnown
  <2> HIDE DEF old, m
  <2>2. /\ places \in Seq(Nat) /\ Len(places) = Len(old) + 1 /\ places[Len(old) + 1] = n
        /\ \A i \in 1 .. Len(old) : places[i] = old[i]
    BY <2>1, AppendProperties DEF old
  <2> QED
    BY <2>1, <2>2 DEF old
<1> HIDE DEF names, places
<1> DEFINE where == [s.where EXCEPT !.columns = places]
<1>4. t = [s EXCEPT !.columns = names, !.where = where]
  BY DEF WithColumn, names, places
<1>5a. /\ where \in Locations /\ where.columns = places
       /\ where.start = s.where.start /\ where.table = s.where.table
       /\ where.values = s.where.values
  BY <1>1, <1>3 DEF Locations
<1> HIDE DEF where
<1>5. /\ t \in Draft /\ t.columns = names /\ t.where = where
      /\ t.kind = s.kind /\ t.table = s.table /\ t.values = s.values
      /\ t.has_list = s.has_list
  BY <1>1, <1>2, <1>4, <1>5a DEF Draft
<1>6. \A i \in 1 .. m + 1 : i \in 1 .. m \/ i = m + 1
  BY <1>1
<1>7. ASSUME NEW i \in 1 .. m + 1
      PROVE  /\ places[i] \in DOMAIN list /\ list[places[i]] = Name(names[i])
             /\ Len(names[i]) < MaxNameLen
  <2>1. CASE i = m + 1
    BY <1>2, <1>3, <2>1
  <2>2. CASE i \in 1 .. m
    BY <1>2, <1>3, <2>2 DEF ColumnsKnown
  <2> QED
    BY <1>6, <2>1, <2>2
<1>8. m + 1 <= MaxColumns
  BY <1>1, MaxColumnsAssumption
<1> HIDE DEF m
<1>9. ColumnsKnown(list, t)
  BY <1>2, <1>3, <1>5a, <1>5, <1>7, <1>8 DEF ColumnsKnown
<1> QED
  BY <1>2, <1>5a, <1>5, <1>9

LEMMA OneMoreValue ==
    ASSUME NEW list, NEW s \in Draft, ValuesKnown(list, s), Len(s.values) < MaxColumns,
           NEW n \in DOMAIN list, n \in Nat, NEW value \in Literal,
           list[n] = Constant(value),
           NEW t, t = WithValue(s, value, n)
    PROVE  /\ t \in Draft /\ ValuesKnown(list, t) /\ t.values # <<>>
           /\ Len(t.values) = Len(s.values) + 1
           /\ t.kind = s.kind /\ t.table = s.table /\ t.columns = s.columns
           /\ t.has_list = s.has_list
           /\ t.where.start = s.where.start /\ t.where.table = s.where.table
           /\ t.where.columns = s.where.columns
<1>1. /\ s.values \in Seq(Literal) /\ s.where.values \in Seq(Nat) /\ Len(s.values) \in Nat
      /\ s.where \in Locations
  BY LenProperties DEF Draft, Locations
<1> DEFINE m == Len(s.values)
           values == Append(s.values, value)
           places == Append(s.where.values, n)
<1>2. /\ values \in Seq(Literal) /\ values # <<>> /\ Len(values) = m + 1
      /\ values[m + 1] = value /\ \A i \in 1 .. m : values[i] = s.values[i]
  BY <1>1, AppendProperties
<1>3. /\ places \in Seq(Nat) /\ Len(places) = m + 1 /\ places[m + 1] = n
      /\ \A i \in 1 .. m : places[i] = s.where.values[i]
  <2> DEFINE old == s.where.values
  <2>1. Len(old) = m /\ old \in Seq(Nat)
    BY <1>1 DEF ValuesKnown
  <2> HIDE DEF old, m
  <2>2. /\ places \in Seq(Nat) /\ Len(places) = Len(old) + 1 /\ places[Len(old) + 1] = n
        /\ \A i \in 1 .. Len(old) : places[i] = old[i]
    BY <2>1, AppendProperties DEF old
  <2> QED
    BY <2>1, <2>2 DEF old
<1> HIDE DEF values, places
<1> DEFINE where == [s.where EXCEPT !.values = places]
<1>4. t = [s EXCEPT !.values = values, !.where = where]
  BY DEF WithValue, values, places
<1>5a. /\ where \in Locations /\ where.values = places
       /\ where.start = s.where.start /\ where.table = s.where.table
       /\ where.columns = s.where.columns
  BY <1>1, <1>3 DEF Locations
<1> HIDE DEF where
<1>5. /\ t \in Draft /\ t.values = values /\ t.where = where
      /\ t.kind = s.kind /\ t.table = s.table /\ t.columns = s.columns
      /\ t.has_list = s.has_list
  BY <1>1, <1>2, <1>4, <1>5a DEF Draft
<1>6. \A i \in 1 .. m + 1 : i \in 1 .. m \/ i = m + 1
  BY <1>1
<1>7. ASSUME NEW i \in 1 .. m + 1
      PROVE  /\ places[i] \in DOMAIN list /\ list[places[i]] = Constant(values[i])
  <2>1. CASE i = m + 1
    BY <1>2, <1>3, <2>1
  <2>2. CASE i \in 1 .. m
    BY <1>2, <1>3, <2>2 DEF ValuesKnown
  <2> QED
    BY <1>6, <2>1, <2>2
<1>8. m + 1 <= MaxColumns
  BY <1>1, MaxColumnsAssumption
<1> HIDE DEF m
<1>9. ValuesKnown(list, t)
  BY <1>2, <1>3, <1>5a, <1>5, <1>7, <1>8 DEF ValuesKnown
<1> QED
  <2>1. Len(t.values) = Len(s.values) + 1 /\ t.values # <<>>
    BY <1>2, <1>5 DEF m
  <2> QED
    BY <2>1, <1>5a, <1>5, <1>9

(* A token that parse_identifier takes.                                    *)
LEMMA IdentifierTaken ==
    ASSUME ParserInv, NameFault = "none"
    PROVE  /\ CurrentText \in Text /\ Len(CurrentText) < MaxNameLen /\ Len(CurrentText) \in Nat
           /\ tokens[position] = Name(CurrentText)
<1>1. tokens[position] \in Token
  BY TokenFacts DEF ParserInv
<1>2. CurrentType = "IDENTIFIER"
  BY Zenon DEF NameFault
<1>3. CurrentText \in Text /\ Len(CurrentText) \in Nat
  BY <1>1 DEF CurrentText, Token, Text
<1>4. ~(Len(CurrentText) >= MaxNameLen)
  BY <1>2, Zenon DEF NameFault
<1>5. Len(CurrentText) < MaxNameLen
  BY <1>3, <1>4, ParserAssumption
<1>6. tokens[position] = Name(CurrentText)
  BY <1>1, <1>2 DEF CurrentText, CurrentType, Name, Token
<1> QED
  BY <1>3, <1>5, <1>6

-----------------------------------------------------------------------------
(* Steps                                                                   *)
-----------------------------------------------------------------------------
LEMMA InitInv == Init => ParserInv
<1> SUFFICES ASSUME Init PROVE ParserInv
  OBVIOUS
<1>1. tokens \in TokenLists /\ pc = "start" /\ position = 1 /\ statement = Zeroed
      /\ program = <<>> /\ error.at = 0
  BY DEF Init
<1>2. Len(program) = 0 /\ DOMAIN program = {} /\ program \in Seq(Draft)
  BY <1>1
<1>3. 1 \in DOMAIN tokens /\ 0 \in 0 .. Len(tokens)
  BY <1>1, TokenFacts
<1> QED
  BY <1>1, <1>2, <1>3, ZeroedType, ParserAssumption
     DEF ParserInv, DraftFits, InStatement, InInsert, InSelect, BehindTable

LEMMA FailStep ==
    ASSUME ParserInv, NEW message, NEW n \in 0 .. Len(tokens), FailAt(message, n)
    PROVE  ParserInv'
<1>1. /\ pc' = "refused" /\ error'.at = n
      /\ UNCHANGED <<tokens, position, statement, program>>
  BY DEF FailAt
<1> QED
  BY <1>1 DEF ParserInv, DraftFits, InStatement, InInsert, InSelect, BehindTable

LEMMA FailHere ==
    ASSUME ParserInv, NEW message, Fail(message)
    PROVE  ParserInv'
<1>1. position \in 0 .. Len(tokens)
  BY TokenFacts DEF ParserInv
<1> QED
  BY <1>1, FailStep DEF Fail

(* A step that leaves the finished statements alone.                       *)
LEMMA DraftStep ==
    ASSUME ParserInv, UNCHANGED <<tokens, program, error>>,
           pc' \in {"statement", "parsed", "semicolon"} \cup InStatement,
           position' \in DOMAIN tokens,
           statement' \in Draft, ColumnsKnown(tokens, statement'),
           ValuesKnown(tokens, statement'), DraftFits(pc', tokens, statement'),
           pc' \in InStatement => Len(program) < MaxStatements
    PROVE  ParserInv'
<1>1. pc' \in DOMAIN Needed \cup InStatement \cup {"start", "statement", "parsed", "refused"}
  BY Calls
<1> QED
  BY <1>1 DEF ParserInv

(* A step that finishes a statement.                                       *)
LEMMA ProgramStep ==
    ASSUME ParserInv, UNCHANGED <<tokens, error>>, pc' = "semicolon",
           position' \in DOMAIN tokens, Whole(tokens, statement'),
           program' = Append(program, statement'), Len(program) < MaxStatements
    PROVE  ParserInv'
<1>1. pc' \in DOMAIN Needed
  BY Calls
<1>2. DraftFits(pc', tokens, statement')
  BY DEF DraftFits, InStatement, InInsert, InSelect, BehindTable
<1>3. statement' \in Draft /\ program \in Seq(Draft) /\ Len(program) \in Nat
  BY LenProperties DEF Whole, ParserInv
<1>4. /\ program' \in Seq(Draft) /\ Len(program') = Len(program) + 1
      /\ DOMAIN program' = 1 .. Len(program) + 1 /\ DOMAIN program = 1 .. Len(program)
      /\ program'[Len(program) + 1] = statement'
      /\ \A n \in 1 .. Len(program) : program'[n] = program[n]
  BY <1>3, AppendProperties, LenProperties
<1>5. \A n \in 1 .. Len(program) + 1 : n \in 1 .. Len(program) \/ n = Len(program) + 1
  BY <1>3
<1>6. \A n \in DOMAIN program' : Whole(tokens, program'[n])
  BY <1>4, <1>5 DEF ParserInv
<1>7. Len(program') <= MaxStatements
  BY <1>3, <1>4, ParserAssumption
<1>8. pc' \notin InStatement
  BY DEF InStatement, InInsert, InSelect
<1> QED
  BY <1>1, <1>2, <1>3, <1>4, <1>6, <1>7, <1>8 DEF ParserInv, Whole

LEMMA StartStep == ASSUME ParserInv, Start PROVE ParserInv'
<1>1. CASE Fail("empty")
  BY <1>1, FailHere
<1>2. CASE ~Fail("empty")
  <2>1. pc' = "statement" /\ UNCHANGED <<tokens, position, statement, program, error>>
    BY <1>2 DEF Start
  <2>2. DraftFits(pc', tokens, statement')
    BY <2>1 DEF DraftFits, InStatement, InInsert, InSelect, BehindTable
  <2> QED
    BY <2>1, <2>2, DraftStep DEF ParserInv, InStatement, InInsert, InSelect
<1> QED
  BY <1>1, <1>2

LEMMA BegunType ==
    ASSUME ParserInv, CurrentType \in {"INSERT", "SELECT"}
    PROVE  /\ Begun(CurrentType) \in Draft /\ Started(tokens, Begun(CurrentType))
           /\ ColumnsKnown(tokens, Begun(CurrentType)) /\ ValuesKnown(tokens, Begun(CurrentType))
           /\ Begun(CurrentType).kind = CurrentType
<1> DEFINE s == Begun(CurrentType)
<1>1. position \in Nat /\ position \in DOMAIN tokens
  BY TokenFacts DEF ParserInv
<1> DEFINE where == [Zeroed.where EXCEPT !.start = position]
<1>2. s = [Zeroed EXCEPT !.kind = CurrentType, !.where = where]
  BY DEF Begun
<1>3. /\ Zeroed \in Draft /\ Zeroed.where \in Locations
  BY DEF Zeroed, Draft, Locations, Text
<1>4. /\ where \in Locations /\ where.start = position
      /\ where.columns = Zeroed.where.columns /\ where.values = Zeroed.where.values
  BY <1>1, <1>3 DEF Locations
<1> HIDE DEF where
<1>5. /\ s \in Draft /\ s.kind = CurrentType /\ s.where = where
      /\ s.columns = Zeroed.columns /\ s.values = Zeroed.values
  BY <1>2, <1>3, <1>4 DEF Draft
<1> HIDE DEF s
<1>6. ColumnsKnown(tokens, s) /\ ValuesKnown(tokens, s)
  BY <1>4, <1>5, ZeroedType, SameLists
<1>7. Started(tokens, s)
  BY <1>1, <1>4, <1>5 DEF Started, CurrentType
<1> QED
  BY <1>5, <1>6, <1>7 DEF s

LEMMA NextStatementStep == ASSUME ParserInv, NextStatement PROVE ParserInv'
<1>1. CASE Fail("statements") \/ Fail("statement")
  BY <1>1, FailHere
<1>2. CASE pc' = "parsed" /\ UNCHANGED <<tokens, position, statement, program, error>>
  <2>1. DraftFits(pc', tokens, statement')
    BY <1>2 DEF DraftFits, InStatement, InInsert, InSelect, BehindTable
  <2> QED
    BY <1>2, <2>1, DraftStep DEF ParserInv, InStatement, InInsert, InSelect
<1>3. CASE /\ CurrentType \in {"INSERT", "SELECT"} /\ Len(program) < MaxStatements
           /\ pc' = IF CurrentType = "INSERT" THEN "into" ELSE "select list"
           /\ position' = Behind(position)
           /\ statement' = Begun(CurrentType)
           /\ UNCHANGED <<tokens, program, error>>
  <2>1. position' \in DOMAIN tokens
    BY <1>3, TokenFacts DEF ParserInv
  <2>2. /\ \/ pc' = "into" /\ CurrentType = "INSERT"
           \/ pc' = "select list" /\ CurrentType = "SELECT"
        /\ statement'.kind = CurrentType /\ Started(tokens, statement')
        /\ statement' \in Draft /\ ColumnsKnown(tokens, statement')
        /\ ValuesKnown(tokens, statement')
    BY <1>3, BegunType
  <2>3. DraftFits(pc', tokens, statement')
    BY <2>2 DEF DraftFits, InInsert, InSelect, BehindTable
  <2>4. pc' \in InStatement
    BY <2>2 DEF InStatement, InInsert, InSelect
  <2> QED
    BY <1>3, <2>1, <2>2, <2>3, <2>4, DraftStep
<1> QED
  BY <1>1, <1>2, <1>3, Zenon DEF NextStatement

LEMMA ConsumeStep == ASSUME ParserInv, Consume PROVE ParserInv'
<1>1. CASE Fail(Needed[pc])
  BY <1>1, FailHere
<1>2. CASE ~Fail(Needed[pc])
  <2>1. /\ pc \in DOMAIN Needed /\ pc' = Then[pc] /\ position' = Behind(position)
        /\ program' = IF Then[pc] = "semicolon" THEN Append(program, statement) ELSE program
        /\ UNCHANGED <<tokens, statement, error>>
    BY <1>2, Zenon DEF Consume
  <2>2. position' \in DOMAIN tokens
    BY <2>1, TokenFacts DEF ParserInv
  <2>3. CASE pc = "close_values"
    <3>1. pc \in InInsert /\ pc \in InStatement /\ pc \in BehindTable
      BY <2>3 DEF InStatement, InInsert, BehindTable
    <3>2. Whole(tokens, statement)
      BY <2>3, <3>1 DEF ParserInv, DraftFits, Whole, TableKnown
    <3>3. pc' = "semicolon" /\ program' = Append(program, statement)
      BY <2>1, <2>3, Calls
    <3>4. Len(program) < MaxStatements
      BY <3>1 DEF ParserInv
    <3> QED
      BY <2>1, <2>2, <3>2, <3>3, <3>4, ProgramStep
  <2>4. CASE pc # "close_values"
    <3>1. /\ program' = program
          /\ \/ pc = "into" /\ pc' = "insert table"
             \/ pc = "values" /\ pc' = "open"
             \/ pc = "open" /\ pc' = "value"
             \/ pc = "close_columns" /\ pc' = "values"
             \/ pc = "from" /\ pc' = "select table"
             \/ pc = "semicolon" /\ pc' = "statement"
      BY <2>1, <2>4, Calls
    <3>2. DraftFits(pc', tokens, statement)
      BY <3>1 DEF ParserInv, DraftFits, InStatement, InInsert, InSelect, BehindTable
    <3>3. pc' \in InStatement => pc \in InStatement
      BY <3>1 DEF InStatement, InInsert, InSelect
    <3>4. pc' \in {"statement"} \cup InStatement
      BY <3>1 DEF InStatement, InInsert, InSelect
    <3> QED
      BY <2>1, <2>2, <3>1, <3>2, <3>3, <3>4, DraftStep DEF ParserInv
  <2> QED
    BY <2>3, <2>4
<1> QED
  BY <1>1, <1>2

LEMMA InsertTableStep == ASSUME ParserInv, InsertTable PROVE ParserInv'
<1>1. CASE NameFault # "none"
  BY <1>1, FailHere DEF InsertTable
<1>2. CASE NameFault = "none"
  <2> DEFINE next == Behind(position)
             list == tokens[next].type = "LPAREN"
             t == TableRead(list)
  <2>1. /\ pc = "insert table" /\ pc' = (IF list THEN "column" ELSE "values")
        /\ position' = (IF list THEN Behind(next) ELSE next)
        /\ statement' = t
        /\ UNCHANGED <<tokens, program, error>>
    BY <1>2 DEF InsertTable
  <2>2. position' \in DOMAIN tokens /\ position \in DOMAIN tokens /\ position \in Nat
    <3>1. position \in DOMAIN tokens /\ position \in Nat
      BY TokenFacts DEF ParserInv
    <3>2. next \in DOMAIN tokens
      BY <3>1, TokenFacts DEF ParserInv
    <3> HIDE DEF next
    <3>3. Behind(next) \in DOMAIN tokens
      BY <3>2, TokenFacts DEF ParserInv
    <3> QED
      BY <2>1, <3>1, <3>2, <3>3
  <2>3. /\ pc \in InStatement /\ statement.kind = "INSERT" /\ Len(program) < MaxStatements
        /\ statement \in Draft /\ Started(tokens, statement)
    BY <2>1 DEF ParserInv, DraftFits, InStatement, InInsert
  <2> HIDE DEF list
  <2>4. /\ t \in Draft /\ t.kind = "INSERT" /\ t.table = CurrentText
        /\ t.where.start = statement.where.start /\ t.where.table = position
        /\ t.columns = statement.columns /\ t.where.columns = statement.where.columns
        /\ t.values = statement.values /\ t.where.values = statement.where.values
    <3>1. list \in BOOLEAN
      BY DEF list
    <3> DEFINE where == [statement.where EXCEPT !.table = position]
    <3>2. t = [statement EXCEPT !.table = CurrentText, !.has_list = list, !.where = where]
      BY DEF TableRead
    <3>3. statement.where \in Locations
      BY <2>3 DEF Draft
    <3>4. /\ where \in Locations /\ where.table = position
          /\ where.start = statement.where.start
          /\ where.columns = statement.where.columns /\ where.values = statement.where.values
      BY <2>2, <3>3 DEF Locations
    <3> HIDE DEF where, t
    <3> QED
      BY <1>2, <2>3, <3>1, <3>2, <3>4, IdentifierTaken DEF Draft
  <2> HIDE DEF t
  <2>5. TableKnown(tokens, t) /\ Started(tokens, t)
    BY <1>2, <2>2, <2>3, <2>4, IdentifierTaken DEF TableKnown, Started
  <2>6. ColumnsKnown(tokens, t) /\ ValuesKnown(tokens, t)
    BY <2>4, SameLists DEF ParserInv
  <2>7. pc' \in {"column", "values"}
    BY <2>1
  <2>8. DraftFits(pc', tokens, t)
    BY <2>4, <2>5, <2>7 DEF DraftFits, InStatement, InInsert, InSelect, BehindTable
  <2>9. pc' \in InStatement
    BY <2>7 DEF InStatement, InInsert
  <2> QED
    BY <2>1, <2>2, <2>3, <2>4, <2>6, <2>8, <2>9, DraftStep
<1> QED
  BY <1>1, <1>2

LEMMA SelectTableStep == ASSUME ParserInv, SelectTable PROVE ParserInv'
<1>1. CASE NameFault # "none"
  BY <1>1, FailHere DEF SelectTable
<1>2. CASE NameFault = "none"
  <2> DEFINE t == [statement EXCEPT !.table = CurrentText]
  <2>1. /\ pc = "select table" /\ pc' = "semicolon" /\ position' = Behind(position)
        /\ statement' = t /\ program' = Append(program, statement')
        /\ UNCHANGED <<tokens, error>>
    BY <1>2 DEF SelectTable
  <2>2. position' \in DOMAIN tokens
    BY <2>1, TokenFacts DEF ParserInv
  <2>3. /\ statement.kind = "SELECT" /\ Len(program) < MaxStatements
        /\ statement \in Draft /\ Started(tokens, statement)
        /\ statement.all \/ statement.columns # <<>>
    BY <2>1 DEF ParserInv, DraftFits, InStatement, InSelect
  <2>4. /\ t \in Draft /\ t.kind = "SELECT" /\ t.table = CurrentText /\ t.all = statement.all
        /\ t.where = statement.where /\ t.columns = statement.columns
        /\ t.values = statement.values
    BY <1>2, <2>3, IdentifierTaken DEF Draft
  <2> HIDE DEF t
  <2>5. Started(tokens, t) /\ ColumnsKnown(tokens, t) /\ ValuesKnown(tokens, t)
    BY <2>3, <2>4, SameLists DEF ParserInv, Started
  <2>6. Whole(tokens, t)
    BY <1>2, <2>3, <2>4, <2>5, IdentifierTaken DEF Whole
  <2> QED
    BY <2>1, <2>2, <2>3, <2>6, ProgramStep
<1> QED
  BY <1>1, <1>2

LEMMA SelectListStep == ASSUME ParserInv, SelectList PROVE ParserInv'
<1>1. /\ pc = "select list" /\ UNCHANGED <<tokens, program, error>>
      /\ statement.kind = "SELECT" /\ Len(program) < MaxStatements
      /\ statement \in Draft /\ Started(tokens, statement)
  BY DEF SelectList, ParserInv, DraftFits, InStatement, InSelect
<1>2. CASE CurrentType = "STAR"
  <2>1. /\ pc' = "from" /\ position' = Behind(position)
        /\ statement' = [statement EXCEPT !.all = TRUE]
    BY <1>2 DEF SelectList
  <2>2. position' \in DOMAIN tokens
    BY <2>1, TokenFacts DEF ParserInv
  <2>3. /\ statement' \in Draft /\ statement'.kind = "SELECT" /\ statement'.all
        /\ statement'.where = statement.where /\ statement'.columns = statement.columns
        /\ statement'.values = statement.values
    BY <1>1, <2>1 DEF Draft
  <2>4. /\ Started(tokens, statement') /\ ColumnsKnown(tokens, statement')
        /\ ValuesKnown(tokens, statement')
    BY <1>1, <2>3, SameLists DEF ParserInv, Started
  <2>5. DraftFits(pc', tokens, statement')
    BY <2>1, <2>3, <2>4 DEF DraftFits, InInsert, InSelect, BehindTable
  <2>6. pc' \in InStatement
    BY <2>1 DEF InStatement, InSelect
  <2> QED
    BY <1>1, <2>1, <2>2, <2>3, <2>4, <2>5, <2>6, DraftStep
<1>3. CASE CurrentType # "STAR"
  <2>1. pc' = "column" /\ UNCHANGED <<position, statement>>
    BY <1>3 DEF SelectList
  <2>2. DraftFits(pc', tokens, statement')
    BY <1>1, <2>1 DEF DraftFits, InInsert, InSelect, BehindTable
  <2> QED
    BY <1>1, <2>1, <2>2, DraftStep DEF ParserInv, InStatement
<1> QED
  BY <1>2, <1>3

LEMMA ColumnNameStep == ASSUME ParserInv, ColumnName PROVE ParserInv'
<1> DEFINE next == Behind(position)
           t == [statement EXCEPT !.columns = Append(@, CurrentText),
                                  !.where.columns = Append(@, position)]
<1>1. CASE Fail("columns") \/ Fail(NameFault)
  BY <1>1, FailHere
<1>2. CASE /\ pc = "column" /\ ~(Len(statement.columns) >= MaxColumns)
           /\ ~(Len(statement.columns) < MaxColumns /\ NameFault # "none")
           /\ pc' = CASE CommaAt(next) -> "column"
                       [] ~CommaAt(next) /\ statement.kind = "INSERT" -> "close_columns"
                       [] ~CommaAt(next) /\ statement.kind = "SELECT" -> "from"
           /\ position' = IF CommaAt(next) THEN Behind(next) ELSE next
           /\ statement' = t
           /\ UNCHANGED <<tokens, program, error>>
  <2>1. position \in DOMAIN tokens /\ position \in Nat
    BY TokenFacts DEF ParserInv
  <2>2. next \in DOMAIN tokens
    BY <2>1, TokenFacts DEF ParserInv
  <2> HIDE DEF next
  <2>3. Behind(next) \in DOMAIN tokens
    BY <2>2, TokenFacts DEF ParserInv
  <2>4. position' \in DOMAIN tokens
    BY <1>2, <2>2, <2>3
  <2>5. /\ Len(program) < MaxStatements /\ Started(tokens, statement)
        /\ statement \in Draft /\ ColumnsKnown(tokens, statement)
        /\ ValuesKnown(tokens, statement)
        /\ statement.kind = "INSERT" => TableKnown(tokens, statement)
    BY <1>2 DEF ParserInv, DraftFits, InStatement
  <2>6. Len(statement.columns) < MaxColumns
    <3>1. statement.columns \in Seq(Text)
      BY <2>5 DEF Draft
    <3>2. Len(statement.columns) \in Nat
      BY <3>1, LenProperties
    <3> QED
      BY <1>2, <3>2, MaxColumnsAssumption
  <2>7. /\ t \in Draft /\ ColumnsKnown(tokens, t) /\ t.columns # <<>>
        /\ t.kind = statement.kind /\ t.table = statement.table
        /\ t.values = statement.values /\ t.where.start = statement.where.start
        /\ t.where.table = statement.where.table /\ t.where.values = statement.where.values
    <3>1. /\ CurrentText \in Text /\ Len(CurrentText) < MaxNameLen
          /\ tokens[position] = Name(CurrentText)
      BY <1>2, <2>6, IdentifierTaken
    <3>2. t = WithColumn(statement, CurrentText, position)
      BY DEF WithColumn
    <3> HIDE DEF t
    <3> QED
      BY <2>1, <2>5, <2>6, <3>1, <3>2, OneMoreColumn
  <2> HIDE DEF t
  <2>8. /\ ValuesKnown(tokens, t) /\ Started(tokens, t)
        /\ t.kind = "INSERT" => TableKnown(tokens, t)
    BY <2>5, <2>7, SameLists DEF Started, TableKnown
  <2>9. \/ pc' = "column"
        \/ pc' = "close_columns" /\ t.kind = "INSERT"
        \/ pc' = "from" /\ t.kind = "SELECT"
    <3>1. statement.kind \in {"INSERT", "SELECT"}
      BY <2>5 DEF Started
    <3> QED
      BY <1>2, <2>7, <3>1
  <2>10. DraftFits(pc', tokens, t)
    BY <2>7, <2>8, <2>9 DEF DraftFits, InInsert, InSelect, BehindTable
  <2>11. pc' \in InStatement
    BY <2>9 DEF InStatement, InInsert, InSelect
  <2>12. statement' = t /\ UNCHANGED <<tokens, program, error>>
    BY <1>2
  <2> QED
    BY <2>4, <2>5, <2>7, <2>8, <2>10, <2>11, <2>12, DraftStep
<1> HIDE DEF t
<1> QED
  BY <1>1, <1>2, Zenon DEF ColumnName, t

LEMMA ValueStep == ASSUME ParserInv, Value PROVE ParserInv'
<1> DEFINE count == Len(statement.values)
           next == Behind(position)
           value == [text |-> CurrentText, type |-> LiteralType[CurrentType]]
           t == [statement EXCEPT !.values = Append(@, value),
                                  !.where.values = Append(@, position)]
<1>1. /\ pc = "value" /\ pc \in InStatement /\ pc \in InInsert /\ pc \in BehindTable
  BY DEF Value, InStatement, InInsert, BehindTable
<1>2. /\ Len(program) < MaxStatements /\ Started(tokens, statement)
      /\ statement \in Draft /\ ColumnsKnown(tokens, statement)
      /\ ValuesKnown(tokens, statement) /\ statement.kind = "INSERT"
      /\ TableKnown(tokens, statement)
  BY <1>1 DEF ParserInv, DraftFits
<1>3. /\ position \in DOMAIN tokens /\ position \in Nat /\ tokens[position] \in Token
      /\ DOMAIN tokens = 1 .. Len(tokens) /\ Len(tokens) \in Nat
  BY TokenFacts DEF ParserInv
<1>4. next \in DOMAIN tokens
  BY <1>3, TokenFacts DEF ParserInv
<1>5. count \in Nat /\ statement.columns \in Seq(Text) /\ Len(statement.columns) \in Nat
  <2>1. statement.values \in Seq(Literal) /\ statement.columns \in Seq(Text)
    BY <1>2 DEF Draft
  <2> QED
    BY <2>1, LenProperties
<1>6. CASE Fail("values") \/ Fail("more values") \/ Fail("literal")
  BY <1>6, FailHere
<1>7. CASE FailAt("mismatch", next - 1)
  <2> HIDE DEF next
  <2>1. next - 1 \in 0 .. Len(tokens)
    BY <1>3, <1>4
  <2> QED
    BY <1>7, <2>1, FailStep
<1>8. CASE /\ ~(count >= MaxColumns) /\ ~(count < MaxColumns /\ Enough(count))
           /\ ~(count < MaxColumns /\ ~Enough(count) /\ CurrentType \notin DOMAIN LiteralType)
           /\ ~(/\ count < MaxColumns /\ ~Enough(count) /\ CurrentType \in DOMAIN LiteralType
                /\ ~CommaAt(next) /\ TooFew(count + 1))
           /\ pc' = (IF CommaAt(next) THEN "value" ELSE "close_values")
           /\ position' = (IF CommaAt(next) THEN Behind(next) ELSE next)
           /\ statement' = t
           /\ UNCHANGED <<tokens, program, error>>
  <2> HIDE DEF next
  <2>1. count < MaxColumns
    BY <1>5, <1>8, MaxColumnsAssumption
  <2>2. CurrentType \in DOMAIN LiteralType /\ (CommaAt(next) \/ ~TooFew(count + 1))
    BY <1>8, <2>1, Zenon
  <2>3. Behind(next) \in DOMAIN tokens
    BY <1>4, TokenFacts DEF ParserInv
  <2>4. position' \in DOMAIN tokens
    BY <1>4, <1>8, <2>3
  <2>5. value \in Literal /\ tokens[position] = Constant(value)
    <3>1. CurrentType \in {"NUMBER", "STRING"}
      BY <2>2 DEF LiteralType
    <3>2. CurrentText \in Text
      BY <1>3 DEF CurrentText, Token
    <3>3. LiteralType[CurrentType] = IF CurrentType = "NUMBER" THEN "INT" ELSE "STRING"
      BY <3>1 DEF LiteralType
    <3>4. value \in Literal
      BY <3>1, <3>2, <3>3 DEF Literal, DataType
    <3>5. Constant(value) = [type |-> CurrentType, text |-> CurrentText]
      BY <3>1, <3>3 DEF Constant
    <3> QED
      BY <1>3, <3>4, <3>5 DEF CurrentType, CurrentText, Token
  <2> HIDE DEF value
  <2>6. /\ t \in Draft /\ ValuesKnown(tokens, t) /\ t.values # <<>>
        /\ Len(t.values) = count + 1 /\ t.kind = statement.kind
        /\ t.table = statement.table /\ t.columns = statement.columns
        /\ t.has_list = statement.has_list /\ t.where.start = statement.where.start
        /\ t.where.table = statement.where.table
        /\ t.where.columns = statement.where.columns
    <3>1. t = WithValue(statement, value, position)
      BY DEF WithValue
    <3> HIDE DEF t
    <3> QED
      BY <1>2, <1>3, <2>1, <2>5, <3>1, OneMoreValue
  <2> HIDE DEF t
  <2>7. /\ ColumnsKnown(tokens, t) /\ Started(tokens, t) /\ TableKnown(tokens, t)
        /\ t.kind = "INSERT"
    BY <1>2, <2>6, SameLists DEF Started, TableKnown
  <2>8. /\ pc' \in {"value", "close_values"}
        /\ pc' = "close_values" => (t.has_list => Len(t.columns) = Len(t.values))
    <3>1. ~CommaAt(next) => (statement.has_list => Len(statement.columns) = count + 1)
      BY <1>5, <2>2 DEF TooFew
    <3> QED
      BY <1>8, <2>6, <3>1
  <2>9. DraftFits(pc', tokens, t)
    BY <2>6, <2>7, <2>8 DEF DraftFits, InSelect, BehindTable
  <2>10. pc' \in InStatement
    BY <2>8 DEF InStatement, InInsert
  <2> QED
    BY <1>2, <1>8, <2>4, <2>6, <2>7, <2>9, <2>10, DraftStep
<1> HIDE DEF t, value
<1> QED
  BY <1>6, <1>7, <1>8, Zenon DEF Value, t, value

LEMMA StutterStep == ASSUME ParserInv, UNCHANGED vars PROVE ParserInv'
BY DEF ParserInv, vars

LEMMA NextInv == ParserInv /\ [Next]_vars => ParserInv'
BY StartStep, NextStatementStep, ConsumeStep, InsertTableStep, SelectTableStep, SelectListStep,
   ColumnNameStep, ValueStep, StutterStep, Zenon DEF Next

LEMMA Invariant == Spec => []ParserInv
BY InitInv, NextInv, PTL DEF Spec

-----------------------------------------------------------------------------
(* Results                                                                 *)
-----------------------------------------------------------------------------
(* parse_program hands the executor, whatever the tokens: no array of a    *)
(* statement or of the program is written behind its end, every name fits  *)
(* its place, and each complete statement is one that the executor takes,  *)
(* an INSERT with as many values as names wherever it has a column list.   *)
THEOREM TypeCorrect == Spec => []TypeOK
<1>1. ParserInv => TypeOK
  <2> SUFFICES ASSUME ParserInv PROVE TypeOK
    OBVIOUS
  <2>1. pc \in DOMAIN Needed \cup {"start", "statement", "insert table", "select table",
                                   "select list", "column", "value", "parsed", "refused"}
    BY Calls DEF ParserInv, InStatement, InInsert, InSelect
  <2>2. Len(statement.columns) <= MaxColumns /\ Len(statement.values) <= MaxColumns
    BY DEF ParserInv, ColumnsKnown, ValuesKnown
  <2>3. ASSUME NEW n \in DOMAIN program
        PROVE  LET s == program[n] IN
               /\ StatementOf(s) \in Statement
               /\ s.kind = "INSERT" => s.values # <<>>
               /\ s.kind = "SELECT" /\ ~s.all => s.columns # <<>>
               /\ \A name \in {s.table} \cup {s.columns[i] : i \in DOMAIN s.columns} :
                    Len(name) < MaxNameLen
    <3> DEFINE s == program[n]
    <3>1. Whole(tokens, s)
      BY <2>3 DEF ParserInv
    <3> HIDE DEF s
    <3>2. s \in Draft /\ s.kind \in {"INSERT", "SELECT"} /\ ColumnsKnown(tokens, s)
          /\ ValuesKnown(tokens, s) /\ Len(s.table) < MaxNameLen
      BY <3>1 DEF Whole, Started
    <3>3. /\ s.columns \in Seq(Text) /\ s.values \in Seq(Literal)
          /\ s.all \in BOOLEAN /\ s.has_list \in BOOLEAN
      BY <3>2 DEF Draft
    <3>4. DOMAIN s.columns = 1 .. Len(s.columns)
      BY <3>3, LenProperties
    <3>5. \A i \in DOMAIN s.columns : Len(s.columns[i]) < MaxNameLen
      BY <3>2, <3>4 DEF ColumnsKnown
    <3>6. StatementOf(s) \in Statement
      <4>1. Len(s.columns) <= MaxColumns /\ Len(s.values) <= MaxColumns
        BY <3>2 DEF ColumnsKnown, ValuesKnown
      <4>2. CASE s.kind = "INSERT"
        BY <3>1, <3>3, <4>1, <4>2 DEF StatementOf, Statement, InsertStatement, SelectStatement, Whole
      <4>3. CASE s.kind = "SELECT"
        BY <3>1, <3>3, <4>1, <4>3 DEF StatementOf, Statement, InsertStatement, SelectStatement, Whole
      <4> QED
        BY <3>2, <4>2, <4>3
    <3> QED
      BY <3>1, <3>2, <3>5, <3>6 DEF Whole, s
  <2> QED
    BY <2>1, <2>2, <2>3 DEF ParserInv, TypeOK
<1> QED
  BY <1>1, Invariant, PTL

(* The locations that parse_program keeps with a complete statement point  *)
(* at the tokens its parts were read from, however long the program is.    *)
THEOREM LocationsCorrect == Spec => []LocationsPoint
<1>1. ParserInv => LocationsPoint
  <2> SUFFICES ASSUME ParserInv, NEW n \in DOMAIN program
               PROVE  LET s == program[n] IN
                      /\ tokens[s.where.start].type = s.kind
                      /\ s.kind = "INSERT" => tokens[s.where.table] = Name(s.table)
                      /\ [i \in DOMAIN s.columns |-> tokens[s.where.columns[i]]]
                           = [i \in DOMAIN s.columns |-> Name(s.columns[i])]
                      /\ [i \in DOMAIN s.values |-> tokens[s.where.values[i]]]
                           = [i \in DOMAIN s.values |-> Constant(s.values[i])]
    BY DEF LocationsPoint
  <2> DEFINE s == program[n]
  <2>1. Whole(tokens, s)
    BY DEF ParserInv
  <2> HIDE DEF s
  <2>2. /\ tokens[s.where.start].type = s.kind
        /\ s.kind = "INSERT" => tokens[s.where.table] = Name(s.table)
    BY <2>1 DEF Whole, Started, TableKnown
  <2>3. /\ s.columns \in Seq(Text) /\ s.values \in Seq(Literal)
        /\ ColumnsKnown(tokens, s) /\ ValuesKnown(tokens, s)
    BY <2>1 DEF Whole, Draft
  <2>4. DOMAIN s.columns = 1 .. Len(s.columns) /\ DOMAIN s.values = 1 .. Len(s.values)
    BY <2>3, LenProperties
  <2>5. \A i \in DOMAIN s.columns : tokens[s.where.columns[i]] = Name(s.columns[i])
    BY <2>3, <2>4 DEF ColumnsKnown
  <2>6. \A i \in DOMAIN s.values : tokens[s.where.values[i]] = Constant(s.values[i])
    BY <2>3, <2>4 DEF ValuesKnown
  <2> QED
    BY <2>2, <2>5, <2>6 DEF s
<1> QED
  BY <1>1, Invariant, PTL

-----------------------------------------------------------------------------
(* What has been read                                                      *)
-----------------------------------------------------------------------------
(* The sequence of one token, and the tokens that are read, spelled.       *)
One(token) == <<token>>
Read(n) == [k \in 1 .. n |-> Spelled(tokens[k])]

LEMMA OneType == \A token \in Token : One(token) \in Seq(Token) /\ One(token) # <<>>
BY DEF One

LEMMA MarkType == \A type \in TokenType : Mark(type) \in Token
BY DEF Mark, Token, Text

LEMMA SpelledType == \A token \in Token : Spelled(token) \in Token
BY MarkType DEF Spelled, Token

(* Reading goes on by one token, unless it is the end marker.              *)
LEMMA ReadOn ==
    ASSUME tokens \in TokenLists, NEW n \in DOMAIN tokens, tokens[n].type # "EOF"
    PROVE  /\ Behind(n) = n + 1 /\ n \in Nat
           /\ Read(n - 1) \in Seq(Token)
           /\ Read(Behind(n) - 1) = Read(n - 1) \o One(Spelled(tokens[n]))
<1>1. /\ DOMAIN tokens = 1 .. Len(tokens) /\ Len(tokens) \in Nat
      /\ \A k \in DOMAIN tokens : tokens[k] \in Token
  BY TokenFacts
<1>2. n < Len(tokens) /\ n \in Nat \ {0}
  <2>1. n # Len(tokens)
    BY ParserAssumption
  <2> QED
    BY <1>1, <2>1
<1>3. Behind(n) = n + 1
  BY <1>2 DEF Behind
<1>4. \A k \in 1 .. n : Spelled(tokens[k]) \in Token
  <2> TAKE k \in 1 .. n
  <2>1. tokens[k] \in Token
    BY <1>1, <1>2
  <2> QED
    BY <2>1, SpelledType
<1> DEFINE old == Read(n - 1)
           new == Read(n)
           last == Spelled(tokens[n])
<1>5. new \in [1 .. n -> Token] /\ new[n] = last /\ last \in Token
  BY <1>2, <1>4 DEF Read
<1>6. old \in [1 .. n - 1 -> Token] /\ \A k \in 1 .. n - 1 : old[k] = new[k]
  <2>1. \A k \in 1 .. n - 1 : k \in 1 .. n
    BY <1>2
  <2> QED
    BY <1>4, <2>1 DEF Read
<1> HIDE DEF old, new, last
<1>7. new \in Seq(Token) /\ Len(new) = n
  BY <1>2, <1>5, FunctionIsSeq
<1>8. old \in Seq(Token) /\ Len(old) = n - 1
  <2>1. n - 1 \in Nat
    BY <1>2
  <2> QED
    BY <1>6, <2>1, FunctionIsSeq
<1> DEFINE longer == old \o One(last)
<1>9. /\ longer \in Seq(Token) /\ Len(longer) = n /\ longer[n] = last
      /\ \A k \in 1 .. n - 1 : longer[k] = old[k]
  <2>1. longer = old \o <<last>>
    BY DEF One
  <2> HIDE DEF longer
  <2>2. /\ longer \in Seq(Token) /\ Len(longer) = Len(old) + 1
        /\ longer[Len(old) + 1] = last /\ \A k \in 1 .. Len(old) : longer[k] = old[k]
    BY <1>5, <1>8, <2>1, Ended
  <2> QED
    BY <1>2, <1>8, <2>2
<1> HIDE DEF longer
<1>10. \A k \in 1 .. Len(new) : new[k] = longer[k]
  <2> TAKE k \in 1 .. Len(new)
  <2>1. k \in 1 .. n - 1 \/ k = n
    BY <1>2, <1>7
  <2> QED
    BY <1>5, <1>6, <1>9, <2>1
<1>11. new = longer
  BY <1>7, <1>9, <1>10, SeqEqual
<1>12. n + 1 - 1 = n
  BY <1>2
<1> QED
  BY <1>2, <1>3, <1>8, <1>11, <1>12 DEF old, new, last, longer

-----------------------------------------------------------------------------
(* Sequences of tokens put together                                        *)
-----------------------------------------------------------------------------
LEMMA Longer ==
    ASSUME NEW s \in Seq(Token), NEW e \in Token, NEW t \in Seq(Token),
           Len(t) = Len(s) + 1, t[Len(s) + 1] = e, \A k \in 1 .. Len(s) : t[k] = s[k]
    PROVE  t = s \o One(e)
<1> DEFINE c == s \o One(e)
<1>1. c = s \o <<e>>
  BY DEF One
<1> HIDE DEF c
<1>2. /\ c \in Seq(Token) /\ Len(c) = Len(s) + 1 /\ Len(s) \in Nat /\ c[Len(s) + 1] = e
      /\ \A k \in 1 .. Len(s) : c[k] = s[k]
  BY <1>1, Ended
<1>3. \A k \in 1 .. Len(t) : k \in 1 .. Len(s) \/ k = Len(s) + 1
  BY <1>2
<1>4. \A k \in 1 .. Len(t) : t[k] = c[k]
  BY <1>2, <1>3
<1>5. t = c
  BY <1>2, <1>4, SeqEqual
<1> QED
  BY <1>5 DEF c

LEMMA Tuples ==
    ASSUME NEW t \in Seq(Token), Len(t) = 3
    PROVE  t = (One(t[1]) \o One(t[2])) \o One(t[3])
<1>1. t[1] \in Token /\ t[2] \in Token /\ t[3] \in Token
  <2>1. 1 \in 1 .. Len(t) /\ 2 \in 1 .. Len(t) /\ 3 \in 1 .. Len(t)
    OBVIOUS
  <2> QED
    BY <2>1, ElementOfSeq
<1> DEFINE one == <<t[1]>>
           two == <<t[1], t[2]>>
<1>2. one \in Seq(Token) /\ Len(one) = 1 /\ one[1] = t[1]
  BY <1>1
<1>3. two \in Seq(Token) /\ Len(two) = 2 /\ two[1] = t[1] /\ two[2] = t[2]
  BY <1>1
<1> HIDE DEF one, two
<1>4. /\ \A k \in 1 .. 1 : k = 1
      /\ \A k \in 1 .. 2 : k = 1 \/ k = 2
      /\ 1 + 1 = 2 /\ 2 + 1 = 3
  OBVIOUS
<1>5. two = one \o One(t[2])
  <2>1. \A k \in 1 .. Len(one) : two[k] = one[k]
    BY <1>2, <1>3, <1>4
  <2>2. Len(two) = Len(one) + 1 /\ two[Len(one) + 1] = t[2]
    BY <1>2, <1>3, <1>4
  <2> QED
    BY <1>1, <1>2, <1>3, <2>1, <2>2, Longer
<1>6. t = two \o One(t[3])
  <2>1. \A k \in 1 .. Len(two) : t[k] = two[k]
    BY <1>3, <1>4
  <2>2. Len(t) = Len(two) + 1 /\ t[Len(two) + 1] = t[3]
    BY <1>3, <1>4
  <2> QED
    BY <1>1, <1>3, <2>1, <2>2, Longer
<1>7. one = One(t[1])
  BY DEF one, One
<1> QED
  BY <1>5, <1>6, <1>7

(* One sequence behind the other, for the lemmas where nothing but the     *)
(* order matters.                                                          *)
Cat(s, t) == s \o t

LEMMA Put ==
    ASSUME NEW s \in Seq(Token), NEW t \in Seq(Token)
    PROVE  s \o t \in Seq(Token) /\ Cat(s, t) \in Seq(Token)
BY ConcatProperties DEF Cat

LEMMA PutThree ==
    ASSUME NEW s \in Seq(Token), NEW t \in Seq(Token), NEW u \in Seq(Token)
    PROVE  Cat(s, Cat(t, u)) = Cat(Cat(s, t), u)
<1>1. (s \o t) \o u = s \o (t \o u)
  BY ConcatAssociative
<1> QED
  BY <1>1, Zenon DEF Cat

LEMMA PutFour ==
    ASSUME NEW s \in Seq(Token), NEW t \in Seq(Token), NEW u \in Seq(Token),
           NEW v \in Seq(Token)
    PROVE  Cat(s, Cat(Cat(t, u), v)) = Cat(Cat(Cat(s, t), u), v)
<1>1. Cat(t, u) \in Seq(Token)
  BY Put
<1> QED
  BY <1>1, PutThree

-----------------------------------------------------------------------------
(* The lists of a statement                                                *)
-----------------------------------------------------------------------------
(* A list that goes on: the elements, each of them with a comma behind it. *)
GoesOn(list) == IF list = <<>> THEN <<>> ELSE CommaList(list) \o One(Mark("COMMA"))
NameList(s) == [i \in DOMAIN s.columns |-> Name(s.columns[i])]
ConstantList(s) == [i \in DOMAIN s.values |-> Constant(s.values[i])]

LEMMA CommaListType ==
    ASSUME NEW list \in Seq(Token)
    PROVE  /\ CommaList(list) \in Seq(Token) /\ GoesOn(list) \in Seq(Token)
           /\ list # <<>> => Len(CommaList(list)) = 2 * Len(list) - 1
           /\ \A k \in 1 .. 2 * Len(list) - 1 :
                 CommaList(list)[k] = IF k % 2 = 1 THEN list[(k + 1) \div 2] ELSE Mark("COMMA")
<1>1. /\ Len(list) \in Nat /\ list # <<>> => Len(list) > 0
      /\ \A k \in 1 .. Len(list) : list[k] \in Token
  BY LenProperties, EmptySeq, ElementOfSeq
<1>2. Mark("COMMA") \in Token
  BY MarkType DEF TokenType, Punctuation
<1> DEFINE m == 2 * Len(list) - 1
           c == CommaList(list)
<1>3. \A k \in 1 .. m : (k + 1) \div 2 \in 1 .. Len(list)
  BY <1>1
<1>4. \A k \in 1 .. m :
         (IF k % 2 = 1 THEN list[(k + 1) \div 2] ELSE Mark("COMMA")) \in Token
  BY <1>1, <1>2, <1>3
<1>5. c \in [1 .. m -> Token] /\ \A k \in 1 .. m :
         c[k] = IF k % 2 = 1 THEN list[(k + 1) \div 2] ELSE Mark("COMMA")
  BY <1>4 DEF CommaList
<1>6. CASE list = <<>>
  <2>1. 1 .. m = {}
    BY <1>6
  <2>2. c \in [1 .. 0 -> Token]
    <3>1. 1 .. 0 = {}
      OBVIOUS
    <3> QED
      BY <1>5, <2>1, <3>1
  <2> HIDE DEF c
  <2>3. c \in Seq(Token)
    BY <2>2, FunctionIsSeq
  <2>4. GoesOn(list) \in Seq(Token)
    BY <1>6 DEF GoesOn
  <2> QED
    BY <1>5, <1>6, <2>3, <2>4 DEF c
<1>7. CASE list # <<>>
  <2>1. m \in Nat
    BY <1>1, <1>7
  <2> HIDE DEF c, m
  <2>2. c \in Seq(Token) /\ Len(c) = m
    BY <1>5, <2>1, FunctionIsSeq
  <2>3. c \o One(Mark("COMMA")) \in Seq(Token)
    BY <1>2, <2>2, OneType, Put
  <2>4. GoesOn(list) = c \o One(Mark("COMMA"))
    BY <1>7 DEF GoesOn, c
  <2> QED
    BY <1>5, <2>2, <2>3, <2>4 DEF c, m
<1> QED
  BY <1>6, <1>7

(* With one element more, the list is the one that went on, and it.        *)
LEMMA CommaListGrows ==
    ASSUME NEW list \in Seq(Token), NEW token \in Token,
           NEW longer, longer = Append(list, token)
    PROVE  /\ longer \in Seq(Token) /\ longer # <<>>
           /\ CommaList(longer) = GoesOn(list) \o One(token)
<1> DEFINE m == Len(list)
           new == CommaList(longer)
           old == CommaList(list)
           on == GoesOn(list)
           comma == Mark("COMMA")
<1>1. /\ longer \in Seq(Token) /\ longer # <<>> /\ Len(longer) = m + 1 /\ m \in Nat
      /\ longer[m + 1] = token /\ \A k \in 1 .. m : longer[k] = list[k]
  BY AppendProperties, LenProperties
<1>2. comma \in Token
  BY MarkType DEF TokenType, Punctuation
<1>3. /\ new \in Seq(Token) /\ Len(new) = 2 * m + 1
      /\ \A k \in 1 .. 2 * m + 1 :
            new[k] = IF k % 2 = 1 THEN longer[(k + 1) \div 2] ELSE comma
  <2>1. 2 * (m + 1) - 1 = 2 * m + 1
    BY <1>1
  <2> HIDE DEF new, comma
  <2>2. /\ new \in Seq(Token) /\ Len(new) = 2 * Len(longer) - 1
        /\ \A k \in 1 .. 2 * Len(longer) - 1 :
              new[k] = IF k % 2 = 1 THEN longer[(k + 1) \div 2] ELSE comma
    BY <1>1, CommaListType DEF new, comma
  <2> QED
    BY <1>1, <2>1, <2>2
<1> HIDE DEF new, comma
<1>4. on \in Seq(Token) /\ Len(on) = 2 * m /\ \A k \in 1 .. 2 * m : on[k] = new[k]
  <2>1. CASE list = <<>>
    <3>1. m = 0 /\ on = <<>>
      BY <2>1 DEF GoesOn
    <3> QED
      BY <3>1
  <2>2. CASE list # <<>>
    <3>1. on = old \o <<comma>> /\ m > 0
      BY <2>2, EmptySeq DEF GoesOn, One, comma
    <3>2. /\ old \in Seq(Token) /\ Len(old) = 2 * m - 1
          /\ \A k \in 1 .. 2 * m - 1 :
                old[k] = IF k % 2 = 1 THEN list[(k + 1) \div 2] ELSE comma
      BY <2>2, CommaListType DEF comma
    <3> HIDE DEF old, on
    <3>3. /\ on \in Seq(Token) /\ Len(on) = Len(old) + 1 /\ on[Len(old) + 1] = comma
          /\ \A k \in 1 .. Len(old) : on[k] = old[k]
      BY <1>2, <3>1, <3>2, Ended
    <3>4. Len(on) = 2 * m /\ on[2 * m] = comma /\ \A k \in 1 .. 2 * m - 1 : on[k] = old[k]
      BY <1>1, <3>2, <3>3
    <3>5. \A k \in 1 .. 2 * m - 1 : k \in 1 .. 2 * m + 1 /\ (k + 1) \div 2 \in 1 .. m
      BY <1>1
    <3>6. \A k \in 1 .. 2 * m - 1 : new[k] = old[k]
      <4> TAKE k \in 1 .. 2 * m - 1
      <4>1. longer[(k + 1) \div 2] = list[(k + 1) \div 2]
        BY <1>1, <3>5
      <4> QED
        BY <1>3, <3>2, <3>5, <4>1
    <3>7. new[2 * m] = comma
      <4>1. 2 * m \in 1 .. 2 * m + 1 /\ (2 * m) % 2 # 1
        BY <1>1, <3>1
      <4> QED
        BY <1>3, <4>1
    <3>8. \A k \in 1 .. 2 * m : k \in 1 .. 2 * m - 1 \/ k = 2 * m
      BY <1>1
    <3> QED
      BY <3>3, <3>4, <3>6, <3>7, <3>8
  <2> QED
    BY <2>1, <2>2
<1>5. new[2 * m + 1] = token
  <2>1. 2 * m + 1 \in 1 .. 2 * m + 1 /\ (2 * m + 1) % 2 = 1 /\ (2 * m + 1 + 1) \div 2 = m + 1
    BY <1>1
  <2> QED
    BY <1>1, <1>3, <2>1
<1> HIDE DEF on, m
<1>6. new = on \o One(token)
  <2>1. \A k \in 1 .. Len(on) : new[k] = on[k]
    BY <1>4
  <2> QED
    BY <1>3, <1>4, <1>5, <2>1, Longer
<1> QED
  BY <1>1, <1>6 DEF new, on

LEMMA NameType == \A text \in Text : Name(text) \in Token
BY DEF Name, Token, TokenType

LEMMA ConstantType == \A value \in Literal : Constant(value) \in Token
BY DEF Constant, Literal, Token, TokenType

LEMMA ListTypes ==
    ASSUME NEW s \in Draft
    PROVE  NameList(s) \in Seq(Token) /\ ConstantList(s) \in Seq(Token)
<1>1. s.columns \in Seq(Text) /\ s.values \in Seq(Literal)
  BY DEF Draft
<1>2. NameList(s) \in Seq(Token)
  <2> DEFINE c == s.columns
             n == Len(c)
             f == NameList(s)
  <2>1. c \in Seq(Text)
    BY <1>1
  <2>2. n \in Nat /\ DOMAIN c = 1 .. n /\ \A i \in 1 .. n : c[i] \in Text
    BY <2>1, LenProperties, ElementOfSeq
  <2>3. f \in [1 .. n -> Token]
    BY <2>2, NameType DEF NameList
  <2> HIDE DEF f, n
  <2> QED
    BY <2>2, <2>3, FunctionIsSeq DEF f
<1>3. ConstantList(s) \in Seq(Token)
  <2> DEFINE c == s.values
             n == Len(c)
             f == ConstantList(s)
  <2>1. c \in Seq(Literal)
    BY <1>1
  <2>2. n \in Nat /\ DOMAIN c = 1 .. n /\ \A i \in 1 .. n : c[i] \in Literal
    BY <2>1, LenProperties, ElementOfSeq
  <2>3. f \in [1 .. n -> Token]
    BY <2>2, ConstantType DEF ConstantList
  <2> HIDE DEF f, n
  <2> QED
    BY <2>2, <2>3, FunctionIsSeq DEF f
<1> QED
  BY <1>2, <1>3

LEMMA ListGrows ==
    ASSUME NEW old \in Seq(Token), NEW new \in Seq(Token), Len(new) = Len(old) + 1,
           NEW last \in Token, new[Len(old) + 1] = last,
           \A k \in 1 .. Len(old) : new[k] = old[k]
    PROVE  CommaList(new) = GoesOn(old) \o One(last) /\ new # <<>>
<1> DEFINE n == Len(old)
           a == Append(old, last)
<1>1. n \in Nat
  BY LenProperties
<1>2. /\ a \in Seq(Token) /\ Len(a) = n + 1
      /\ a[n + 1] = last /\ \A k \in 1 .. n : a[k] = old[k]
  BY AppendProperties
<1> HIDE DEF n, a
<1>3. \A k \in 1 .. n + 1 : new[k] = a[k]
  <2>1. \A k \in 1 .. n + 1 : k \in 1 .. n \/ k = n + 1
    BY <1>1
  <2> QED
    BY <1>2, <2>1 DEF n
<1>4. new = a
  BY <1>2, <1>3, SeqEqual DEF n
<1>5. new # <<>> /\ CommaList(new) = GoesOn(old) \o One(last)
  BY <1>4, CommaListGrows DEF a
<1> QED
  BY <1>5

LEMMA NameListGrows ==
    ASSUME NEW s \in Draft, NEW name \in Text, NEW t, t.columns = Append(s.columns, name)
    PROVE  /\ CommaList(NameList(t)) = GoesOn(NameList(s)) \o One(Name(name))
           /\ NameList(t) # <<>> /\ NameList(t) \in Seq(Token)
<1> DEFINE c == s.columns
           d == t.columns
           n == Len(c)
           old == NameList(s)
           new == NameList(t)
<1>1. /\ c \in Seq(Text) /\ d \in Seq(Text) /\ n \in Nat
      /\ DOMAIN c = 1 .. n /\ DOMAIN d = 1 .. n + 1
      /\ d[n + 1] = name /\ \A k \in 1 .. n : d[k] = c[k]
  <2>1. c \in Seq(Text)
    BY DEF Draft
  <2> QED
    BY <2>1, AppendProperties, LenProperties
<1>2. \A k \in 1 .. n + 1 : k \in 1 .. Len(d) /\ d[k] \in Text
  BY <1>1, LenProperties, ElementOfSeq
<1>3. old = [k \in 1 .. n |-> Name(c[k])]
  BY <1>1 DEF NameList
<1>4. new = [k \in 1 .. n + 1 |-> Name(d[k])]
  BY <1>1 DEF NameList
<1>5. Name(name) \in Token
  BY NameType
<1> HIDE DEF n, c, d, old, new
<1>6. \A k \in 1 .. n : k \in 1 .. n + 1
  BY <1>1
<1>7. new \in [1 .. n + 1 -> Token]
  BY <1>2, <1>4, NameType
<1>8. old \in [1 .. n -> Token]
  BY <1>1, <1>2, <1>3, <1>6, NameType
<1>9. old \in Seq(Token) /\ Len(old) = n
  BY <1>1, <1>8, FunctionIsSeq
<1>10. new \in Seq(Token) /\ Len(new) = n + 1
  <2>1. n + 1 \in Nat
    BY <1>1
  <2> QED
    BY <1>7, <2>1, FunctionIsSeq
<1>11. new[n + 1] = Name(name)
  <2>1. n + 1 \in 1 .. n + 1
    BY <1>1
  <2> QED
    BY <1>1, <1>4, <2>1
<1>12. \A k \in 1 .. n : new[k] = old[k]
  BY <1>1, <1>3, <1>4, <1>6
<1>13. CommaList(new) = GoesOn(old) \o One(Name(name)) /\ new # <<>>
  BY <1>5, <1>9, <1>10, <1>11, <1>12, ListGrows
<1> QED
  BY <1>10, <1>13 DEF old, new

LEMMA ConstantListGrows ==
    ASSUME NEW s \in Draft, NEW value \in Literal, NEW t, t.values = Append(s.values, value)
    PROVE  /\ CommaList(ConstantList(t)) = GoesOn(ConstantList(s)) \o One(Constant(value))
           /\ ConstantList(t) # <<>> /\ ConstantList(t) \in Seq(Token)
<1> DEFINE c == s.values
           d == t.values
           n == Len(c)
           old == ConstantList(s)
           new == ConstantList(t)
<1>1. /\ c \in Seq(Literal) /\ d \in Seq(Literal) /\ n \in Nat
      /\ DOMAIN c = 1 .. n /\ DOMAIN d = 1 .. n + 1
      /\ d[n + 1] = value /\ \A k \in 1 .. n : d[k] = c[k]
  <2>1. c \in Seq(Literal)
    BY DEF Draft
  <2> QED
    BY <2>1, AppendProperties, LenProperties
<1>2. \A k \in 1 .. n + 1 : k \in 1 .. Len(d) /\ d[k] \in Literal
  BY <1>1, LenProperties, ElementOfSeq
<1>3. old = [k \in 1 .. n |-> Constant(c[k])]
  BY <1>1 DEF ConstantList
<1>4. new = [k \in 1 .. n + 1 |-> Constant(d[k])]
  BY <1>1 DEF ConstantList
<1>5. Constant(value) \in Token
  BY ConstantType
<1> HIDE DEF n, c, d, old, new
<1>6. \A k \in 1 .. n : k \in 1 .. n + 1
  BY <1>1
<1>7. new \in [1 .. n + 1 -> Token]
  BY <1>2, <1>4, ConstantType
<1>8. old \in [1 .. n -> Token]
  BY <1>1, <1>2, <1>3, <1>6, ConstantType
<1>9. old \in Seq(Token) /\ Len(old) = n
  BY <1>1, <1>8, FunctionIsSeq
<1>10. new \in Seq(Token) /\ Len(new) = n + 1
  <2>1. n + 1 \in Nat
    BY <1>1
  <2> QED
    BY <1>7, <2>1, FunctionIsSeq
<1>11. new[n + 1] = Constant(value)
  <2>1. n + 1 \in 1 .. n + 1
    BY <1>1
  <2> QED
    BY <1>1, <1>4, <2>1
<1>12. \A k \in 1 .. n : new[k] = old[k]
  BY <1>1, <1>3, <1>4, <1>6
<1>13. CommaList(new) = GoesOn(old) \o One(Constant(value)) /\ new # <<>>
  BY <1>5, <1>9, <1>10, <1>11, <1>12, ListGrows
<1> QED
  BY <1>10, <1>13 DEF old, new

-----------------------------------------------------------------------------
(* A statement, as far as it is read                                       *)
-----------------------------------------------------------------------------
(* What is written of an INSERT up to VALUES, and of a SELECT up to FROM.  *)
Inserted(s) == <<Mark("INSERT"), Mark("INTO"), Name(s.table)>>
Opening(s) == Inserted(s) \o (IF s.has_list THEN Parenthesized(NameList(s)) ELSE <<>>)
Choice(s) == <<Mark("SELECT")>> \o (IF s.all THEN <<Mark("STAR")>> ELSE CommaList(NameList(s)))

Partial(place, s) ==
    CASE place = "into" -> One(Mark("INSERT"))
      [] place = "insert table" -> One(Mark("INSERT")) \o One(Mark("INTO"))
      [] place = "column" /\ s.kind = "INSERT"
           -> (Inserted(s) \o One(Mark("LPAREN"))) \o GoesOn(NameList(s))
      [] place = "close_columns"
           -> (Inserted(s) \o One(Mark("LPAREN"))) \o CommaList(NameList(s))
      [] place = "values" -> Opening(s)
      [] place = "open" -> Opening(s) \o One(Mark("VALUES"))
      [] place = "value"
           -> ((Opening(s) \o One(Mark("VALUES"))) \o One(Mark("LPAREN")))
                \o GoesOn(ConstantList(s))
      [] place = "close_values"
           -> ((Opening(s) \o One(Mark("VALUES"))) \o One(Mark("LPAREN")))
                \o CommaList(ConstantList(s))
      [] place = "select list" -> One(Mark("SELECT"))
      [] place = "column" /\ s.kind = "SELECT" -> One(Mark("SELECT")) \o GoesOn(NameList(s))
      [] place = "from" -> Choice(s)
      [] place = "select table" -> Choice(s) \o One(Mark("FROM"))

(* What is not yet filled in of a statement is as it was zeroed.           *)
Fresh(place, s) ==
    /\ place \in {"into", "insert table", "select list"} => s.columns = <<>> /\ ~s.all
    /\ place = "column" => IF s.kind = "INSERT" THEN s.has_list ELSE ~s.all
    /\ place = "close_columns" => s.has_list
    /\ place = "from" => s.all \/ s.columns # <<>>
    /\ place \in {"into", "insert table", "select list", "column", "close_columns", "values",
                  "open"} => s.values = <<>>

LEMMA PartialOf ==
    ASSUME NEW s
    PROVE  /\ Partial("into", s) = One(Mark("INSERT"))
           /\ Partial("insert table", s) = One(Mark("INSERT")) \o One(Mark("INTO"))
           /\ s.kind = "INSERT" => Partial("column", s)
                = (Inserted(s) \o One(Mark("LPAREN"))) \o GoesOn(NameList(s))
           /\ Partial("close_columns", s)
                = (Inserted(s) \o One(Mark("LPAREN"))) \o CommaList(NameList(s))
           /\ Partial("values", s) = Opening(s)
           /\ Partial("open", s) = Opening(s) \o One(Mark("VALUES"))
           /\ Partial("value", s) = ((Opening(s) \o One(Mark("VALUES"))) \o One(Mark("LPAREN")))
                                      \o GoesOn(ConstantList(s))
           /\ Partial("close_values", s)
                = ((Opening(s) \o One(Mark("VALUES"))) \o One(Mark("LPAREN")))
                    \o CommaList(ConstantList(s))
           /\ Partial("select list", s) = One(Mark("SELECT"))
           /\ s.kind = "SELECT" => Partial("column", s)
                = One(Mark("SELECT")) \o GoesOn(NameList(s))
           /\ Partial("from", s) = Choice(s)
           /\ Partial("select table", s) = Choice(s) \o One(Mark("FROM"))
BY DEF Partial

LEMMA MarksAre ==
    \A type \in Keyword \cup Punctuation :
        Mark(type) \in Token /\ One(Mark(type)) \in Seq(Token)
BY MarkType, OneType DEF TokenType

LEMMA PartTypes ==
    ASSUME NEW s \in Draft
    PROVE  /\ Inserted(s) \in Seq(Token) /\ Opening(s) \in Seq(Token) /\ Choice(s) \in Seq(Token)
           /\ Parenthesized(NameList(s)) \in Seq(Token)
           /\ Parenthesized(ConstantList(s)) \in Seq(Token)
           /\ Inserted(s)
                = (One(Mark("INSERT")) \o One(Mark("INTO"))) \o One(Name(s.table))
           /\ \A list \in Seq(Token) :
                Parenthesized(list)
                  = (One(Mark("LPAREN")) \o CommaList(list)) \o One(Mark("RPAREN"))
<1>1. s.table \in Text
  BY DEF Draft
<1>2. Name(s.table) \in Token /\ One(Name(s.table)) \in Seq(Token)
  BY <1>1, NameType, OneType
<1>3. /\ {"INSERT", "INTO", "LPAREN", "RPAREN", "SELECT", "STAR"} \subseteq Keyword \cup Punctuation
  BY DEF Keyword, Punctuation
<1>4. Inserted(s) = (One(Mark("INSERT")) \o One(Mark("INTO"))) \o One(Name(s.table))
  <2>1. Mark("INSERT") \in Token /\ Mark("INTO") \in Token
    BY <1>3, MarksAre
  <2> DEFINE a == Mark("INSERT")
             b == Mark("INTO")
             c == Name(s.table)
             t == Inserted(s)
  <2>2. a \in Token /\ b \in Token /\ c \in Token /\ t = <<a, b, c>>
    BY <1>2, <2>1, Zenon DEF Inserted
  <2> HIDE DEF a, b, c, t
  <2>3. t \in Seq(Token) /\ Len(t) = 3 /\ t[1] = a /\ t[2] = b /\ t[3] = c
    BY <2>2
  <2>4. t = (One(a) \o One(b)) \o One(c)
    BY <2>3, Tuples
  <2> QED
    BY <2>4 DEF a, b, c, t
<1>5. Inserted(s) \in Seq(Token)
  <2>1. One(Mark("INSERT")) \o One(Mark("INTO")) \in Seq(Token)
    BY <1>3, MarksAre, Put
  <2> QED
    BY <1>2, <1>4, <2>1, Put
<1>6. ASSUME NEW list \in Seq(Token)
      PROVE  /\ Parenthesized(list)
                  = (One(Mark("LPAREN")) \o CommaList(list)) \o One(Mark("RPAREN"))
             /\ Parenthesized(list) \in Seq(Token)
  <2>1. Parenthesized(list)
          = (One(Mark("LPAREN")) \o CommaList(list)) \o One(Mark("RPAREN"))
    BY DEF Parenthesized, One
  <2>2. CommaList(list) \in Seq(Token)
    BY CommaListType
  <2>3. One(Mark("LPAREN")) \o CommaList(list) \in Seq(Token)
    BY <1>3, <2>2, MarksAre, Put
  <2> QED
    BY <1>3, <2>1, <2>3, MarksAre, Put
<1>7. NameList(s) \in Seq(Token) /\ ConstantList(s) \in Seq(Token)
  BY ListTypes
<1>8. Opening(s) \in Seq(Token)
  <2>1. CASE s.has_list
    BY <1>5, <1>6, <1>7, <2>1, Put DEF Opening
  <2>2. CASE ~s.has_list
    <3>1. Opening(s) = Inserted(s)
      BY <1>5, <2>2, ConcatEmptySeq DEF Opening
    <3> QED
      BY <1>5, <3>1
  <2> QED
    BY <2>1, <2>2
<1>9. Choice(s) \in Seq(Token)
  <2>1. CommaList(NameList(s)) \in Seq(Token)
    BY <1>7, CommaListType
  <2>2. (IF s.all THEN One(Mark("STAR")) ELSE CommaList(NameList(s))) \in Seq(Token)
    BY <1>3, <2>1, MarksAre
  <2>3. Choice(s) = One(Mark("SELECT"))
                      \o (IF s.all THEN One(Mark("STAR")) ELSE CommaList(NameList(s)))
    BY DEF Choice, One
  <2> QED
    BY <1>3, <2>2, <2>3, MarksAre, Put
<1> QED
  BY <1>4, <1>5, <1>6, <1>7, <1>8, <1>9

LEMMA PartialType ==
    ASSUME NEW s \in Draft, NEW place \in InStatement,
           place = "column" => s.kind \in {"INSERT", "SELECT"}
    PROVE  Partial(place, s) \in Seq(Token)
<1>1. {"INSERT", "INTO", "LPAREN", "VALUES", "SELECT", "FROM"} \subseteq Keyword \cup Punctuation
  BY DEF Keyword, Punctuation
<1>2. /\ One(Mark("INSERT")) \in Seq(Token) /\ One(Mark("INTO")) \in Seq(Token)
      /\ One(Mark("LPAREN")) \in Seq(Token) /\ One(Mark("VALUES")) \in Seq(Token)
      /\ One(Mark("SELECT")) \in Seq(Token) /\ One(Mark("FROM")) \in Seq(Token)
  BY <1>1, MarksAre
<1>3. /\ GoesOn(NameList(s)) \in Seq(Token) /\ CommaList(NameList(s)) \in Seq(Token)
      /\ GoesOn(ConstantList(s)) \in Seq(Token) /\ CommaList(ConstantList(s)) \in Seq(Token)
  BY ListTypes, CommaListType
<1>4. Inserted(s) \in Seq(Token) /\ Opening(s) \in Seq(Token) /\ Choice(s) \in Seq(Token)
  BY PartTypes
<1>5. /\ One(Mark("INSERT")) \o One(Mark("INTO")) \in Seq(Token)
      /\ Inserted(s) \o One(Mark("LPAREN")) \in Seq(Token)
      /\ Opening(s) \o One(Mark("VALUES")) \in Seq(Token)
      /\ One(Mark("SELECT")) \o GoesOn(NameList(s)) \in Seq(Token)
      /\ Choice(s) \o One(Mark("FROM")) \in Seq(Token)
  BY <1>2, <1>3, <1>4, Put
<1>6. (Opening(s) \o One(Mark("VALUES"))) \o One(Mark("LPAREN")) \in Seq(Token)
  BY <1>2, <1>5, Put
<1>7. /\ (Inserted(s) \o One(Mark("LPAREN"))) \o GoesOn(NameList(s)) \in Seq(Token)
      /\ (Inserted(s) \o One(Mark("LPAREN"))) \o CommaList(NameList(s)) \in Seq(Token)
  BY <1>3, <1>5, Put
<1>8. /\ ((Opening(s) \o One(Mark("VALUES"))) \o One(Mark("LPAREN")))
           \o GoesOn(ConstantList(s)) \in Seq(Token)
      /\ ((Opening(s) \o One(Mark("VALUES"))) \o One(Mark("LPAREN")))
           \o CommaList(ConstantList(s)) \in Seq(Token)
  BY <1>3, <1>6, Put
<1>9. place \in {"into", "insert table", "close_columns", "values", "open", "value",
                 "close_values", "select list", "from", "select table", "column"}
  BY DEF InStatement, InInsert, InSelect
<1> QED
  BY <1>2, <1>4, <1>5, <1>6, <1>7, <1>8, <1>9, PartialOf

(* A statement is what was read of it before its last two tokens, and they. *)
LEMMA WrittenInsert ==
    ASSUME NEW s \in Draft, s.kind = "INSERT"
    PROVE  /\ Written(s) \in Seq(Token)
           /\ Written(s) = (Partial("close_values", s) \o One(Mark("RPAREN")))
                             \o One(Mark("SEMICOLON"))
<1>1. {"LPAREN", "RPAREN", "VALUES", "SEMICOLON"} \subseteq Keyword \cup Punctuation
  BY DEF Keyword, Punctuation
<1> DEFINE open == One(Mark("LPAREN"))
           close == One(Mark("RPAREN"))
           key == One(Mark("VALUES"))
           end == One(Mark("SEMICOLON"))
           list == ConstantList(s)
           first == Opening(s)
<1>2. open \in Seq(Token) /\ close \in Seq(Token) /\ key \in Seq(Token) /\ end \in Seq(Token)
  BY <1>1, MarksAre
<1>3. list \in Seq(Token) /\ CommaList(list) \in Seq(Token) /\ first \in Seq(Token)
  BY ListTypes, CommaListType, PartTypes
<1>4. Written(s) = ((first \o key) \o Parenthesized(list)) \o end
  BY DEF Written, Opening, Inserted, One, NameList, ConstantList
<1>5. Parenthesized(list) = (open \o CommaList(list)) \o close
  BY <1>3, PartTypes
<1>6. Partial("close_values", s) = ((first \o key) \o open) \o CommaList(list)
  BY PartialOf
<1> HIDE DEF open, close, key, end, list, first
<1> DEFINE base == first \o key
           inner == CommaList(list)
<1>7. base \in Seq(Token) /\ inner \in Seq(Token)
  BY <1>2, <1>3, Put
<1> HIDE DEF base, inner
<1>8. base \o ((open \o inner) \o close) = ((base \o open) \o inner) \o close
  <2>1. Cat(base, Cat(Cat(open, inner), close)) = Cat(Cat(Cat(base, open), inner), close)
    BY <1>2, <1>7, PutFour
  <2> QED
    BY <2>1 DEF Cat
<1>9. Written(s) = (Partial("close_values", s) \o close) \o end
  BY <1>4, <1>5, <1>6, <1>8 DEF base, inner
<1>10. Partial("close_values", s) \in Seq(Token)
  BY PartialType DEF InStatement, InInsert
<1>11. Partial("close_values", s) \o close \in Seq(Token)
  BY <1>2, <1>10, Put
<1>12. Written(s) \in Seq(Token)
  BY <1>2, <1>9, <1>11, Put
<1> QED
  BY <1>9, <1>12 DEF close, end

LEMMA WrittenSelect ==
    ASSUME NEW s \in Draft, s.kind = "SELECT"
    PROVE  /\ Written(s) \in Seq(Token)
           /\ Written(s) = (Partial("select table", s) \o One(Name(s.table)))
                             \o One(Mark("SEMICOLON"))
<1> DEFINE from == Mark("FROM")
           name == Name(s.table)
           end == Mark("SEMICOLON")
           last == <<from, name, end>>
           first == Choice(s)
<1>1. from \in Token /\ end \in Token /\ name \in Token
  <2>1. "FROM" \in Keyword \cup Punctuation /\ "SEMICOLON" \in Keyword \cup Punctuation
    BY DEF Keyword, Punctuation
  <2>2. s.table \in Text
    BY DEF Draft
  <2> QED
    BY <2>1, <2>2, MarksAre, NameType
<1>2. first \in Seq(Token)
  BY PartTypes
<1>3. Written(s) = first \o last
  BY DEF Written, Choice, NameList
<1>4. Partial("select table", s) = first \o One(from)
  BY PartialOf
<1> HIDE DEF from, name, end, first
<1>5. /\ last \in Seq(Token) /\ Len(last) = 3
      /\ last[1] = from /\ last[2] = name /\ last[3] = end
  BY <1>1
<1> HIDE DEF last
<1>6. last = (One(from) \o One(name)) \o One(end)
  BY <1>5, Tuples
<1>7. One(from) \in Seq(Token) /\ One(name) \in Seq(Token) /\ One(end) \in Seq(Token)
  BY <1>1, OneType
<1>8. first \o ((One(from) \o One(name)) \o One(end))
        = ((first \o One(from)) \o One(name)) \o One(end)
  <2> DEFINE t == One(from)
             u == One(name)
             v == One(end)
  <2>1. t \in Seq(Token) /\ u \in Seq(Token) /\ v \in Seq(Token)
    BY <1>7
  <2> HIDE DEF t, u, v
  <2>2. Cat(first, Cat(Cat(t, u), v)) = Cat(Cat(Cat(first, t), u), v)
    BY <1>2, <2>1, PutFour
  <2> QED
    BY <2>2 DEF Cat, t, u, v
<1>9. Written(s) = (Partial("select table", s) \o One(name)) \o One(end)
  BY <1>3, <1>4, <1>6, <1>8
<1>10. first \o One(from) \in Seq(Token)
  BY <1>2, <1>7, Put
<1>11. (first \o One(from)) \o One(name) \in Seq(Token)
  BY <1>7, <1>10, Put
<1>12. Written(s) \in Seq(Token)
  BY <1>4, <1>7, <1>9, <1>11, Put
<1> QED
  BY <1>9, <1>12 DEF name, end

-----------------------------------------------------------------------------
(* The program, as far as it is read                                       *)
-----------------------------------------------------------------------------
LEMMA ProgramGrows ==
    ASSUME NEW p \in Seq(Draft), NEW s \in Draft, s.kind \in {"INSERT", "SELECT"},
           \A n \in DOMAIN p : p[n].kind \in {"INSERT", "SELECT"}
    PROVE  WrittenProgram(Append(p, s)) = WrittenProgram(p) \o Written(s)
<1> DEFINE m == Len(p)
           longer == Append(p, s)
           q == [n \in DOMAIN p |-> Written(p[n])]
           r == [n \in DOMAIN longer |-> Written(longer[n])]
<1>1. /\ m \in Nat /\ DOMAIN p = 1 .. m /\ \A n \in 1 .. m : p[n] \in Draft
      /\ DOMAIN longer = 1 .. m + 1 /\ longer[m + 1] = s
      /\ \A n \in 1 .. m : longer[n] = p[n]
  BY AppendProperties, LenProperties, ElementOfSeq
<1>2. \A n \in 1 .. m : Written(p[n]) \in Seq(Token)
  BY <1>1, WrittenInsert, WrittenSelect
<1>3. Written(s) \in Seq(Token)
  BY WrittenInsert, WrittenSelect
<1>4. q \in [1 .. m -> Seq(Token)] /\ \A n \in 1 .. m : q[n] = Written(p[n])
  BY <1>1, <1>2
<1>5. /\ r = [n \in 1 .. m + 1 |-> Written(longer[n])]
  BY <1>1
<1> HIDE DEF m, q, r, longer
<1>6. q \in Seq(Seq(Token)) /\ Len(q) = m
  BY <1>1, <1>4, FunctionIsSeq
<1>7. /\ r[m + 1] = Written(s) /\ \A n \in 1 .. m : r[n] = q[n]
      /\ r \in [1 .. m + 1 -> Seq(Token)]
  <2>1. /\ m + 1 \in 1 .. m + 1 /\ \A n \in 1 .. m : n \in 1 .. m + 1
        /\ \A n \in 1 .. m + 1 : n \in 1 .. m \/ n = m + 1
    BY <1>1
  <2>2. \A n \in 1 .. m + 1 : Written(longer[n]) \in Seq(Token)
    BY <1>1, <1>2, <1>3, <2>1
  <2> QED
    BY <1>1, <1>4, <1>5, <2>1, <2>2
<1>8. r \in Seq(Seq(Token)) /\ Len(r) = m + 1
  <2>1. m + 1 \in Nat
    BY <1>1
  <2> QED
    BY <1>7, <2>1, FunctionIsSeq
<1> DEFINE e == Written(s)
           a == Append(q, e)
<1> HIDE DEF e
<1>9. /\ a \in Seq(Seq(Token)) /\ Len(a) = m + 1 /\ a[m + 1] = e
      /\ \A n \in 1 .. m : a[n] = q[n]
  BY <1>3, <1>6, AppendProperties DEF e
<1> HIDE DEF a
<1>10. r = a
  <2>1. \A n \in 1 .. m + 1 : n \in 1 .. m \/ n = m + 1
    BY <1>1
  <2>2. \A n \in 1 .. Len(r) : r[n] = a[n]
    BY <1>7, <1>8, <1>9, <2>1 DEF e
  <2> QED
    BY <1>8, <1>9, <2>2, SeqEqual
<1>11. r = Append(q, e) /\ e \in Seq(Token)
  BY <1>3, <1>10 DEF a, e
<1>12. FlattenSeq(r) = FlattenSeq(q) \o e
  BY <1>6, <1>11, FlattenAppend
<1>13. WrittenProgram(p) = FlattenSeq(q) /\ WrittenProgram(longer) = FlattenSeq(r)
  BY Zenon DEF WrittenProgram, q, r
<1> QED
  BY <1>12, <1>13 DEF e, longer

(* The tokens that are read are the program that is complete and what is   *)
(* read of the statement, token by token.  A statement is complete before  *)
(* its semicolon is read.                                                  *)
SpellInv ==
    /\ WrittenProgram(program) \in Seq(Token)
    /\ pc \in {"start", "statement"} => Read(position - 1) = WrittenProgram(program)
    /\ pc = "parsed" => Read(Len(tokens) - 1) = WrittenProgram(program)
    /\ pc \in InStatement =>
         /\ Fresh(pc, statement)
         /\ Read(position - 1) = Cat(WrittenProgram(program), Partial(pc, statement))
    /\ pc = "semicolon" =>
         Cat(Read(position - 1), One(Mark("SEMICOLON"))) = WrittenProgram(program)

(* The current token is read, and is not the end marker.                   *)
LEMMA TokenRead ==
    ASSUME tokens \in TokenLists, NEW n \in DOMAIN tokens, tokens[n].type # "EOF",
           NEW w \in Seq(Token), NEW p \in Seq(Token), Read(n - 1) = Cat(w, p)
    PROVE  /\ Cat(p, One(Spelled(tokens[n]))) \in Seq(Token)
           /\ Read(Behind(n) - 1) = Cat(w, Cat(p, One(Spelled(tokens[n]))))
           /\ Behind(n) \in DOMAIN tokens
<1> DEFINE x == One(Spelled(tokens[n]))
<1>1. x \in Seq(Token) /\ Behind(n) \in DOMAIN tokens
  BY TokenFacts, SpelledType, OneType
<1>2. Read(Behind(n) - 1) = Cat(Read(n - 1), x)
  BY ReadOn DEF Cat
<1> HIDE DEF x
<1>3. Cat(p, x) \in Seq(Token) /\ Cat(Cat(w, p), x) = Cat(w, Cat(p, x))
  BY <1>1, Put, PutThree
<1> QED
  BY <1>1, <1>2, <1>3 DEF x

LEMMA SameRead ==
    ASSUME UNCHANGED tokens
    PROVE  Read(position - 1)' = Read(position' - 1) /\ Read(Len(tokens) - 1)' = Read(Len(tokens) - 1)
BY DEF Read

(* A step inside a statement that reads one token, and one that reads two. *)
LEMMA OneRead ==
    ASSUME ParserInv, SpellInv, UNCHANGED <<tokens, program>>,
           pc \in InStatement, pc' \in InStatement, CurrentType # "EOF",
           position' = Behind(position), Fresh(pc', statement'),
           Partial(pc', statement')
             = Cat(Partial(pc, statement), One(Spelled(tokens[position])))
    PROVE  SpellInv'
<1> DEFINE w == WrittenProgram(program)
           p == Partial(pc, statement)
           q == Partial(pc', statement')
<1>1. w \in Seq(Token) /\ Read(position - 1) = Cat(w, p)
  BY DEF SpellInv
<1>2. p \in Seq(Token)
  BY PartialType DEF ParserInv, DraftFits, Started
<1>3. tokens \in TokenLists /\ position \in DOMAIN tokens /\ tokens[position].type # "EOF"
  BY DEF ParserInv, CurrentType
<1> HIDE DEF w, p
<1>4. Read(Behind(position) - 1) = Cat(w, Cat(p, One(Spelled(tokens[position]))))
  BY <1>1, <1>2, <1>3, TokenRead
<1>5. Read(position' - 1) = Cat(w, q)
  BY <1>4 DEF p
<1> HIDE DEF q
<1>6. Read(position - 1)' = Cat(w, q)
  BY <1>5, SameRead
<1>7. pc' \notin {"start", "statement", "parsed", "semicolon"}
  BY DEF InStatement, InInsert, InSelect
<1>8. WrittenProgram(program)' = w
  BY DEF w
<1> QED
  BY <1>1, <1>6, <1>7, <1>8 DEF SpellInv, q

LEMMA TwoRead ==
    ASSUME ParserInv, SpellInv, UNCHANGED <<tokens, program>>,
           pc \in InStatement, pc' \in InStatement, CurrentType # "EOF",
           tokens[Behind(position)].type # "EOF",
           position' = Behind(Behind(position)), Fresh(pc', statement'),
           Partial(pc', statement')
             = Cat(Cat(Partial(pc, statement), One(Spelled(tokens[position]))),
                   One(Spelled(tokens[Behind(position)])))
    PROVE  SpellInv'
<1> DEFINE w == WrittenProgram(program)
           p == Partial(pc, statement)
           q == Partial(pc', statement')
           x == Cat(p, One(Spelled(tokens[position])))
           n == Behind(position)
<1>1. w \in Seq(Token) /\ Read(position - 1) = Cat(w, p)
  BY DEF SpellInv
<1>2. p \in Seq(Token)
  BY PartialType DEF ParserInv, DraftFits, Started
<1>3. tokens \in TokenLists /\ position \in DOMAIN tokens /\ tokens[position].type # "EOF"
  BY DEF ParserInv, CurrentType
<1> HIDE DEF w, p
<1>4. x \in Seq(Token) /\ Read(n - 1) = Cat(w, x) /\ n \in DOMAIN tokens
  BY <1>1, <1>2, <1>3, TokenRead
<1>5. tokens[n].type # "EOF" /\ position' = Behind(n) /\ q = Cat(x, One(Spelled(tokens[n])))
  BY DEF p
<1> HIDE DEF x, n, q
<1>6. Read(Behind(n) - 1) = Cat(w, Cat(x, One(Spelled(tokens[n]))))
  BY <1>1, <1>3, <1>4, <1>5, TokenRead
<1>7. Read(position - 1)' = Cat(w, q)
  BY <1>5, <1>6, SameRead
<1>8. pc' \notin {"start", "statement", "parsed", "semicolon"}
  BY DEF InStatement, InInsert, InSelect
<1>9. WrittenProgram(program)' = w
  BY DEF w
<1> QED
  BY <1>1, <1>7, <1>8, <1>9 DEF SpellInv, q

(* A step that completes a statement: all of it is read but its semicolon. *)
LEMMA StatementRead ==
    ASSUME ParserInv, SpellInv, UNCHANGED tokens,
           pc \in InStatement, pc' = "semicolon", CurrentType # "EOF",
           position' = Behind(position),
           NEW s \in Draft, s.kind \in {"INSERT", "SELECT"}, program' = Append(program, s),
           Written(s) = Cat(Cat(Partial(pc, statement), One(Spelled(tokens[position]))),
                            One(Mark("SEMICOLON")))
    PROVE  SpellInv'
<1> DEFINE w == WrittenProgram(program)
           p == Partial(pc, statement)
           x == Cat(p, One(Spelled(tokens[position])))
           end == One(Mark("SEMICOLON"))
<1>1. w \in Seq(Token) /\ Read(position - 1) = Cat(w, p)
  BY DEF SpellInv
<1>2. p \in Seq(Token)
  BY PartialType DEF ParserInv, DraftFits, Started
<1>3. tokens \in TokenLists /\ position \in DOMAIN tokens /\ tokens[position].type # "EOF"
  BY DEF ParserInv, CurrentType
<1>4. end \in Seq(Token)
  <2>1. "SEMICOLON" \in Keyword \cup Punctuation
    BY DEF Punctuation
  <2> QED
    BY <2>1, MarksAre
<1>5. WrittenProgram(program') = Cat(w, Written(s)) /\ Written(s) \in Seq(Token)
  <2>1. \A n \in DOMAIN program : program[n].kind \in {"INSERT", "SELECT"}
    BY DEF ParserInv, Whole, Started
  <2>2. program \in Seq(Draft)
    BY DEF ParserInv
  <2>3. WrittenProgram(Append(program, s)) = WrittenProgram(program) \o Written(s)
    BY <2>1, <2>2, ProgramGrows
  <2>4. Written(s) \in Seq(Token)
    BY WrittenInsert, WrittenSelect
  <2> QED
    BY <2>3, <2>4 DEF Cat
<1>6. Written(s) = Cat(x, end)
  BY DEF x, p, end
<1> HIDE DEF w, p, end
<1>7. x \in Seq(Token) /\ Read(Behind(position) - 1) = Cat(w, x)
  BY <1>1, <1>2, <1>3, TokenRead
<1> HIDE DEF x
<1>8. Cat(Cat(w, x), end) = Cat(w, Cat(x, end))
  BY <1>1, <1>4, <1>7, PutThree
<1>9. Cat(Read(position' - 1), end) = WrittenProgram(program')
  BY <1>5, <1>6, <1>7, <1>8
<1>10. WrittenProgram(program') \in Seq(Token)
  BY <1>1, <1>5, Put
<1>11. pc' \notin {"start", "statement", "parsed"} \cup InStatement
  BY DEF InStatement, InInsert, InSelect
<1>12. WrittenProgram(program)' = WrittenProgram(program')
  OBVIOUS
<1>13. Read(position - 1)' = Read(position' - 1)
  BY SameRead
<1> QED
  BY <1>9, <1>10, <1>11, <1>12, <1>13 DEF SpellInv, end

-----------------------------------------------------------------------------
(* Each step reads what it says                                            *)
-----------------------------------------------------------------------------
LEMMA Marked ==
    ASSUME NEW token, token.type \in Keyword \cup Punctuation
    PROVE  Spelled(token) = Mark(token.type) /\ token.type # "EOF"
BY DEF Spelled, Keyword, Punctuation

LEMMA GoesOnEmpty ==
    ASSUME NEW s
    PROVE  /\ s.columns = <<>> => GoesOn(NameList(s)) = <<>>
           /\ s.values = <<>> => GoesOn(ConstantList(s)) = <<>>
<1>1. s.columns = <<>> => NameList(s) = <<>>
  BY DEF NameList
<1>2. s.values = <<>> => ConstantList(s) = <<>>
  BY DEF ConstantList
<1> QED
  BY <1>1, <1>2 DEF GoesOn

LEMMA SpellInit == Init => SpellInv
<1> SUFFICES ASSUME Init PROVE SpellInv
  OBVIOUS
<1>1. pc = "start" /\ position = 1 /\ program = <<>>
  BY DEF Init
<1>2. WrittenProgram(program) = <<>>
  <2>1. [n \in DOMAIN program |-> Written(program[n])] = <<>>
    BY <1>1
  <2>2. FlattenSeq(<<>>) = <<>>
    BY DEF FlattenSeq
  <2> QED
    BY <2>1, <2>2 DEF WrittenProgram
<1>3. Read(position - 1) = <<>>
  <2>1. 1 .. 1 - 1 = {}
    OBVIOUS
  <2> QED
    BY <1>1, <2>1 DEF Read
<1>4. <<>> \in Seq(Token)
  BY EmptySeq
<1> QED
  BY <1>1, <1>2, <1>3, <1>4 DEF SpellInv, InStatement, InInsert, InSelect

LEMMA SpellFail ==
    ASSUME SpellInv, NEW message, NEW n, FailAt(message, n)
    PROVE  SpellInv'
<1>1. pc' = "refused" /\ UNCHANGED program
  BY DEF FailAt
<1>2. WrittenProgram(program)' = WrittenProgram(program)
  BY <1>1
<1> QED
  BY <1>1, <1>2 DEF SpellInv, InStatement, InInsert, InSelect

LEMMA SpellStart == ASSUME ParserInv, SpellInv, Start PROVE SpellInv'
<1>1. CASE Fail("empty")
  BY <1>1, SpellFail DEF Fail
<1>2. CASE ~Fail("empty")
  <2>1. pc = "start" /\ pc' = "statement" /\ UNCHANGED <<tokens, position, program>>
    BY <1>2 DEF Start
  <2>2. /\ WrittenProgram(program)' = WrittenProgram(program)
        /\ Read(position - 1)' = Read(position - 1)
    BY <2>1, SameRead
  <2> QED
    BY <2>1, <2>2 DEF SpellInv, InStatement, InInsert, InSelect
<1> QED
  BY <1>1, <1>2

LEMMA SpellNextStatement == ASSUME ParserInv, SpellInv, NextStatement PROVE SpellInv'
<1>0. /\ pc = "statement" /\ Read(position - 1) = WrittenProgram(program)
      /\ WrittenProgram(program) \in Seq(Token)
      /\ tokens \in TokenLists /\ position \in DOMAIN tokens
  BY DEF NextStatement, SpellInv, ParserInv
<1>1. CASE Fail("statements") \/ Fail("statement")
  BY <1>1, SpellFail DEF Fail
<1>2. CASE /\ CurrentType = "EOF"
           /\ pc' = "parsed" /\ UNCHANGED <<tokens, position, statement, program, error>>
  <2>1. position = Len(tokens)
    BY <1>0, <1>2, ParserAssumption DEF CurrentType
  <2>2. /\ WrittenProgram(program)' = WrittenProgram(program)
        /\ (Read(Len(tokens) - 1))' = Read(Len(tokens) - 1)
    BY <1>2, SameRead
  <2> QED
    BY <1>0, <1>2, <2>1, <2>2 DEF SpellInv, InStatement, InInsert, InSelect
<1>3. CASE /\ CurrentType \in {"INSERT", "SELECT"} /\ Len(program) < MaxStatements
           /\ pc' = IF CurrentType = "INSERT" THEN "into" ELSE "select list"
           /\ position' = Behind(position)
           /\ statement' = Begun(CurrentType)
           /\ UNCHANGED <<tokens, program, error>>
  <2> DEFINE w == WrittenProgram(program)
             x == One(Mark(CurrentType))
  <2>1. CurrentType \in Keyword \cup Punctuation
    BY <1>3 DEF Keyword
  <2>2. Spelled(tokens[position]) = Mark(CurrentType) /\ tokens[position].type # "EOF"
    BY <2>1, Marked DEF CurrentType
  <2>3. Read(position' - 1) = Cat(w, x)
    BY <1>0, <1>3, <2>2, ReadOn DEF Cat
  <2>4. Partial(pc', statement') = x
    BY <1>3, PartialOf
  <2>5. Fresh(pc', statement')
    BY <1>3 DEF Fresh, Begun, Zeroed
  <2>6. pc' \in {"into", "select list"}
    BY <1>3
  <2>7. WrittenProgram(program)' = w
    BY <1>3
  <2> HIDE DEF w, x
  <2>8. Read(position - 1)' = Cat(w, x)
    BY <1>3, <2>3, SameRead
  <2> QED
    BY <1>0, <2>4, <2>5, <2>6, <2>7, <2>8 DEF SpellInv, w
<1> QED
  BY <1>1, <1>2, <1>3, Zenon DEF NextStatement

LEMMA SpellConsume == ASSUME ParserInv, SpellInv, Consume PROVE SpellInv'
<1>1. CASE Fail(Needed[pc])
  BY <1>1, SpellFail DEF Fail
<1>2. CASE ~Fail(Needed[pc])
  <2>1. /\ pc \in DOMAIN Needed /\ pc' = Then[pc] /\ position' = Behind(position)
        /\ program' = IF Then[pc] = "semicolon" THEN Append(program, statement) ELSE program
        /\ UNCHANGED <<tokens, statement, error>>
        /\ CurrentType = Needed[pc]
    BY <1>2, Zenon DEF Consume
  <2>2. CurrentType \in Keyword \cup Punctuation
    BY <2>1 DEF Needed, Keyword, Punctuation
  <2>3. Spelled(tokens[position]) = Mark(CurrentType) /\ CurrentType # "EOF"
    BY <2>2, Marked DEF CurrentType
  <2> DEFINE s == statement
             x == One(Spelled(tokens[position]))
  <2>4. x \in Seq(Token) /\ s \in Draft
    BY <2>2, <2>3, MarksAre DEF ParserInv
  <2>5. CASE pc \in {"into", "values", "open", "close_columns", "from"}
    <3>1. program' = program /\ pc \in InStatement /\ pc' \in InStatement
      BY <2>1, <2>5, Calls DEF InStatement, InInsert, InSelect
    <3>2. Fresh(pc, s)
      BY <3>1 DEF SpellInv
    <3>3. Fresh(pc', s) /\ Partial(pc', s) = Cat(Partial(pc, s), x)
      <4>1. CASE pc = "into"
        <5>1. pc' = "insert table" /\ x = One(Mark("INTO"))
          BY <2>1, <2>3, <4>1, Calls DEF Needed
        <5> QED
          BY <3>2, <4>1, <5>1, PartialOf DEF Fresh, Cat
      <4>2. CASE pc = "values"
        <5>1. pc' = "open" /\ x = One(Mark("VALUES"))
          BY <2>1, <2>3, <4>2, Calls DEF Needed
        <5> QED
          BY <3>2, <4>2, <5>1, PartialOf DEF Fresh, Cat
      <4>3. CASE pc = "open"
        <5>1. pc' = "value" /\ x = One(Mark("LPAREN"))
          BY <2>1, <2>3, <4>3, Calls DEF Needed
        <5>2. s.values = <<>> /\ Fresh(pc', s)
          BY <3>2, <4>3, <5>1 DEF Fresh
        <5> DEFINE p == Cat(Partial(pc, s), x)
        <5>3. Partial(pc', s) = p \o <<>>
          BY <4>3, <5>1, <5>2, PartialOf, GoesOnEmpty DEF Cat
        <5>4. p \in Seq(Token)
          BY <2>4, <4>3, PartialType, Put DEF InStatement, InInsert
        <5> HIDE DEF p
        <5>5. Partial(pc', s) = p
          BY <5>3, <5>4, ConcatEmptySeq
        <5> QED
          BY <5>2, <5>5 DEF p
      <4>4. CASE pc = "close_columns"
        <5>1. pc' = "values" /\ x = One(Mark("RPAREN"))
          BY <2>1, <2>3, <4>4, Calls DEF Needed
        <5>2. s.has_list /\ Fresh(pc', s)
          BY <3>2, <4>4, <5>1 DEF Fresh
        <5> DEFINE a == Inserted(s)
                   o == One(Mark("LPAREN"))
                   l == CommaList(NameList(s))
        <5>3. Partial(pc', s) = a \o Parenthesized(NameList(s))
          BY <5>1, <5>2, PartialOf DEF Opening
        <5>4. /\ NameList(s) \in Seq(Token) /\ l \in Seq(Token) /\ a \in Seq(Token)
              /\ o \in Seq(Token)
          <6>1. "LPAREN" \in Keyword \cup Punctuation
            BY DEF Punctuation
          <6> QED
            BY <2>4, <6>1, ListTypes, CommaListType, PartTypes, MarksAre
        <5>5. Parenthesized(NameList(s)) = (o \o l) \o x
          BY <2>4, <5>1, <5>4, PartTypes
        <5>6. Partial(pc, s) = (a \o o) \o l
          BY <4>4, PartialOf
        <5> HIDE DEF a, o, l, x
        <5>7. Cat(a, Cat(Cat(o, l), x)) = Cat(Cat(Cat(a, o), l), x)
          BY <2>4, <5>4, PutFour
        <5>8. Partial(pc', s) = Cat(Partial(pc, s), x)
          BY <5>3, <5>5, <5>6, <5>7 DEF Cat
        <5> QED
          BY <5>2, <5>8
      <4>5. CASE pc = "from"
        <5>1. pc' = "select table" /\ x = One(Mark("FROM"))
          BY <2>1, <2>3, <4>5, Calls DEF Needed
        <5> QED
          BY <4>5, <5>1, PartialOf DEF Fresh, Cat
      <4> QED
        BY <2>5, <4>1, <4>2, <4>3, <4>4, <4>5
    <3> QED
      BY <2>1, <2>3, <3>1, <3>3, OneRead
  <2>6. CASE pc = "close_values"
    <3>1. /\ pc \in InStatement /\ pc' = "semicolon" /\ program' = Append(program, s)
          /\ s.kind = "INSERT" /\ x = One(Mark("RPAREN"))
      BY <2>1, <2>3, <2>6, Calls DEF InStatement, InInsert, ParserInv, DraftFits, Needed
    <3>2. Written(s) = Cat(Cat(Partial(pc, s), x), One(Mark("SEMICOLON")))
      BY <2>4, <2>6, <3>1, WrittenInsert DEF Cat
    <3> QED
      BY <2>1, <2>3, <2>4, <3>1, <3>2, StatementRead
  <2>7. CASE pc = "semicolon"
    <3>1. pc' = "statement" /\ program' = program /\ x = One(Mark("SEMICOLON"))
      BY <2>1, <2>3, <2>7, Calls DEF Needed
    <3>2. Read(position' - 1) = Cat(Read(position - 1), x)
      BY <2>1, <2>3, ReadOn DEF Cat, ParserInv, CurrentType
    <3>3. Read(position' - 1) = WrittenProgram(program)
      BY <2>7, <3>1, <3>2 DEF SpellInv
    <3>4. /\ WrittenProgram(program)' = WrittenProgram(program)
          /\ Read(position - 1)' = Read(position' - 1)
      BY <2>1, <3>1, SameRead
    <3> QED
      BY <3>1, <3>3, <3>4 DEF SpellInv, InStatement, InInsert, InSelect
  <2>8. pc \in {"into", "values", "open", "close_columns", "from", "close_values", "semicolon"}
    BY <2>1, Calls
  <2> QED
    BY <2>5, <2>6, <2>7, <2>8
<1> QED
  BY <1>1, <1>2

LEMMA NameSpelled ==
    ASSUME ParserInv, NameFault = "none"
    PROVE  /\ CurrentType # "EOF" /\ Spelled(tokens[position]) = Name(CurrentText)
           /\ Name(CurrentText) \in Token
<1>1. tokens[position] = Name(CurrentText) /\ CurrentText \in Text
  BY IdentifierTaken
<1>2. tokens[position].type = "IDENTIFIER"
  BY <1>1 DEF Name
<1> QED
  BY <1>1, <1>2, NameType DEF Spelled, CurrentType

LEMMA SpellInsertTable == ASSUME ParserInv, SpellInv, InsertTable PROVE SpellInv'
<1>1. CASE NameFault # "none"
  BY <1>1, SpellFail DEF InsertTable, Fail
<1>2. CASE NameFault = "none"
  <2> DEFINE next == Behind(position)
             list == tokens[next].type = "LPAREN"
             s == statement
             t == statement'
             a == One(Mark("INSERT"))
             b == One(Mark("INTO"))
             c == One(Name(CurrentText))
             o == One(Mark("LPAREN"))
  <2>1. /\ pc = "insert table" /\ pc' = (IF list THEN "column" ELSE "values")
        /\ position' = (IF list THEN Behind(next) ELSE next)
        /\ statement' = TableRead(list)
        /\ UNCHANGED <<tokens, program, error>>
    BY <1>2 DEF InsertTable
  <2>2. /\ pc \in InStatement /\ pc' \in InStatement /\ s \in Draft /\ s.kind = "INSERT"
        /\ Fresh(pc, s)
    BY <2>1 DEF ParserInv, DraftFits, SpellInv, InStatement, InInsert
  <2>3. /\ t.kind = "INSERT" /\ t.table = CurrentText /\ t.has_list = list
        /\ t.columns = <<>> /\ t.values = <<>> /\ t.all = s.all
    BY <2>1, <2>2 DEF TableRead, Draft, Fresh
  <2>4. CurrentType # "EOF" /\ Spelled(tokens[position]) = Name(CurrentText)
    BY <1>2, NameSpelled
  <2>5. a \in Seq(Token) /\ b \in Seq(Token) /\ c \in Seq(Token) /\ o \in Seq(Token)
    <3>1. {"INSERT", "INTO", "LPAREN"} \subseteq Keyword \cup Punctuation
      BY DEF Keyword, Punctuation
    <3> QED
      BY <1>2, <3>1, MarksAre, NameSpelled, OneType
  <2>6. Inserted(t) = (a \o b) \o c
    <3> DEFINE x == Mark("INSERT")
               y == Mark("INTO")
               z == Name(CurrentText)
               all == Inserted(t)
    <3>1. x \in Token /\ y \in Token /\ z \in Token /\ all = <<x, y, z>>
      <4>1. {"INSERT", "INTO"} \subseteq Keyword \cup Punctuation
        BY DEF Keyword
      <4> QED
        BY <1>2, <2>3, <4>1, MarksAre, NameSpelled DEF Inserted
    <3> HIDE DEF x, y, z, all
    <3>2. all \in Seq(Token) /\ Len(all) = 3 /\ all[1] = x /\ all[2] = y /\ all[3] = z
      BY <3>1
    <3>3. all = (One(x) \o One(y)) \o One(z)
      BY <3>2, Tuples
    <3> QED
      BY <3>3 DEF x, y, z, all
  <2>7. Partial(pc, s) = a \o b
    BY <2>1, PartialOf
  <2>8. Inserted(t) = Cat(Partial(pc, s), One(Spelled(tokens[position])))
    BY <2>4, <2>6, <2>7 DEF Cat
  <2>9. Inserted(t) \in Seq(Token)
    BY <2>5, <2>6, Put
  <2>10. CASE list
    <3>1. pc' = "column" /\ position' = Behind(next)
      BY <2>1, <2>10
    <3>2. tokens[next].type # "EOF" /\ Spelled(tokens[next]) = Mark("LPAREN")
      <4>1. tokens[next].type = "LPAREN" /\ "LPAREN" \in Keyword \cup Punctuation
        BY <2>10 DEF Punctuation
      <4> QED
        BY <4>1, Marked
    <3>3. Partial(pc', t) = (Inserted(t) \o o) \o <<>>
      BY <2>3, <3>1, PartialOf, GoesOnEmpty
    <3>4. Inserted(t) \o o \in Seq(Token)
      BY <2>5, <2>9, Put
    <3>5. Partial(pc', t) = Inserted(t) \o o
      BY <3>3, <3>4, ConcatEmptySeq
    <3>6. Partial(pc', t)
            = Cat(Cat(Partial(pc, s), One(Spelled(tokens[position]))), One(Spelled(tokens[next])))
      BY <2>8, <3>2, <3>5 DEF Cat
    <3>7. Fresh(pc', t)
      BY <2>3, <2>10, <3>1 DEF Fresh
    <3> QED
      BY <2>1, <2>2, <2>4, <3>1, <3>2, <3>6, <3>7, TwoRead
  <2>11. CASE ~list
    <3>1. pc' = "values" /\ position' = next
      BY <2>1, <2>11
    <3>2. Partial(pc', t) = Inserted(t) \o <<>>
      BY <2>3, <2>11, <3>1, PartialOf DEF Opening
    <3>3. Partial(pc', t) = Inserted(t)
      BY <2>9, <3>2, ConcatEmptySeq
    <3>4. Fresh(pc', t)
      BY <2>3, <3>1 DEF Fresh
    <3> QED
      BY <2>1, <2>2, <2>4, <2>8, <3>1, <3>3, <3>4, OneRead
  <2> QED
    BY <2>10, <2>11
<1> QED
  BY <1>1, <1>2

LEMMA SpellSelectTable == ASSUME ParserInv, SpellInv, SelectTable PROVE SpellInv'
<1>1. CASE NameFault # "none"
  BY <1>1, SpellFail DEF SelectTable, Fail
<1>2. CASE NameFault = "none"
  <2> DEFINE t == [statement EXCEPT !.table = CurrentText]
             s == statement
  <2>1. /\ pc = "select table" /\ pc' = "semicolon" /\ position' = Behind(position)
        /\ program' = Append(program, t) /\ UNCHANGED tokens
    BY <1>2 DEF SelectTable
  <2>2. pc \in InStatement /\ s.kind = "SELECT" /\ s \in Draft
    BY <2>1 DEF ParserInv, DraftFits, InStatement, InSelect
  <2>3. /\ t \in Draft /\ t.kind = "SELECT" /\ t.table = CurrentText /\ t.all = s.all
        /\ t.columns = s.columns
    BY <1>2, <2>2, IdentifierTaken DEF Draft
  <2>4. CurrentType # "EOF" /\ Spelled(tokens[position]) = Name(CurrentText)
    BY <1>2, NameSpelled
  <2> HIDE DEF t
  <2>5. Partial("select table", t) = Partial(pc, s)
    <3>1. Choice(t) = Choice(s)
      BY <2>3 DEF Choice, NameList
    <3> QED
      BY <2>1, <3>1, PartialOf
  <2>6. Written(t) = Cat(Cat(Partial(pc, s), One(Spelled(tokens[position]))),
                         One(Mark("SEMICOLON")))
    BY <2>3, <2>4, <2>5, WrittenSelect DEF Cat
  <2> QED
    BY <2>1, <2>2, <2>3, <2>4, <2>6, StatementRead
<1> QED
  BY <1>1, <1>2

LEMMA SpellSelectList == ASSUME ParserInv, SpellInv, SelectList PROVE SpellInv'
<1>1. /\ pc = "select list" /\ UNCHANGED <<tokens, program, error>>
      /\ statement.kind = "SELECT" /\ statement \in Draft /\ pc \in InStatement
      /\ Fresh(pc, statement)
  BY DEF SelectList, ParserInv, DraftFits, SpellInv, InStatement, InSelect
<1>2. Partial(pc, statement) = One(Mark("SELECT"))
  BY <1>1, PartialOf
<1>3. CASE CurrentType = "STAR"
  <2>1. /\ pc' = "from" /\ position' = Behind(position)
        /\ statement' = [statement EXCEPT !.all = TRUE]
    BY <1>3 DEF SelectList
  <2>2. statement'.all /\ statement'.values = <<>>
    BY <1>1, <2>1 DEF Draft, Fresh
  <2>3. Spelled(tokens[position]) = Mark("STAR") /\ CurrentType # "EOF"
    <3>1. tokens[position].type = "STAR" /\ "STAR" \in Keyword \cup Punctuation
      BY <1>3 DEF CurrentType, Punctuation
    <3> QED
      BY <1>3, <3>1, Marked
  <2>4. Partial(pc', statement')
          = Cat(Partial(pc, statement), One(Spelled(tokens[position])))
    <3>1. Partial(pc', statement') = Choice(statement')
      BY <2>1, PartialOf
    <3>2. Choice(statement') = One(Mark("SELECT")) \o One(Mark("STAR"))
      BY <2>2 DEF Choice, One
    <3> QED
      BY <1>2, <2>3, <3>1, <3>2 DEF Cat
  <2>5. Fresh(pc', statement') /\ pc' \in InStatement
    BY <2>1, <2>2 DEF Fresh, InStatement, InSelect
  <2> QED
    BY <1>1, <2>1, <2>3, <2>4, <2>5, OneRead
<1>4. CASE CurrentType # "STAR"
  <2>1. pc' = "column" /\ UNCHANGED <<position, statement>>
    BY <1>4 DEF SelectList
  <2>2. Fresh(pc', statement)
    BY <1>1, <2>1 DEF Fresh
  <2>3. Partial(pc', statement) = Partial(pc, statement)
    <3>1. Partial(pc', statement) = One(Mark("SELECT")) \o <<>>
      BY <1>1, <2>1, PartialOf, GoesOnEmpty DEF Fresh
    <3>2. One(Mark("SELECT")) \in Seq(Token)
      BY MarksAre DEF Keyword
    <3> QED
      BY <1>2, <3>1, <3>2, ConcatEmptySeq
  <2>4. /\ WrittenProgram(program)' = WrittenProgram(program)
        /\ Read(position - 1)' = Read(position - 1)
    BY <1>1, <2>1, SameRead
  <2>5. Read(position - 1) = Cat(WrittenProgram(program), Partial(pc, statement))
    BY <1>1 DEF SpellInv
  <2>6. Partial(pc, statement)' = Partial(pc', statement)
    BY <2>1
  <2> QED
    BY <2>1, <2>2, <2>3, <2>4, <2>5, <2>6 DEF SpellInv, InStatement, InInsert, InSelect
<1> QED
  BY <1>3, <1>4

(* The element of a list that is read, and the comma if one is behind it.  *)
LEMMA ElementRead ==
    ASSUME NEW base \in Seq(Token), NEW old \in Seq(Token), NEW new \in Seq(Token),
           new # <<>>, NEW x \in Token, CommaList(new) = Cat(GoesOn(old), One(x))
    PROVE  /\ Cat(base, CommaList(new)) = Cat(Cat(base, GoesOn(old)), One(x))
           /\ Cat(base, GoesOn(new))
                = Cat(Cat(Cat(base, GoesOn(old)), One(x)), One(Mark("COMMA")))
<1> DEFINE o == GoesOn(old)
           e == One(x)
           c == One(Mark("COMMA"))
<1>1. o \in Seq(Token) /\ e \in Seq(Token) /\ c \in Seq(Token)
  <2>1. "COMMA" \in Keyword \cup Punctuation
    BY DEF Punctuation
  <2> QED
    BY <2>1, CommaListType, OneType, MarksAre
<1>2. CommaList(new) = Cat(o, e) /\ GoesOn(new) = Cat(Cat(o, e), c)
  BY DEF GoesOn, Cat
<1> HIDE DEF o, e, c
<1>3. Cat(base, Cat(o, e)) = Cat(Cat(base, o), e)
  BY <1>1, PutThree
<1>4. Cat(base, Cat(Cat(o, e), c)) = Cat(Cat(Cat(base, o), e), c)
  BY <1>1, PutFour
<1> QED
  BY <1>2, <1>3, <1>4 DEF o, e, c

LEMMA SpellColumnName == ASSUME ParserInv, SpellInv, ColumnName PROVE SpellInv'
<1> DEFINE next == Behind(position)
           t == [statement EXCEPT !.columns = Append(@, CurrentText),
                                  !.where.columns = Append(@, position)]
<1>1. CASE Fail("columns") \/ Fail(NameFault)
  BY <1>1, SpellFail DEF Fail
<1>2. CASE /\ pc = "column" /\ ~(Len(statement.columns) >= MaxColumns)
           /\ ~(Len(statement.columns) < MaxColumns /\ NameFault # "none")
           /\ pc' = CASE CommaAt(next) -> "column"
                       [] ~CommaAt(next) /\ statement.kind = "INSERT" -> "close_columns"
                       [] ~CommaAt(next) /\ statement.kind = "SELECT" -> "from"
           /\ position' = IF CommaAt(next) THEN Behind(next) ELSE next
           /\ statement' = t
           /\ UNCHANGED <<tokens, program, error>>
  <2> DEFINE s == statement
             x == Name(CurrentText)
             base == IF s.kind = "INSERT" THEN Inserted(s) \o One(Mark("LPAREN"))
                     ELSE One(Mark("SELECT"))
  <2>1. /\ s \in Draft /\ Fresh(pc, s) /\ pc \in InStatement /\ s.kind \in {"INSERT", "SELECT"}
    BY <1>2 DEF ParserInv, DraftFits, Started, SpellInv, InStatement
  <2>2. NameFault = "none"
    <3>1. s.columns \in Seq(Text)
      BY <2>1 DEF Draft
    <3>2. Len(s.columns) \in Nat
      BY <3>1, LenProperties
    <3> QED
      BY <1>2, <3>2, MaxColumnsAssumption
  <2>3. /\ CurrentType # "EOF" /\ Spelled(tokens[position]) = x /\ x \in Token
        /\ CurrentText \in Text
    BY <2>2, NameSpelled, IdentifierTaken
  <2>4. /\ t.columns = Append(s.columns, CurrentText) /\ t.kind = s.kind /\ t.table = s.table
        /\ t.values = <<>> /\ t.has_list = s.has_list /\ t.all = s.all
    BY <1>2, <2>1 DEF Draft, Fresh
  <2> HIDE DEF t, next
  <2>5. /\ CommaList(NameList(t)) = GoesOn(NameList(s)) \o One(x)
        /\ NameList(t) # <<>> /\ NameList(t) \in Seq(Token) /\ NameList(s) \in Seq(Token)
    BY <2>1, <2>3, <2>4, NameListGrows, ListTypes
  <2>6. base \in Seq(Token)
    <3>1. "LPAREN" \in Keyword \cup Punctuation /\ "SELECT" \in Keyword \cup Punctuation
      BY DEF Keyword, Punctuation
    <3>2. One(Mark("LPAREN")) \in Seq(Token) /\ One(Mark("SELECT")) \in Seq(Token)
      BY <3>1, MarksAre
    <3>3. Inserted(s) \in Seq(Token)
      BY <2>1, PartTypes
    <3> QED
      BY <3>2, <3>3, Put
  <2>7. Partial(pc, s) = base \o GoesOn(NameList(s))
    BY <1>2, <2>1, PartialOf
  <2>8. Inserted(t) = Inserted(s)
    BY <2>4 DEF Inserted
  <2>9. /\ t.kind = "INSERT" => base = Inserted(t) \o One(Mark("LPAREN"))
        /\ t.kind = "SELECT" => base = One(Mark("SELECT"))
    BY <2>4, <2>8
  <2> HIDE DEF x, base
  <2>10. /\ base \o CommaList(NameList(t)) = Cat(Partial(pc, s), One(x))
         /\ base \o GoesOn(NameList(t)) = Cat(Cat(Partial(pc, s), One(x)), One(Mark("COMMA")))
    <3> DEFINE old == NameList(s)
               new == NameList(t)
    <3>1. /\ CommaList(new) = Cat(GoesOn(old), One(x)) /\ new # <<>>
          /\ new \in Seq(Token) /\ old \in Seq(Token) /\ x \in Token
      BY <2>3, <2>5 DEF Cat
    <3> HIDE DEF old, new
    <3>2. /\ Cat(base, CommaList(new)) = Cat(Cat(base, GoesOn(old)), One(x))
          /\ Cat(base, GoesOn(new))
               = Cat(Cat(Cat(base, GoesOn(old)), One(x)), One(Mark("COMMA")))
      BY <2>6, <3>1, ElementRead
    <3> QED
      BY <2>7, <3>2 DEF old, new, Cat
  <2>11. CASE CommaAt(next)
    <3>1. pc' = "column" /\ position' = Behind(next) /\ statement' = t
      BY <1>2, <2>11
    <3>2. tokens[next].type # "EOF" /\ Spelled(tokens[next]) = Mark("COMMA")
      <4>1. tokens[next].type = "COMMA" /\ "COMMA" \in Keyword \cup Punctuation
        BY <2>11 DEF CommaAt, Punctuation
      <4> QED
        BY <4>1, Marked
    <3>3. Partial(pc', t) = base \o GoesOn(NameList(t))
      BY <2>1, <2>4, <2>9, <3>1, PartialOf
    <3>4. Fresh(pc', t)
      BY <1>2, <2>1, <2>4, <3>1 DEF Fresh
    <3>5. pc' \in InStatement
      BY <3>1 DEF InStatement
    <3>6. Partial(pc', statement')
            = Cat(Cat(Partial(pc, s), One(Spelled(tokens[position]))), One(Spelled(tokens[next])))
      BY <2>3, <2>10, <3>1, <3>2, <3>3
    <3>7. Fresh(pc', statement')
      BY <3>1, <3>4
    <3> QED
      BY <1>2, <2>1, <2>3, <3>1, <3>2, <3>5, <3>6, <3>7, TwoRead DEF next
  <2>12. CASE ~CommaAt(next)
    <3>1. /\ position' = next /\ statement' = t
          /\ \/ pc' = "close_columns" /\ t.kind = "INSERT"
             \/ pc' = "from" /\ t.kind = "SELECT"
      BY <1>2, <2>1, <2>4, <2>12
    <3>2. Partial(pc', t) = base \o CommaList(NameList(t))
      <4>1. CASE pc' = "close_columns" /\ t.kind = "INSERT"
        BY <2>9, <4>1, PartialOf
      <4>2. CASE pc' = "from" /\ t.kind = "SELECT"
        <5>1. ~t.all
          BY <1>2, <2>1, <2>4, <4>2 DEF Fresh
        <5> QED
          BY <2>9, <4>2, <5>1, PartialOf DEF Choice, One
      <4> QED
        BY <3>1, <4>1, <4>2
    <3>3. Fresh(pc', t)
      <4>1. t.columns # <<>>
        BY <2>5 DEF NameList
      <4> QED
        BY <1>2, <2>1, <2>4, <3>1, <4>1 DEF Fresh
    <3>4. pc' \in InStatement
      BY <3>1 DEF InStatement, InInsert, InSelect
    <3>5. Partial(pc', statement') = Cat(Partial(pc, s), One(Spelled(tokens[position])))
      BY <2>3, <2>10, <3>1, <3>2
    <3>6. Fresh(pc', statement')
      BY <3>1, <3>3
    <3> QED
      BY <1>2, <2>1, <2>3, <3>1, <3>4, <3>5, <3>6, OneRead DEF next
  <2> QED
    BY <2>11, <2>12
<1> HIDE DEF t
<1> QED
  BY <1>1, <1>2, Zenon DEF ColumnName, t

LEMMA SpellValue == ASSUME ParserInv, SpellInv, Value PROVE SpellInv'
<1> DEFINE count == Len(statement.values)
           next == Behind(position)
           value == [text |-> CurrentText, type |-> LiteralType[CurrentType]]
           t == [statement EXCEPT !.values = Append(@, value),
                                  !.where.values = Append(@, position)]
<1>1. CASE \/ Fail("values") \/ Fail("more values") \/ Fail("literal")
           \/ FailAt("mismatch", next - 1)
  BY <1>1, SpellFail DEF Fail
<1>2. CASE /\ ~(count >= MaxColumns) /\ ~(count < MaxColumns /\ Enough(count))
           /\ ~(count < MaxColumns /\ ~Enough(count) /\ CurrentType \notin DOMAIN LiteralType)
           /\ ~(/\ count < MaxColumns /\ ~Enough(count) /\ CurrentType \in DOMAIN LiteralType
                /\ ~CommaAt(next) /\ TooFew(count + 1))
           /\ pc' = (IF CommaAt(next) THEN "value" ELSE "close_values")
           /\ position' = (IF CommaAt(next) THEN Behind(next) ELSE next)
           /\ statement' = t
           /\ UNCHANGED <<tokens, program, error>>
  <2> DEFINE s == statement
             x == Constant(value)
             base == (Opening(s) \o One(Mark("VALUES"))) \o One(Mark("LPAREN"))
  <2>1. /\ pc = "value" /\ pc \in InStatement /\ s \in Draft
        /\ tokens[position] \in Token
    BY TokenFacts DEF Value, ParserInv, InStatement, InInsert
  <2>2. CurrentType \in {"NUMBER", "STRING"}
    <3>1. s.values \in Seq(Literal)
      BY <2>1 DEF Draft
    <3>2. count \in Nat
      BY <3>1, LenProperties
    <3>3. count < MaxColumns
      BY <1>2, <3>2, MaxColumnsAssumption
    <3>4. CurrentType \in DOMAIN LiteralType
      BY <1>2, <3>3, Zenon
    <3> QED
      BY <3>4 DEF LiteralType
  <2>3. /\ value \in Literal /\ CurrentType # "EOF" /\ Spelled(tokens[position]) = x
        /\ x \in Token
    <3>1. CurrentText \in Text
      BY <2>1 DEF CurrentText, Token
    <3>2. LiteralType[CurrentType] = IF CurrentType = "NUMBER" THEN "INT" ELSE "STRING"
      BY <2>2 DEF LiteralType
    <3>3. value \in Literal
      BY <2>2, <3>1, <3>2 DEF Literal, DataType
    <3>4. x = [type |-> CurrentType, text |-> CurrentText]
      BY <2>2, <3>2 DEF Constant
    <3>5. tokens[position] = x
      BY <2>1, <3>4 DEF CurrentType, CurrentText, Token
    <3>6. Spelled(tokens[position]) = tokens[position]
      BY <2>2 DEF Spelled, CurrentType
    <3> QED
      BY <2>2, <3>3, <3>5, <3>6, ConstantType
  <2> HIDE DEF value
  <2>4. /\ t.values = Append(s.values, value) /\ t.table = s.table
        /\ t.columns = s.columns /\ t.has_list = s.has_list
    BY <2>1 DEF Draft
  <2> HIDE DEF t, next
  <2> DEFINE old == ConstantList(s)
             new == ConstantList(t)
  <2>5. /\ CommaList(new) = Cat(GoesOn(old), One(x)) /\ new # <<>>
        /\ new \in Seq(Token) /\ old \in Seq(Token)
    BY <2>1, <2>3, <2>4, ConstantListGrows, ListTypes DEF Cat
  <2>6. base \in Seq(Token)
    <3>1. "LPAREN" \in Keyword \cup Punctuation /\ "VALUES" \in Keyword \cup Punctuation
      BY DEF Keyword, Punctuation
    <3>2. One(Mark("LPAREN")) \in Seq(Token) /\ One(Mark("VALUES")) \in Seq(Token)
      BY <3>1, MarksAre
    <3>3. Opening(s) \in Seq(Token)
      BY <2>1, PartTypes
    <3> QED
      BY <3>2, <3>3, Put
  <2>7. /\ Partial("value", s) = base \o GoesOn(old)
        /\ Partial("value", t) = base \o GoesOn(new)
        /\ Partial("close_values", t) = base \o CommaList(new)
    <3>1. Opening(t) = Opening(s)
      BY <2>4 DEF Opening, Inserted, NameList
    <3> QED
      BY <3>1, PartialOf
  <2> HIDE DEF x, base, old, new
  <2>8. /\ Partial("close_values", t) = Cat(Partial("value", s), One(x))
        /\ Partial("value", t) = Cat(Cat(Partial("value", s), One(x)), One(Mark("COMMA")))
    <3>1. /\ Cat(base, CommaList(new)) = Cat(Cat(base, GoesOn(old)), One(x))
          /\ Cat(base, GoesOn(new))
               = Cat(Cat(Cat(base, GoesOn(old)), One(x)), One(Mark("COMMA")))
      BY <2>3, <2>5, <2>6, ElementRead
    <3> QED
      BY <2>7, <3>1 DEF Cat
  <2>9. CASE CommaAt(next)
    <3>1. pc' = "value" /\ position' = Behind(next) /\ statement' = t
      BY <1>2, <2>9
    <3>2. tokens[next].type # "EOF" /\ Spelled(tokens[next]) = Mark("COMMA")
      <4>1. tokens[next].type = "COMMA" /\ "COMMA" \in Keyword \cup Punctuation
        BY <2>9 DEF CommaAt, Punctuation
      <4> QED
        BY <4>1, Marked
    <3>3. Fresh(pc', statement') /\ pc' \in InStatement
      BY <3>1 DEF Fresh, InStatement, InInsert
    <3>4. Partial(pc', statement')
            = Cat(Cat(Partial(pc, s), One(Spelled(tokens[position]))), One(Spelled(tokens[next])))
      BY <2>1, <2>3, <2>8, <3>1, <3>2
    <3> QED
      BY <1>2, <2>1, <2>3, <3>1, <3>2, <3>3, <3>4, TwoRead DEF next
  <2>10. CASE ~CommaAt(next)
    <3>1. pc' = "close_values" /\ position' = next /\ statement' = t
      BY <1>2, <2>10
    <3>2. Fresh(pc', statement') /\ pc' \in InStatement
      BY <3>1 DEF Fresh, InStatement, InInsert
    <3>3. Partial(pc', statement') = Cat(Partial(pc, s), One(Spelled(tokens[position])))
      BY <2>1, <2>3, <2>8, <3>1
    <3> QED
      BY <1>2, <2>1, <2>3, <3>1, <3>2, <3>3, OneRead DEF next
  <2> QED
    BY <2>9, <2>10
<1> HIDE DEF t, value
<1> QED
  BY <1>1, <1>2, Zenon DEF Value, t, value

LEMMA SpellStutter == ASSUME SpellInv, UNCHANGED vars PROVE SpellInv'
<1>1. UNCHANGED <<tokens, pc, position, statement, program>>
  BY DEF vars
<1>2. /\ Read(position - 1)' = Read(position - 1)
      /\ (Read(Len(tokens) - 1))' = Read(Len(tokens) - 1)
  BY <1>1, SameRead
<1> QED
  BY <1>1, <1>2 DEF SpellInv

LEMMA SpellNext == ParserInv /\ SpellInv /\ [Next]_vars => SpellInv'
BY SpellStart, SpellNextStatement, SpellConsume, SpellInsertTable, SpellSelectTable,
   SpellSelectList, SpellColumnName, SpellValue, SpellStutter, Zenon DEF Next

(* Whenever a statement is complete, the program written out is the tokens *)
(* that were read, and at the end all of them: however long the list and   *)
(* the program are, no token is skipped, invented, swapped or carried over *)
(* from an earlier statement.                                              *)
THEOREM SpellingCorrect == Spec => []ProgramSpellsTokens
<1>1. ParserInv /\ SpellInv => ProgramSpellsTokens
  <2> SUFFICES ASSUME SpellInv, pc \in {"statement", "parsed"}
               PROVE  WrittenProgram(program)
                        = Read(IF pc = "parsed" THEN Len(tokens) - 1 ELSE position - 1)
    BY DEF ProgramSpellsTokens, Read
  <2> QED
    BY DEF SpellInv
<1>2. Spec => []SpellInv
  BY SpellInit, SpellNext, Invariant, PTL DEF Spec
<1> QED
  BY <1>1, <1>2, Invariant, PTL

-----------------------------------------------------------------------------
(* The grammar                                                             *)
-----------------------------------------------------------------------------
(* A token stands at its place in a legal program when some shape of a     *)
(* statement allows it there.  Shapes are the legal statements with, at    *)
(* each place, the set of types a token may have.                          *)
LEMMA LenOfFunction ==
    ASSUME NEW n \in Nat, NEW f, f = [i \in 1 .. n |-> f[i]]
    PROVE  Len(f) = n /\ DOMAIN f = 1 .. n
<1> DEFINE S == {f[i] : i \in 1 .. n}
<1>1. f \in [1 .. n -> S]
  OBVIOUS
<1> QED
  BY <1>1, FunctionIsSeq

(* The type of the n-th token, and a list of the form x , x , x ...        *)
Kind(n) == TypeOf(tokens[n])
Alternate(i, S) == IF i % 2 = 1 THEN S ELSE {"COMMA"}
Alternating(o, n, S) == \A i \in 1 .. n : Kind(o + i) \in Alternate(i, S)

(* A statement of the grammar, semicolon included: which types its k-th    *)
(* token may have.                                                         *)
PlainShape(n) == [i \in 1 .. 2 * n + 6 |->
    IF i <= 5 THEN {<<"INSERT", "INTO", "IDENTIFIER", "VALUES", "LPAREN">>[i]}
    ELSE IF i <= 2 * n + 4 THEN Alternate(i - 5, {"NUMBER", "STRING"})
    ELSE {<<"RPAREN", "SEMICOLON">>[i - 2 * n - 4]}]
ListedShape(n) == [i \in 1 .. 4 * n + 7 |->
    IF i <= 4 THEN {<<"INSERT", "INTO", "IDENTIFIER", "LPAREN">>[i]}
    ELSE IF i <= 2 * n + 3 THEN Alternate(i - 4, {"IDENTIFIER"})
    ELSE IF i <= 2 * n + 6 THEN {<<"RPAREN", "VALUES", "LPAREN">>[i - 2 * n - 3]}
    ELSE IF i <= 4 * n + 5 THEN Alternate(i - 2 * n - 6, {"NUMBER", "STRING"})
    ELSE {<<"RPAREN", "SEMICOLON">>[i - 4 * n - 5]}]
StarShape == [i \in 1 .. 5 |-> {<<"SELECT", "STAR", "FROM", "IDENTIFIER", "SEMICOLON">>[i]}]
SelectShape(n) == [i \in 1 .. 2 * n + 3 |->
    IF i = 1 THEN {"SELECT"}
    ELSE IF i <= 2 * n THEN Alternate(i - 1, {"IDENTIFIER"})
    ELSE {<<"FROM", "IDENTIFIER", "SEMICOLON">>[i - 2 * n]}]
Shapes == {StarShape} \cup UNION {{PlainShape(n), ListedShape(n), SelectShape(n)} :
                                    n \in 1 .. MaxColumns}
Fits(u, shape) == /\ u \in Seq(TokenType) /\ Len(u) = Len(shape)
                  /\ \A i \in 1 .. Len(shape) : u[i] \in shape[i]

(* What a shape says of each place.                                        *)
PlainAt(n, f) ==
    /\ Len(f) = 2 * n + 6 /\ f[1] = {"INSERT"} /\ f[2] = {"INTO"} /\ f[3] = {"IDENTIFIER"}
    /\ f[4] = {"VALUES"} /\ f[5] = {"LPAREN"}
    /\ \A k \in 1 .. 2 * n - 1 : f[5 + k] = Alternate(k, {"NUMBER", "STRING"})
    /\ f[2 * n + 5] = {"RPAREN"} /\ f[2 * n + 6] = {"SEMICOLON"}
    /\ \A i \in 1 .. Len(f) : \/ i \in 1 .. 5 \/ i \in {2 * n + 5, 2 * n + 6}
                              \/ \E k \in 1 .. 2 * n - 1 : i = 5 + k

LEMMA PlainPlaces ==
    ASSUME NEW n \in Nat \ {0}, NEW f, f = PlainShape(n)
    PROVE  PlainAt(n, f)
<1> DEFINE S == {"NUMBER", "STRING"}
<1>1. DOMAIN f = 1 .. 2 * n + 6 /\ \A i \in 1 .. 2 * n + 6 : f[i] =
        IF i <= 5 THEN {<<"INSERT", "INTO", "IDENTIFIER", "VALUES", "LPAREN">>[i]}
        ELSE IF i <= 2 * n + 4 THEN Alternate(i - 5, S)
        ELSE {<<"RPAREN", "SEMICOLON">>[i - 2 * n - 4]}
  BY DEF PlainShape
<1> HIDE DEF S
<1>2. /\ \A i \in 1 .. 5 : i \in 1 .. 2 * n + 6
      /\ \A k \in 1 .. 2 * n - 1 : /\ 5 + k \in 1 .. 2 * n + 6 /\ ~(5 + k <= 5)
                                   /\ 5 + k <= 2 * n + 4 /\ 5 + k - 5 = k
  OBVIOUS
<1>3. /\ f[1] = {"INSERT"} /\ f[2] = {"INTO"} /\ f[3] = {"IDENTIFIER"} /\ f[4] = {"VALUES"}
      /\ f[5] = {"LPAREN"}
  BY <1>1, <1>2
<1>4. \A k \in 1 .. 2 * n - 1 : f[5 + k] = Alternate(k, S)
  BY <1>1, <1>2
<1>5. f[2 * n + 5] = {"RPAREN"} /\ f[2 * n + 6] = {"SEMICOLON"}
  <2>1. /\ 2 * n + 5 \in 1 .. 2 * n + 6 /\ ~(2 * n + 5 <= 5) /\ ~(2 * n + 5 <= 2 * n + 4)
        /\ 2 * n + 5 - 2 * n - 4 = 1
        /\ 2 * n + 6 \in 1 .. 2 * n + 6 /\ ~(2 * n + 6 <= 5) /\ ~(2 * n + 6 <= 2 * n + 4)
        /\ 2 * n + 6 - 2 * n - 4 = 2
    OBVIOUS
  <2> QED
    BY <1>1, <2>1
<1>6. f = [i \in 1 .. 2 * n + 6 |-> f[i]] /\ 2 * n + 6 \in Nat
  BY DEF PlainShape
<1>7. Len(f) = 2 * n + 6
  BY <1>6, LenOfFunction
<1>8. ASSUME NEW i \in 1 .. 2 * n + 6
      PROVE  \/ i \in 1 .. 5 \/ i \in {2 * n + 5, 2 * n + 6}
             \/ \E k \in 1 .. 2 * n - 1 : i = 5 + k
  <2>1. CASE i > 5 /\ i < 2 * n + 5
    <3>1. i - 5 \in 1 .. 2 * n - 1 /\ i = 5 + (i - 5)
      BY <2>1
    <3> QED
      BY <3>1
  <2> QED
    BY <2>1
<1> QED
  BY <1>3, <1>4, <1>5, <1>7, <1>8 DEF S, PlainAt

ListedAt(n, f) ==
    /\ Len(f) = 4 * n + 7 /\ f[1] = {"INSERT"} /\ f[2] = {"INTO"} /\ f[3] = {"IDENTIFIER"}
    /\ f[4] = {"LPAREN"}
    /\ \A k \in 1 .. 2 * n - 1 : f[4 + k] = Alternate(k, {"IDENTIFIER"})
    /\ f[2 * n + 4] = {"RPAREN"} /\ f[2 * n + 5] = {"VALUES"} /\ f[2 * n + 6] = {"LPAREN"}
    /\ \A k \in 1 .. 2 * n - 1 : f[2 * n + 6 + k] = Alternate(k, {"NUMBER", "STRING"})
    /\ f[4 * n + 6] = {"RPAREN"} /\ f[4 * n + 7] = {"SEMICOLON"}
    /\ \A i \in 1 .. Len(f) :
         \/ i \in 1 .. 4 \/ i \in {2 * n + 4, 2 * n + 5, 2 * n + 6, 4 * n + 6, 4 * n + 7}
         \/ \E k \in 1 .. 2 * n - 1 : i = 4 + k
         \/ \E k \in 1 .. 2 * n - 1 : i = 2 * n + 6 + k

LEMMA ListedPlaces ==
    ASSUME NEW n \in Nat \ {0}, NEW f, f = ListedShape(n)
    PROVE  ListedAt(n, f)
<1> DEFINE S == {"NUMBER", "STRING"}
           T == {"IDENTIFIER"}
<1>1. \A i \in 1 .. 4 * n + 7 : f[i] =
        IF i <= 4 THEN {<<"INSERT", "INTO", "IDENTIFIER", "LPAREN">>[i]}
        ELSE IF i <= 2 * n + 3 THEN Alternate(i - 4, T)
        ELSE IF i <= 2 * n + 6 THEN {<<"RPAREN", "VALUES", "LPAREN">>[i - 2 * n - 3]}
        ELSE IF i <= 4 * n + 5 THEN Alternate(i - 2 * n - 6, S)
        ELSE {<<"RPAREN", "SEMICOLON">>[i - 4 * n - 5]}
  BY DEF ListedShape
<1> HIDE DEF S, T
<1>2. \A i \in 1 .. 4 : f[i] = {<<"INSERT", "INTO", "IDENTIFIER", "LPAREN">>[i]}
  <2> TAKE i \in 1 .. 4
  <2>1. i \in 1 .. 4 * n + 7 /\ i <= 4
    OBVIOUS
  <2> QED
    BY <1>1, <2>1
<1>3. /\ f[1] = {"INSERT"} /\ f[2] = {"INTO"} /\ f[3] = {"IDENTIFIER"} /\ f[4] = {"LPAREN"}
  BY <1>2
<1>4. \A k \in 1 .. 2 * n - 1 : f[4 + k] = Alternate(k, T)
  <2> TAKE k \in 1 .. 2 * n - 1
  <2>1. PICK i : i = 4 + k
    OBVIOUS
  <2>2. i \in 1 .. 4 * n + 7 /\ ~(i <= 4) /\ i <= 2 * n + 3 /\ i - 4 = k
    BY <2>1
  <2> QED
    BY <1>1, <2>1, <2>2
<1>5. \A k \in 1 .. 2 * n - 1 : f[2 * n + 6 + k] = Alternate(k, S)
  <2> TAKE k \in 1 .. 2 * n - 1
  <2>1. PICK i : i = 2 * n + 6 + k
    OBVIOUS
  <2>2. /\ i \in 1 .. 4 * n + 7 /\ ~(i <= 4) /\ ~(i <= 2 * n + 3) /\ ~(i <= 2 * n + 6)
        /\ i <= 4 * n + 5 /\ i - 2 * n - 6 = k
    BY <2>1
  <2> QED
    BY <1>1, <2>1, <2>2
<1>6. f[2 * n + 4] = {"RPAREN"} /\ f[2 * n + 5] = {"VALUES"} /\ f[2 * n + 6] = {"LPAREN"}
  <2>2. \A j \in 1 .. 3 : f[2 * n + 3 + j] = {<<"RPAREN", "VALUES", "LPAREN">>[j]}
    <3> TAKE j \in 1 .. 3
    <3>1. PICK i : i = 2 * n + 3 + j
      OBVIOUS
    <3>2. /\ i \in 1 .. 4 * n + 7 /\ ~(i <= 4) /\ ~(i <= 2 * n + 3) /\ i <= 2 * n + 6
          /\ i - 2 * n - 3 = j
      BY <3>1
    <3> QED
      BY <1>1, <3>1, <3>2
  <2>3. 2 * n + 3 + 1 = 2 * n + 4 /\ 2 * n + 3 + 2 = 2 * n + 5 /\ 2 * n + 3 + 3 = 2 * n + 6
    OBVIOUS
  <2> QED
    BY <2>2, <2>3
<1>7. f[4 * n + 6] = {"RPAREN"} /\ f[4 * n + 7] = {"SEMICOLON"}
  <2>2. \A j \in 1 .. 2 : f[4 * n + 5 + j] = {<<"RPAREN", "SEMICOLON">>[j]}
    <3> TAKE j \in 1 .. 2
    <3>1. PICK i : i = 4 * n + 5 + j
      OBVIOUS
    <3>2. /\ i \in 1 .. 4 * n + 7 /\ ~(i <= 4) /\ ~(i <= 2 * n + 3) /\ ~(i <= 2 * n + 6)
          /\ ~(i <= 4 * n + 5) /\ i - 4 * n - 5 = j
      BY <3>1
    <3> QED
      BY <1>1, <3>1, <3>2
  <2>3. 4 * n + 5 + 1 = 4 * n + 6 /\ 4 * n + 5 + 2 = 4 * n + 7
    OBVIOUS
  <2> QED
    BY <2>2, <2>3
<1>8. Len(f) = 4 * n + 7
  <2>1. f = [i \in 1 .. 4 * n + 7 |-> f[i]] /\ 4 * n + 7 \in Nat
    BY DEF ListedShape
  <2> QED
    BY <2>1, LenOfFunction
<1>9. ASSUME NEW i \in 1 .. 4 * n + 7
      PROVE  \/ i \in 1 .. 4 \/ i \in {2 * n + 4, 2 * n + 5, 2 * n + 6, 4 * n + 6, 4 * n + 7}
             \/ \E k \in 1 .. 2 * n - 1 : i = 4 + k
             \/ \E k \in 1 .. 2 * n - 1 : i = 2 * n + 6 + k
  <2>1. CASE i > 4 /\ i < 2 * n + 4
    <3>1. i - 4 \in 1 .. 2 * n - 1 /\ i = 4 + (i - 4)
      BY <2>1
    <3> QED
      BY <3>1
  <2>2. CASE i > 2 * n + 6 /\ i < 4 * n + 6
    <3>1. i - 2 * n - 6 \in 1 .. 2 * n - 1 /\ i = 2 * n + 6 + (i - 2 * n - 6)
      BY <2>2
    <3> QED
      BY <3>1
  <2> QED
    BY <2>1, <2>2
<1> QED
  BY <1>3, <1>4, <1>5, <1>6, <1>7, <1>8, <1>9 DEF S, T, ListedAt

SelectAt(n, f) ==
    /\ Len(f) = 2 * n + 3 /\ f[1] = {"SELECT"}
    /\ \A k \in 1 .. 2 * n - 1 : f[1 + k] = Alternate(k, {"IDENTIFIER"})
    /\ f[2 * n + 1] = {"FROM"} /\ f[2 * n + 2] = {"IDENTIFIER"}
    /\ f[2 * n + 3] = {"SEMICOLON"}
    /\ \A i \in 1 .. Len(f) : \/ i \in {1, 2 * n + 1, 2 * n + 2, 2 * n + 3}
                              \/ \E k \in 1 .. 2 * n - 1 : i = 1 + k

LEMMA SelectPlaces ==
    ASSUME NEW n \in Nat \ {0}, NEW f, f = SelectShape(n)
    PROVE  SelectAt(n, f)
<1> DEFINE S == {"IDENTIFIER"}
<1>1. \A i \in 1 .. 2 * n + 3 : f[i] =
        IF i = 1 THEN {"SELECT"}
        ELSE IF i <= 2 * n THEN Alternate(i - 1, S)
        ELSE {<<"FROM", "IDENTIFIER", "SEMICOLON">>[i - 2 * n]}
  BY DEF SelectShape
<1> HIDE DEF S
<1>2. f[1] = {"SELECT"}
  <2>1. 1 \in 1 .. 2 * n + 3
    OBVIOUS
  <2> QED
    BY <1>1, <2>1
<1>3. \A k \in 1 .. 2 * n - 1 : f[1 + k] = Alternate(k, S)
  <2> TAKE k \in 1 .. 2 * n - 1
  <2>1. PICK i : i = 1 + k
    OBVIOUS
  <2>2. i \in 1 .. 2 * n + 3 /\ i # 1 /\ i <= 2 * n /\ i - 1 = k
    BY <2>1
  <2> QED
    BY <1>1, <2>1, <2>2
<1>4. /\ f[2 * n + 1] = {"FROM"} /\ f[2 * n + 2] = {"IDENTIFIER"}
      /\ f[2 * n + 3] = {"SEMICOLON"}
  <2>2. \A j \in 1 .. 3 : f[2 * n + j] = {<<"FROM", "IDENTIFIER", "SEMICOLON">>[j]}
    <3> TAKE j \in 1 .. 3
    <3>1. PICK i : i = 2 * n + j
      OBVIOUS
    <3>2. i \in 1 .. 2 * n + 3 /\ i # 1 /\ ~(i <= 2 * n) /\ i - 2 * n = j
      BY <3>1
    <3> QED
      BY <1>1, <3>1, <3>2
  <2> QED
    BY <2>2
<1>5. Len(f) = 2 * n + 3
  <2>1. f = [i \in 1 .. 2 * n + 3 |-> f[i]] /\ 2 * n + 3 \in Nat
    BY DEF SelectShape
  <2> QED
    BY <2>1, LenOfFunction
<1>6. ASSUME NEW i \in 1 .. 2 * n + 3
      PROVE  \/ i \in {1, 2 * n + 1, 2 * n + 2, 2 * n + 3}
             \/ \E k \in 1 .. 2 * n - 1 : i = 1 + k
  <2>1. CASE i > 1 /\ i < 2 * n + 1
    <3>1. i - 1 \in 1 .. 2 * n - 1 /\ i = 1 + (i - 1)
      BY <2>1
    <3> QED
      BY <3>1
  <2> QED
    BY <2>1
<1> QED
  BY <1>2, <1>3, <1>4, <1>5, <1>6 DEF S, SelectAt

LEMMA StarPlaces ==
    ASSUME NEW f, f = StarShape
    PROVE  /\ Len(f) = 5 /\ f[1] = {"SELECT"} /\ f[2] = {"STAR"} /\ f[3] = {"FROM"}
           /\ f[4] = {"IDENTIFIER"} /\ f[5] = {"SEMICOLON"}
<1>1. f = [i \in 1 .. 5 |-> f[i]]
  BY DEF StarShape
<1>2. Len(f) = 5
  BY <1>1, LenOfFunction
<1> QED
  BY <1>2 DEF StarShape

(* The shapes are the grammar: a legal statement fits one of them, and     *)
(* whatever fits one is a legal statement.                                 *)
LEMMA ListedTypes ==
    ASSUME NEW n \in Nat \ {0}, NEW S \in SUBSET TokenType, NEW v \in [1 .. n -> S]
    PROVE  /\ TypesInList(v) \in Seq(TokenType) /\ Len(TypesInList(v)) = 2 * n - 1
           /\ \A k \in 1 .. 2 * n - 1 :
                TypesInList(v)[k] = IF k % 2 = 1 THEN v[(k + 1) \div 2] ELSE "COMMA"
           /\ \A k \in 1 .. 2 * n - 1 : TypesInList(v)[k] \in Alternate(k, S)
<1> DEFINE marks == [k \in DOMAIN v |-> Mark(v[k])]
           list == CommaList(marks)
<1>1. marks \in [1 .. n -> Token] /\ \A k \in 1 .. n : marks[k].type = v[k] /\ v[k] \in S
  <2>1. \A k \in 1 .. n : v[k] \in S /\ v[k] \in TokenType
    OBVIOUS
  <2>2. \A k \in 1 .. n : Mark(v[k]) \in Token /\ Mark(v[k]).type = v[k]
    BY <2>1, MarkType DEF Mark
  <2> QED
    BY <2>1, <2>2
<1> HIDE DEF marks
<1>2. marks \in Seq(Token) /\ Len(marks) = n
  BY <1>1, FunctionIsSeq
<1>3. marks # <<>>
  BY <1>2
<1>4. /\ list \in Seq(Token) /\ Len(list) = 2 * n - 1
      /\ \A k \in 1 .. 2 * n - 1 :
           list[k] = IF k % 2 = 1 THEN marks[(k + 1) \div 2] ELSE Mark("COMMA")
  BY <1>2, <1>3, CommaListType
<1> HIDE DEF list
<1>5. DOMAIN list = 1 .. 2 * n - 1 /\ 2 * n - 1 \in Nat
  BY <1>4, LenProperties
<1> DEFINE t == Types(list)
<1>6. \A k \in 1 .. 2 * n - 1 :
        /\ list[k].type = IF k % 2 = 1 THEN v[(k + 1) \div 2] ELSE "COMMA"
        /\ list[k].type \in Alternate(k, S)
  <2> TAKE k \in 1 .. 2 * n - 1
  <2>1. CASE k % 2 = 1
    <3>1. (k + 1) \div 2 \in 1 .. n
      BY <2>1
    <3>2. list[k] = marks[(k + 1) \div 2]
      BY <1>4, <2>1
    <3> QED
      BY <1>1, <2>1, <3>1, <3>2 DEF Alternate
  <2>2. CASE k % 2 # 1
    <3>1. list[k] = Mark("COMMA")
      BY <1>4, <2>2
    <3> QED
      BY <2>2, <3>1 DEF Alternate, Mark
  <2> QED
    BY <2>1, <2>2
<1>7. t \in [1 .. 2 * n - 1 -> TokenType] /\ \A k \in 1 .. 2 * n - 1 : t[k] = list[k].type
  <2>1. \A k \in 1 .. 2 * n - 1 : list[k].type \in TokenType
    <3> TAKE k \in 1 .. 2 * n - 1
    <3>1. list[k] \in Token
      BY <1>4, ElementOfSeq
    <3> QED
      BY <3>1 DEF Token
  <2> QED
    BY <1>5, <2>1 DEF Types
<1>8. TypesInList(v) = t
  BY DEF TypesInList, list, marks
<1> HIDE DEF t
<1>9. t \in Seq(TokenType) /\ Len(t) = 2 * n - 1
  BY <1>5, <1>7, FunctionIsSeq, SMTT(20)
<1> QED
  BY <1>6, <1>7, <1>8, <1>9

(* Behind the o-th place of u is such a list; it is l.                     *)
ListIn(u, o, n, S) == \A k \in 1 .. 2 * n - 1 : u[o + k] \in Alternate(k, S)
IsList(u, o, n, l) == \A k \in 1 .. 2 * n - 1 : u[o + k] = l[k]

LEMMA ListOfTypes ==
    ASSUME NEW n \in Nat \ {0}, NEW S \in SUBSET TokenType, NEW u, NEW o \in Nat,
           ListIn(u, o, n, S)
    PROVE  \E v \in [1 .. n -> S] : IsList(u, o, n, TypesInList(v))
<1> DEFINE v == [j \in 1 .. n |-> u[o + (2 * j - 1)]]
<1>1. \A j \in 1 .. n : u[o + (2 * j - 1)] \in S
  <2> TAKE j \in 1 .. n
  <2>1. PICK k : k = 2 * j - 1
    OBVIOUS
  <2>2. k \in 1 .. 2 * n - 1 /\ k % 2 = 1
    BY <2>1
  <2>3. u[o + k] \in Alternate(k, S)
    BY <2>2, Zenon DEF ListIn
  <2> QED
    BY <2>1, <2>2, <2>3 DEF Alternate
<1>2. v \in [1 .. n -> S] /\ \A j \in 1 .. n : v[j] = u[o + (2 * j - 1)]
  BY <1>1
<1> HIDE DEF v
<1>4. \A k \in 1 .. 2 * n - 1 :
         TypesInList(v)[k] = IF k % 2 = 1 THEN v[(k + 1) \div 2] ELSE "COMMA"
  BY <1>2, ListedTypes, Zenon
<1>3. ASSUME NEW k \in 1 .. 2 * n - 1 PROVE TypesInList(v)[k] = u[o + k]
  <2>1. TypesInList(v)[k] = IF k % 2 = 1 THEN v[(k + 1) \div 2] ELSE "COMMA"
    BY <1>4
  <2>2. CASE k % 2 = 1
    <3>1. PICK j : j = (k + 1) \div 2
      OBVIOUS
    <3>2. j \in 1 .. n /\ 2 * j - 1 = k
      BY <2>2, <3>1
    <3> QED
      BY <1>2, <2>1, <2>2, <3>1, <3>2
  <2>3. CASE k % 2 # 1
    <3>1. u[o + k] \in Alternate(k, S)
      BY Zenon DEF ListIn
    <3> QED
      BY <2>1, <2>3, <3>1 DEF Alternate
  <2> QED
    BY <2>2, <2>3
<1>5. IsList(u, o, n, TypesInList(v))
  BY <1>3, Zenon DEF IsList
<1> QED
  BY <1>2, <1>5, Zenon

(* A beginning, a list and an end, and the semicolon behind them.          *)
Between(a, l, c) == (a \o l) \o c
Glued(a, l, c, e) == Append(Between(a, l, c), e)
Joined(a, l, c, d) ==
    /\ Len(d) = Len(a) + Len(l) + Len(c)
    /\ \A k \in 1 .. Len(a) : d[k] = a[k]
    /\ \A k \in 1 .. Len(l) : d[Len(a) + k] = l[k]
    /\ \A k \in 1 .. Len(c) : d[Len(a) + Len(l) + k] = c[k]

LEMMA Framed ==
    ASSUME NEW S, NEW a \in Seq(S), NEW l \in Seq(S), NEW c \in Seq(S),
           NEW d, d = Between(a, l, c)
    PROVE  d \in Seq(S) /\ Joined(a, l, c, d)
<1> DEFINE b == a \o l
<1>1. /\ b \in Seq(S) /\ Len(b) = Len(a) + Len(l) /\ Len(a) \in Nat /\ Len(l) \in Nat
      /\ \A k \in 1 .. Len(a) : b[k] = a[k]
      /\ \A k \in 1 .. Len(l) : b[Len(a) + k] = l[k]
  BY ConcatFacts
<1>2. d = b \o c
  BY DEF Between
<1> HIDE DEF b
<1>3. /\ d \in Seq(S) /\ Len(d) = Len(b) + Len(c) /\ Len(c) \in Nat
      /\ \A k \in 1 .. Len(b) : d[k] = b[k]
      /\ \A k \in 1 .. Len(c) : d[Len(b) + k] = c[k]
  <2>1. b \in Seq(S) /\ c \in Seq(S)
    BY <1>1
  <2> QED
    BY <1>2, <2>1, ConcatFacts
<1>4. /\ \A k \in 1 .. Len(a) : k \in 1 .. Len(b)
      /\ \A k \in 1 .. Len(l) : Len(a) + k \in 1 .. Len(b)
  BY <1>1
<1> QED
  BY <1>1, <1>3, <1>4 DEF Joined

Laid(a, l, c, e, u) ==
    /\ Len(u) = Len(a) + Len(l) + Len(c) + 1 /\ u[Len(u)] = e
    /\ \A k \in 1 .. Len(a) : u[k] = a[k]
    /\ \A k \in 1 .. Len(l) : u[Len(a) + k] = l[k]
    /\ \A k \in 1 .. Len(c) : u[Len(a) + Len(l) + k] = c[k]

LEMMA Closed ==
    ASSUME NEW S, NEW a \in Seq(S), NEW l \in Seq(S), NEW c \in Seq(S), NEW e \in S,
           NEW u, u = Glued(a, l, c, e)
    PROVE  u \in Seq(S) /\ Laid(a, l, c, e, u)
<1> DEFINE d == Between(a, l, c)
<1>1. u = Append(d, e)
  BY DEF Glued
<1>2. /\ d \in Seq(S) /\ Len(d) = Len(a) + Len(l) + Len(c)
      /\ Len(a) \in Nat /\ Len(l) \in Nat /\ Len(c) \in Nat
      /\ \A k \in 1 .. Len(a) : d[k] = a[k]
      /\ \A k \in 1 .. Len(l) : d[Len(a) + k] = l[k]
      /\ \A k \in 1 .. Len(c) : d[Len(a) + Len(l) + k] = c[k]
  <2>1. d \in Seq(S) /\ Joined(a, l, c, d)
    BY Framed
  <2> QED
    BY <2>1, LenProperties DEF Joined
<1> HIDE DEF d
<1>3. /\ u \in Seq(S) /\ Len(u) = Len(d) + 1 /\ u[Len(d) + 1] = e
      /\ \A k \in 1 .. Len(d) : u[k] = d[k]
  <2>1. d \in Seq(S)
    BY <1>2
  <2> QED
    BY <1>1, <2>1, AppendProperties
<1>4. /\ \A k \in 1 .. Len(a) : k \in 1 .. Len(d)
      /\ \A k \in 1 .. Len(l) : Len(a) + k \in 1 .. Len(d)
      /\ \A k \in 1 .. Len(c) : Len(a) + Len(l) + k \in 1 .. Len(d)
  BY <1>2
<1> QED
  BY <1>2, <1>3, <1>4 DEF Laid

LEMMA PlainLaid ==
    ASSUME NEW n \in Nat \ {0}, NEW v \in [1 .. n -> {"NUMBER", "STRING"}],
           NEW l, l = TypesInList(v),
           NEW a, a = <<"INSERT", "INTO", "IDENTIFIER", "VALUES", "LPAREN">>,
           NEW c, c = <<"RPAREN">>,
           NEW u, u = Glued(a, l, c, "SEMICOLON"), NEW f, f = PlainShape(n)
    PROVE  /\ Fits(u, f)
           /\ \A w : Fits(w, f) /\ IsList(w, 5, n, l) => w = u
<1> DEFINE S == {"NUMBER", "STRING"}
<1>1. /\ a \in Seq(TokenType) /\ Len(a) = 5 /\ a[1] = "INSERT" /\ a[2] = "INTO"
      /\ a[3] = "IDENTIFIER" /\ a[4] = "VALUES" /\ a[5] = "LPAREN"
      /\ c \in Seq(TokenType) /\ Len(c) = 1 /\ c[1] = "RPAREN"
  BY DEF TokenType, Keyword, Punctuation
<1>2. S \in SUBSET TokenType /\ "SEMICOLON" \in TokenType
  BY DEF TokenType, Punctuation
<1>3. /\ l \in Seq(TokenType) /\ Len(l) = 2 * n - 1
      /\ \A k \in 1 .. 2 * n - 1 : l[k] \in Alternate(k, S)
  <2> HIDE DEF S
  <2>1. v \in [1 .. n -> S]
    BY DEF S
  <2> QED
    BY <1>2, <2>1, ListedTypes
<1>4. u \in Seq(TokenType) /\ Laid(a, l, c, "SEMICOLON", u)
  <2>1. a \in Seq(TokenType) /\ c \in Seq(TokenType) /\ l \in Seq(TokenType)
    BY <1>1, <1>3
  <2> QED
    BY <1>2, <2>1, Closed
<1>5. /\ u \in Seq(TokenType) /\ Len(u) = 2 * n + 6 /\ u[1] = "INSERT" /\ u[2] = "INTO"
      /\ u[3] = "IDENTIFIER" /\ u[4] = "VALUES" /\ u[5] = "LPAREN"
      /\ \A k \in 1 .. 2 * n - 1 : u[5 + k] = l[k]
      /\ u[2 * n + 5] = "RPAREN" /\ u[2 * n + 6] = "SEMICOLON"
  <2>1. Len(u) = 2 * n + 6 /\ Len(a) + Len(l) + 1 = 2 * n + 5
    BY <1>1, <1>3, <1>4 DEF Laid
  <2>2. u[2 * n + 6] = "SEMICOLON"
    BY <1>4, <2>1 DEF Laid
  <2>3. \A k \in 1 .. 5 : u[k] = a[k]
    BY <1>1, <1>4 DEF Laid
  <2>4. \A k \in 1 .. 2 * n - 1 : u[5 + k] = l[k]
    BY <1>1, <1>3, <1>4, SMTT(20) DEF Laid
  <2>5. u[2 * n + 5] = "RPAREN"
    <3>1. u[Len(a) + Len(l) + 1] = c[1]
      BY <1>1, <1>4 DEF Laid
    <3> QED
      BY <1>1, <2>1, <3>1
  <2> QED
    BY <1>1, <1>4, <2>1, <2>2, <2>3, <2>4, <2>5
<1>6. PlainAt(n, f)
  BY PlainPlaces
<1> HIDE DEF S
<1>9. /\ Len(f) = 2 * n + 6 /\ f[1] = {"INSERT"} /\ f[2] = {"INTO"} /\ f[3] = {"IDENTIFIER"}
      /\ f[4] = {"VALUES"} /\ f[5] = {"LPAREN"}
      /\ f[2 * n + 5] = {"RPAREN"} /\ f[2 * n + 6] = {"SEMICOLON"}
  BY <1>6 DEF PlainAt
<1>10. \A k \in 1 .. 2 * n - 1 : f[5 + k] = Alternate(k, S)
  BY <1>6, Zenon DEF PlainAt, S
<1>11. ASSUME NEW i \in 1 .. Len(f)
       PROVE  \/ i \in {1, 2, 3, 4, 5, 2 * n + 5, 2 * n + 6}
              \/ \E k \in 1 .. 2 * n - 1 : i = 5 + k
  <2>1. i \in 1 .. 5 \/ i \in {2 * n + 5, 2 * n + 6} \/ \E k \in 1 .. 2 * n - 1 : i = 5 + k
    BY <1>6, Zenon DEF PlainAt
  <2> QED
    BY <2>1
<1>12. /\ u[1] = "INSERT" /\ u[2] = "INTO"
       /\ u[3] = "IDENTIFIER" /\ u[4] = "VALUES" /\ u[5] = "LPAREN"
       /\ u[2 * n + 5] = "RPAREN" /\ u[2 * n + 6] = "SEMICOLON"
  BY <1>5
<1>7. \A i \in 1 .. Len(f) : u[i] \in f[i]
  <2> TAKE i \in 1 .. Len(f)
  <2>1. CASE i \in {1, 2, 3, 4, 5, 2 * n + 5, 2 * n + 6}
    <3>1. /\ u[1] \in f[1] /\ u[2] \in f[2] /\ u[3] \in f[3] /\ u[4] \in f[4] /\ u[5] \in f[5]
          /\ u[2 * n + 5] \in f[2 * n + 5] /\ u[2 * n + 6] \in f[2 * n + 6]
      BY <1>9, <1>12, Zenon
    <3>2. CASE i \in {1, 2, 3, 4, 5}
      BY <3>1, <3>2
    <3>3. CASE i = 2 * n + 5 \/ i = 2 * n + 6
      BY <3>1, <3>3, Zenon
    <3> QED
      BY <2>1, <3>2, <3>3, Zenon
  <2>2. ASSUME NEW k \in 1 .. 2 * n - 1, i = 5 + k PROVE u[i] \in f[i]
    BY <1>3, <1>5, <1>10, <2>2, Zenon DEF S
  <2> QED
    BY <1>11, <2>1, <2>2, Zenon
<1>8. ASSUME NEW w, Fits(w, f), IsList(w, 5, n, l) PROVE w = u
  <2>1. w \in Seq(TokenType) /\ Len(w) = Len(f) /\ \A i \in 1 .. Len(f) : w[i] \in f[i]
    BY <1>8 DEF Fits
  <2>2. \A i \in 1 .. Len(f) : w[i] = u[i]
    <3> TAKE i \in 1 .. Len(f)
    <3>1. CASE i \in {1, 2, 3, 4, 5, 2 * n + 5, 2 * n + 6}
      <4>1. w[i] \in f[i] /\ u[i] \in f[i]
        BY <1>7, <2>1, Zenon
      <4>2. \E x : f[i] = {x}
        BY <1>9, <3>1
      <4> QED
        BY <4>1, <4>2, Zenon
    <3>2. ASSUME NEW k \in 1 .. 2 * n - 1, i = 5 + k PROVE w[i] = u[i]
      <4>1. w[5 + k] = l[k]
        BY <1>8, Zenon DEF IsList
      <4>2. u[5 + k] = l[k]
        BY <1>5
      <4> QED
        BY <3>2, <4>1, <4>2, Zenon
    <3> QED
      BY <1>11, <3>1, <3>2, Zenon
  <2> QED
    BY <1>5, <1>9, <2>1, <2>2, SeqEqual
<1> QED
  BY <1>5, <1>7, <1>8, <1>9 DEF Fits

LEMMA ListedSum ==
    \A n \in Nat : \A p, q, r :
      p = 2 * n + 6 /\ q = 2 * n - 1 /\ r = 1 => p + q + r + 1 = 4 * n + 7 /\ p + q + 1 = 4 * n + 6
OBVIOUS

LEMMA ListedLaid ==
    ASSUME NEW n \in Nat \ {0}, NEW v \in [1 .. n -> {"NUMBER", "STRING"}],
           NEW x \in [1 .. n -> {"IDENTIFIER"}], NEW m, m = TypesInList(x),
           NEW l, l = TypesInList(v),
           NEW b, b = <<"INSERT", "INTO", "IDENTIFIER", "LPAREN">>,
           NEW d, d = <<"RPAREN", "VALUES", "LPAREN">>,
           NEW a, a = Between(b, m, d),
           NEW c, c = <<"RPAREN">>,
           NEW u, u = Glued(a, l, c, "SEMICOLON"), NEW f, f = ListedShape(n)
    PROVE  /\ Fits(u, f)
           /\ \A w : Fits(w, f) /\ IsList(w, 4, n, m) /\ IsList(w, 2 * n + 6, n, l) => w = u
<1> DEFINE S == {"NUMBER", "STRING"}
           T == {"IDENTIFIER"}
<1>1. /\ b \in Seq(TokenType) /\ Len(b) = 4 /\ b[1] = "INSERT" /\ b[2] = "INTO"
      /\ b[3] = "IDENTIFIER" /\ b[4] = "LPAREN"
      /\ d \in Seq(TokenType) /\ Len(d) = 3 /\ d[1] = "RPAREN" /\ d[2] = "VALUES"
      /\ d[3] = "LPAREN"
      /\ c \in Seq(TokenType) /\ Len(c) = 1 /\ c[1] = "RPAREN"
  BY DEF TokenType, Keyword, Punctuation
<1>2. S \in SUBSET TokenType /\ T \in SUBSET TokenType /\ "SEMICOLON" \in TokenType
  BY DEF TokenType, Punctuation
<1>3. /\ l \in Seq(TokenType) /\ Len(l) = 2 * n - 1
      /\ \A k \in 1 .. 2 * n - 1 : l[k] \in Alternate(k, S)
  <2> HIDE DEF S
  <2>1. v \in [1 .. n -> S]
    BY DEF S
  <2> QED
    BY <1>2, <2>1, ListedTypes
<1>4. /\ m \in Seq(TokenType) /\ Len(m) = 2 * n - 1
      /\ \A k \in 1 .. 2 * n - 1 : m[k] \in Alternate(k, T)
  <2> HIDE DEF T
  <2>1. x \in [1 .. n -> T]
    BY DEF T
  <2> QED
    BY <1>2, <2>1, ListedTypes
<1>5. /\ a \in Seq(TokenType) /\ Len(a) = 2 * n + 6
      /\ a[1] = "INSERT" /\ a[2] = "INTO" /\ a[3] = "IDENTIFIER" /\ a[4] = "LPAREN"
      /\ \A k \in 1 .. 2 * n - 1 : a[4 + k] = m[k]
      /\ a[2 * n + 4] = "RPAREN" /\ a[2 * n + 5] = "VALUES" /\ a[2 * n + 6] = "LPAREN"
  <2>1. a \in Seq(TokenType) /\ Joined(b, m, d, a)
    <3>1. b \in Seq(TokenType) /\ m \in Seq(TokenType) /\ d \in Seq(TokenType)
      BY <1>1, <1>4
    <3> QED
      BY <3>1, Framed
  <2>2. Len(a) = 2 * n + 6
    BY <1>1, <1>4, <2>1 DEF Joined
  <2>3. \A k \in 1 .. 4 : a[k] = b[k]
    BY <1>1, <2>1 DEF Joined
  <2>4. \A k \in 1 .. 2 * n - 1 : a[4 + k] = m[k]
    BY <1>1, <1>4, <2>1 DEF Joined
  <2>5. \A k \in 1 .. 3 : a[2 * n + 3 + k] = d[k]
    <3>1. Len(b) + Len(m) = 2 * n + 3 /\ Len(d) = 3
      BY <1>1, <1>4
    <3>2. \A k \in 1 .. Len(d) : a[Len(b) + Len(m) + k] = d[k]
      BY <2>1, Zenon DEF Joined
    <3> QED
      BY <3>1, <3>2, Zenon
  <2>6. 2 * n + 3 + 1 = 2 * n + 4 /\ 2 * n + 3 + 2 = 2 * n + 5 /\ 2 * n + 3 + 3 = 2 * n + 6
    OBVIOUS
  <2>7. a[2 * n + 4] = "RPAREN" /\ a[2 * n + 5] = "VALUES" /\ a[2 * n + 6] = "LPAREN"
    BY <1>1, <2>5, <2>6
  <2> QED
    BY <1>1, <2>1, <2>2, <2>3, <2>4, <2>7
<1>6. u \in Seq(TokenType) /\ Laid(a, l, c, "SEMICOLON", u)
  <2>1. a \in Seq(TokenType) /\ c \in Seq(TokenType) /\ l \in Seq(TokenType)
    BY <1>1, <1>3, <1>5
  <2> QED
    BY <1>2, <2>1, Closed, ZenonT(40)
<1>7. /\ Len(u) = 4 * n + 7
      /\ \A k \in 1 .. 2 * n + 6 : u[k] = a[k]
      /\ \A k \in 1 .. 2 * n - 1 : u[2 * n + 6 + k] = l[k]
      /\ u[4 * n + 6] = "RPAREN" /\ u[4 * n + 7] = "SEMICOLON"
  <2>6. Len(a) = 2 * n + 6 /\ Len(l) = 2 * n - 1 /\ Len(c) = 1
    BY <1>1, <1>3, <1>5
  <2>8. Len(u) = Len(a) + Len(l) + Len(c) + 1
    BY <1>6, Zenon DEF Laid
  <2>7. /\ \A k \in 1 .. Len(a) : u[k] = a[k]
        /\ \A k \in 1 .. Len(l) : u[Len(a) + k] = l[k]
    BY <1>6, Zenon DEF Laid
  <2>1. Len(u) = 4 * n + 7 /\ Len(a) + Len(l) + 1 = 4 * n + 6
    <3>1. n \in Nat
      OBVIOUS
    <3>2. PICK p, q, r : p = Len(a) /\ q = Len(l) /\ r = Len(c)
      OBVIOUS
    <3>3. p = 2 * n + 6 /\ q = 2 * n - 1 /\ r = 1
      BY <2>6, <3>2, Zenon
    <3>4. p + q + r + 1 = 4 * n + 7 /\ p + q + 1 = 4 * n + 6
      BY <3>1, <3>3, ListedSum
    <3>5. Len(u) = p + q + r + 1 /\ Len(a) + Len(l) + 1 = p + q + 1
      BY <2>8, <3>2, Zenon
    <3> QED
      BY <3>4, <3>5, Zenon
  <2>2. u[4 * n + 7] = "SEMICOLON"
    BY <1>6, <2>1 DEF Laid
  <2>3. \A k \in 1 .. 2 * n + 6 : u[k] = a[k]
    BY <2>6, <2>7, Zenon
  <2>4. \A k \in 1 .. 2 * n - 1 : u[2 * n + 6 + k] = l[k]
    <3> TAKE k \in 1 .. 2 * n - 1
    <3>1. u[Len(a) + k] = l[k]
      BY <2>6, <2>7, Zenon
    <3> QED
      BY <2>6, <3>1, Zenon
  <2>5. u[4 * n + 6] = "RPAREN"
    <3>1. u[Len(a) + Len(l) + 1] = c[1]
      BY <1>1, <1>6 DEF Laid
    <3> QED
      BY <1>1, <2>1, <3>1
  <2> QED
    BY <2>1, <2>2, <2>3, <2>4, <2>5
<1>8. /\ u[1] = "INSERT" /\ u[2] = "INTO" /\ u[3] = "IDENTIFIER" /\ u[4] = "LPAREN"
      /\ u[2 * n + 4] = "RPAREN" /\ u[2 * n + 5] = "VALUES" /\ u[2 * n + 6] = "LPAREN"
      /\ \A k \in 1 .. 2 * n - 1 : u[4 + k] = m[k]
  <2>1. /\ 1 \in 1 .. 2 * n + 6 /\ 2 \in 1 .. 2 * n + 6 /\ 3 \in 1 .. 2 * n + 6
        /\ 4 \in 1 .. 2 * n + 6 /\ 2 * n + 4 \in 1 .. 2 * n + 6
        /\ 2 * n + 5 \in 1 .. 2 * n + 6 /\ 2 * n + 6 \in 1 .. 2 * n + 6
        /\ \A k \in 1 .. 2 * n - 1 : 4 + k \in 1 .. 2 * n + 6
    OBVIOUS
  <2>2. /\ u[1] = a[1] /\ u[2] = a[2] /\ u[3] = a[3] /\ u[4] = a[4]
        /\ u[2 * n + 4] = a[2 * n + 4] /\ u[2 * n + 5] = a[2 * n + 5]
        /\ u[2 * n + 6] = a[2 * n + 6]
    BY <1>7, <2>1, ZenonT(40)
  <2>3. \A k \in 1 .. 2 * n - 1 : u[4 + k] = a[4 + k]
    BY <1>7, <2>1, Zenon
  <2>4. \A k \in 1 .. 2 * n - 1 : u[4 + k] = m[k]
    <3> TAKE k \in 1 .. 2 * n - 1
    <3>1. u[4 + k] = a[4 + k] /\ a[4 + k] = m[k]
      BY <1>5, <2>3, ZenonT(40)
    <3> QED
      BY <3>1, Zenon
  <2>5. /\ u[1] = "INSERT" /\ u[2] = "INTO" /\ u[3] = "IDENTIFIER" /\ u[4] = "LPAREN"
        /\ u[2 * n + 4] = "RPAREN" /\ u[2 * n + 5] = "VALUES" /\ u[2 * n + 6] = "LPAREN"
    BY <1>5, <2>2
  <2> QED
    BY <2>4, <2>5, Zenon
<1>9. ListedAt(n, f)
  BY ListedPlaces
<1> HIDE DEF S, T
<1>10. /\ Len(f) = 4 * n + 7 /\ f[1] = {"INSERT"} /\ f[2] = {"INTO"} /\ f[3] = {"IDENTIFIER"}
       /\ f[4] = {"LPAREN"}
       /\ f[2 * n + 4] = {"RPAREN"} /\ f[2 * n + 5] = {"VALUES"} /\ f[2 * n + 6] = {"LPAREN"}
       /\ f[4 * n + 6] = {"RPAREN"} /\ f[4 * n + 7] = {"SEMICOLON"}
  BY <1>9 DEF ListedAt
<1>11. /\ \A k \in 1 .. 2 * n - 1 : f[4 + k] = Alternate(k, T)
       /\ \A k \in 1 .. 2 * n - 1 : f[2 * n + 6 + k] = Alternate(k, S)
  BY <1>9, Zenon DEF ListedAt, S, T
<1> DEFINE P == {1, 2, 3, 4, 2 * n + 4, 2 * n + 5, 2 * n + 6, 4 * n + 6, 4 * n + 7}
<1>12. ASSUME NEW i \in 1 .. Len(f)
       PROVE  \/ i \in P
              \/ \E k \in 1 .. 2 * n - 1 : i = 4 + k
              \/ \E k \in 1 .. 2 * n - 1 : i = 2 * n + 6 + k
  <2>1. \/ i \in 1 .. 4 \/ i \in {2 * n + 4, 2 * n + 5, 2 * n + 6, 4 * n + 6, 4 * n + 7}
        \/ \E k \in 1 .. 2 * n - 1 : i = 4 + k
        \/ \E k \in 1 .. 2 * n - 1 : i = 2 * n + 6 + k
    BY <1>9, Zenon DEF ListedAt
  <2> QED
    BY <2>1
<1>13. \A i \in P : u[i] \in f[i] /\ \E y : f[i] = {y}
  <2>1. /\ u[1] \in f[1] /\ u[2] \in f[2] /\ u[3] \in f[3] /\ u[4] \in f[4]
        /\ u[2 * n + 4] \in f[2 * n + 4] /\ u[2 * n + 5] \in f[2 * n + 5]
        /\ u[2 * n + 6] \in f[2 * n + 6] /\ u[4 * n + 6] \in f[4 * n + 6]
        /\ u[4 * n + 7] \in f[4 * n + 7]
    BY <1>7, <1>8, <1>10, Zenon
  <2>2. /\ \A i \in {1, 2, 3, 4} : \E y : f[i] = {y}
        /\ \E y : f[2 * n + 4] = {y}
        /\ \E y : f[2 * n + 5] = {y}
        /\ \E y : f[2 * n + 6] = {y}
        /\ \E y : f[4 * n + 6] = {y}
        /\ \E y : f[4 * n + 7] = {y}
    BY <1>10
  <2> QED
    BY <2>1, <2>2, ZenonT(40)
<1> HIDE DEF P
<1>14. \A i \in 1 .. Len(f) : u[i] \in f[i]
  <2> TAKE i \in 1 .. Len(f)
  <2>1. CASE i \in P
    BY <1>13, <2>1
  <2>2. ASSUME NEW k \in 1 .. 2 * n - 1, i = 4 + k PROVE u[i] \in f[i]
    BY <1>4, <1>8, <1>11, <2>2, ZenonT(40) DEF T
  <2>3. ASSUME NEW k \in 1 .. 2 * n - 1, i = 2 * n + 6 + k PROVE u[i] \in f[i]
    BY <1>3, <1>7, <1>11, <2>3, Zenon DEF S
  <2> QED
    BY <1>12, <2>1, <2>2, <2>3, Zenon
<1>15. ASSUME NEW w, Fits(w, f), IsList(w, 4, n, m), IsList(w, 2 * n + 6, n, l)
       PROVE  w = u
  <2>1. w \in Seq(TokenType) /\ Len(w) = Len(f) /\ \A i \in 1 .. Len(f) : w[i] \in f[i]
    BY <1>15 DEF Fits
  <2>2. \A i \in 1 .. Len(f) : w[i] = u[i]
    <3> TAKE i \in 1 .. Len(f)
    <3>1. CASE i \in P
      BY <1>13, <2>1, <3>1, Zenon
    <3>2. ASSUME NEW k \in 1 .. 2 * n - 1, i = 4 + k PROVE w[i] = u[i]
      <4>1. w[4 + k] = m[k]
        BY <1>15, Zenon DEF IsList
      <4>2. u[4 + k] = m[k]
        BY <1>8
      <4> QED
        BY <3>2, <4>1, <4>2, Zenon
    <3>3. ASSUME NEW k \in 1 .. 2 * n - 1, i = 2 * n + 6 + k PROVE w[i] = u[i]
      <4>1. w[2 * n + 6 + k] = l[k] /\ u[2 * n + 6 + k] = l[k]
        BY <1>7, <1>15, Zenon DEF IsList
      <4> QED
        BY <3>3, <4>1, Zenon
    <3> QED
      BY <1>12, <3>1, <3>2, <3>3, Zenon
  <2> QED
    BY <1>6, <1>7, <1>10, <2>1, <2>2, SeqEqual
<1> QED
  BY <1>6, <1>7, <1>10, <1>14, <1>15 DEF Fits

LEMMA SelectLaid ==
    ASSUME NEW n \in Nat \ {0}, NEW v \in [1 .. n -> {"IDENTIFIER"}],
           NEW l, l = TypesInList(v),
           NEW a, a = <<"SELECT">>,
           NEW c, c = <<"FROM", "IDENTIFIER">>,
           NEW u, u = Glued(a, l, c, "SEMICOLON"), NEW f, f = SelectShape(n)
    PROVE  /\ Fits(u, f)
           /\ \A w : Fits(w, f) /\ IsList(w, 1, n, l) => w = u
<1> DEFINE S == {"IDENTIFIER"}
<1>1. /\ a \in Seq(TokenType) /\ Len(a) = 1 /\ a[1] = "SELECT"
      /\ c \in Seq(TokenType) /\ Len(c) = 2 /\ c[1] = "FROM" /\ c[2] = "IDENTIFIER"
  BY DEF TokenType, Keyword
<1>2. S \in SUBSET TokenType /\ "SEMICOLON" \in TokenType
  BY DEF TokenType, Punctuation
<1>3. /\ l \in Seq(TokenType) /\ Len(l) = 2 * n - 1
      /\ \A k \in 1 .. 2 * n - 1 : l[k] \in Alternate(k, S)
  <2> HIDE DEF S
  <2>1. v \in [1 .. n -> S]
    BY DEF S
  <2> QED
    BY <1>2, <2>1, ListedTypes
<1>4. u \in Seq(TokenType) /\ Laid(a, l, c, "SEMICOLON", u)
  <2>1. a \in Seq(TokenType) /\ c \in Seq(TokenType) /\ l \in Seq(TokenType)
    BY <1>1, <1>3
  <2> QED
    BY <1>2, <2>1, Closed
<1>5. /\ Len(u) = 2 * n + 3 /\ u[1] = "SELECT"
      /\ \A k \in 1 .. 2 * n - 1 : u[1 + k] = l[k]
      /\ u[2 * n + 1] = "FROM" /\ u[2 * n + 2] = "IDENTIFIER" /\ u[2 * n + 3] = "SEMICOLON"
  <2>1. Len(u) = 2 * n + 3 /\ Len(a) + Len(l) = 2 * n
    BY <1>1, <1>3, <1>4 DEF Laid
  <2>2. u[2 * n + 3] = "SEMICOLON"
    BY <1>4, <2>1 DEF Laid
  <2>3. \A k \in 1 .. 1 : u[k] = a[k]
    BY <1>1, <1>4 DEF Laid
  <2>4. \A k \in 1 .. 2 * n - 1 : u[1 + k] = l[k]
    BY <1>1, <1>3, <1>4 DEF Laid
  <2>5. \A k \in 1 .. 2 : u[2 * n + k] = c[k]
    <3>1. \A k \in 1 .. Len(c) : u[Len(a) + Len(l) + k] = c[k]
      BY <1>4, Zenon DEF Laid
    <3> QED
      BY <1>1, <2>1, <3>1, ZenonT(40)
  <2> QED
    BY <1>1, <2>1, <2>2, <2>3, <2>4, <2>5
<1>6. SelectAt(n, f)
  BY SelectPlaces
<1> HIDE DEF S
<1> DEFINE P == {1, 2 * n + 1, 2 * n + 2, 2 * n + 3}
<1>7. /\ Len(f) = 2 * n + 3 /\ f[1] = {"SELECT"}
      /\ f[2 * n + 1] = {"FROM"} /\ f[2 * n + 2] = {"IDENTIFIER"} /\ f[2 * n + 3] = {"SEMICOLON"}
  BY <1>6 DEF SelectAt
<1>8. \A k \in 1 .. 2 * n - 1 : f[1 + k] = Alternate(k, S)
  BY <1>6, Zenon DEF SelectAt, S
<1>9. \A i \in 1 .. Len(f) : i \in P \/ \E k \in 1 .. 2 * n - 1 : i = 1 + k
  BY <1>6, Zenon DEF SelectAt, P
<1>10. \A i \in P : u[i] \in f[i] /\ \E y : f[i] = {y}
  <2>1. /\ u[1] \in f[1] /\ u[2 * n + 1] \in f[2 * n + 1] /\ u[2 * n + 2] \in f[2 * n + 2]
        /\ u[2 * n + 3] \in f[2 * n + 3]
    BY <1>5, <1>7, Zenon
  <2> QED
    BY <1>7, <2>1, ZenonT(40)
<1> HIDE DEF P
<1>11. \A i \in 1 .. Len(f) : u[i] \in f[i]
  <2> TAKE i \in 1 .. Len(f)
  <2>1. CASE i \in P
    BY <1>10, <2>1
  <2>2. ASSUME NEW k \in 1 .. 2 * n - 1, i = 1 + k PROVE u[i] \in f[i]
    BY <1>3, <1>5, <1>8, <2>2, Zenon DEF S
  <2> QED
    BY <1>9, <2>1, <2>2, Zenon
<1>12. ASSUME NEW w, Fits(w, f), IsList(w, 1, n, l) PROVE w = u
  <2>1. w \in Seq(TokenType) /\ Len(w) = Len(f) /\ \A i \in 1 .. Len(f) : w[i] \in f[i]
    BY <1>12 DEF Fits
  <2>2. \A i \in 1 .. Len(f) : w[i] = u[i]
    <3> TAKE i \in 1 .. Len(f)
    <3>1. CASE i \in P
      BY <1>10, <2>1, <3>1, Zenon
    <3>2. ASSUME NEW k \in 1 .. 2 * n - 1, i = 1 + k PROVE w[i] = u[i]
      <4>1. w[1 + k] = l[k] /\ u[1 + k] = l[k]
        BY <1>5, <1>12, Zenon DEF IsList
      <4> QED
        BY <3>2, <4>1, Zenon
    <3> QED
      BY <1>9, <3>1, <3>2, Zenon
  <2> QED
    BY <1>4, <1>5, <1>7, <2>1, <2>2, SeqEqual
<1> QED
  BY <1>4, <1>5, <1>7, <1>11, <1>12 DEF Fits

LEMMA StarLaid ==
    ASSUME NEW u,
           NEW a, a = <<"SELECT">>, NEW l, l = <<"STAR">>, NEW c, c = <<"FROM", "IDENTIFIER">>,
           u = Glued(a, l, c, "SEMICOLON"), NEW f, f = StarShape
    PROVE  Fits(u, f) /\ \A w : Fits(w, f) => w = u
<1>1. /\ a \in Seq(TokenType) /\ Len(a) = 1 /\ a[1] = "SELECT"
      /\ l \in Seq(TokenType) /\ Len(l) = 1 /\ l[1] = "STAR"
      /\ c \in Seq(TokenType) /\ Len(c) = 2 /\ c[1] = "FROM" /\ c[2] = "IDENTIFIER"
      /\ "SEMICOLON" \in TokenType
  BY DEF TokenType, Keyword, Punctuation
<1>2. /\ u \in Seq(TokenType) /\ Len(u) = 5 /\ u[1] = "SELECT" /\ u[2] = "STAR" /\ u[3] = "FROM"
      /\ u[4] = "IDENTIFIER" /\ u[5] = "SEMICOLON"
  <2>1. u \in Seq(TokenType) /\ Laid(a, l, c, "SEMICOLON", u)
    BY <1>1, Closed
  <2>2. Len(u) = 5 /\ u[5] = "SEMICOLON"
    <3>1. Len(u) = Len(a) + Len(l) + Len(c) + 1 /\ u[Len(u)] = "SEMICOLON"
      BY <2>1, Zenon DEF Laid
    <3> QED
      BY <1>1, <3>1, SMTT(20)
  <2>3. u[1] = "SELECT" /\ u[2] = "STAR"
    BY <1>1, <2>1 DEF Laid
  <2>4. u[3] = "FROM" /\ u[4] = "IDENTIFIER"
    BY <1>1, <2>1 DEF Laid
  <2> QED
    BY <2>1, <2>2, <2>3, <2>4
<1>3. /\ Len(f) = 5 /\ f[1] = {"SELECT"} /\ f[2] = {"STAR"} /\ f[3] = {"FROM"}
      /\ f[4] = {"IDENTIFIER"} /\ f[5] = {"SEMICOLON"}
  BY StarPlaces
<1>4. Fits(u, f)
  BY <1>2, <1>3 DEF Fits
<1>5. ASSUME NEW w, Fits(w, f) PROVE w = u
  <2>1. w \in Seq(TokenType) /\ Len(w) = 5 /\ \A i \in 1 .. 5 : w[i] \in f[i]
    BY <1>3, <1>5 DEF Fits
  <2>2. \A i \in 1 .. 5 : w[i] = u[i]
    BY <1>2, <1>3, <2>1
  <2> QED
    BY <1>2, <2>1, <2>2, SeqEqual, ZenonT(40)
<1> QED
  BY <1>4, <1>5

LEMMA ShapeKinds ==
    ASSUME NEW f
    PROVE  f \in Shapes <=> \/ f = StarShape
                            \/ \E n \in 1 .. MaxColumns :
                                 f = PlainShape(n) \/ f = ListedShape(n) \/ f = SelectShape(n)
  BY ZenonT(40) DEF Shapes

LEMMA LegalKinds ==
    ASSUME NEW u
    PROVE  u \in Legal <=>
             \/ u = Glued(<<"SELECT">>, <<"STAR">>, <<"FROM", "IDENTIFIER">>, "SEMICOLON")
             \/ \E n \in 1 .. MaxColumns :
                  \/ \E v \in [1 .. n -> {"NUMBER", "STRING"}] :
                       u = Glued(<<"INSERT", "INTO", "IDENTIFIER", "VALUES", "LPAREN">>,
                                 TypesInList(v), <<"RPAREN">>, "SEMICOLON")
                  \/ \E v \in [1 .. n -> {"NUMBER", "STRING"}] :
                       u = Glued(Between(<<"INSERT", "INTO", "IDENTIFIER", "LPAREN">>,
                                         TypesInList([i \in 1 .. n |-> "IDENTIFIER"]),
                                         <<"RPAREN", "VALUES", "LPAREN">>),
                                 TypesInList(v), <<"RPAREN">>, "SEMICOLON")
                  \/ \E v \in [1 .. n -> {"IDENTIFIER"}] :
                       u = Glued(<<"SELECT">>, TypesInList(v), <<"FROM", "IDENTIFIER">>, "SEMICOLON")
<1> DEFINE B == {"NUMBER", "STRING"}
           P(v) == Between(<<"INSERT", "INTO", "IDENTIFIER", "VALUES", "LPAREN">>,
                           TypesInList(v), <<"RPAREN">>)
           L(n, v) == Between(Between(<<"INSERT", "INTO", "IDENTIFIER", "LPAREN">>,
                                      TypesInList([i \in 1 .. n |-> "IDENTIFIER"]),
                                      <<"RPAREN", "VALUES", "LPAREN">>),
                              TypesInList(v), <<"RPAREN">>)
           Q(list) == Between(<<"SELECT">>, list, <<"FROM", "IDENTIFIER">>)
           E(s) == Append(s, "SEMICOLON")
<1>1. Inserts = {P(v) : v \in OneTo(MaxColumns, B)}
                  \cup UNION {{L(n, v) : v \in [1 .. n -> B]} : n \in 1 .. MaxColumns}
  BY Zenon DEF Inserts, Between
<1>2. Selects = {Q(list) : list \in {<<"STAR">>} \cup
                                      {TypesInList(c) : c \in OneTo(MaxColumns, {"IDENTIFIER"})}}
  BY Zenon DEF Selects, Between
<1>3. /\ \A v : Glued(<<"INSERT", "INTO", "IDENTIFIER", "VALUES", "LPAREN">>,
                     TypesInList(v), <<"RPAREN">>, "SEMICOLON") = E(P(v))
      /\ \A n, v : Glued(Between(<<"INSERT", "INTO", "IDENTIFIER", "LPAREN">>,
                                TypesInList([i \in 1 .. n |-> "IDENTIFIER"]),
                                <<"RPAREN", "VALUES", "LPAREN">>),
                        TypesInList(v), <<"RPAREN">>, "SEMICOLON") = E(L(n, v))
      /\ \A list : Glued(<<"SELECT">>, list, <<"FROM", "IDENTIFIER">>, "SEMICOLON") = E(Q(list))
  BY Zenon DEF Glued
<1>4. Legal = {E(s) : s \in Inserts \cup Selects}
  BY Zenon DEF Legal
<1> HIDE DEF P, L, Q, E, B
<1>5. \A s : s \in Inserts <=>
        \E n \in 1 .. MaxColumns : \E v \in [1 .. n -> B] : s = P(v) \/ s = L(n, v)
  <2> TAKE s
  <2>1. s \in Inserts <=> \/ s \in {P(v) : v \in OneTo(MaxColumns, B)}
                          \/ s \in UNION {{L(n, v) : v \in [1 .. n -> B]} : n \in 1 .. MaxColumns}
    BY <1>1, Zenon
  <2>2. s \in {P(v) : v \in OneTo(MaxColumns, B)}
          <=> \E n \in 1 .. MaxColumns : \E v \in [1 .. n -> B] : s = P(v)
    BY Zenon DEF OneTo
  <2>3. s \in UNION {{L(n, v) : v \in [1 .. n -> B]} : n \in 1 .. MaxColumns}
          <=> \E n \in 1 .. MaxColumns : \E v \in [1 .. n -> B] : s = L(n, v)
    OBVIOUS
  <2> QED
    BY <2>1, <2>2, <2>3, Zenon
<1>6. \A s : s \in Selects <=>
        \/ s = Q(<<"STAR">>)
        \/ \E n \in 1 .. MaxColumns : \E v \in [1 .. n -> {"IDENTIFIER"}] : s = Q(TypesInList(v))
  BY <1>2, Zenon DEF OneTo
<1>7. u \in Legal <=>
        \/ u = E(Q(<<"STAR">>))
        \/ \E n \in 1 .. MaxColumns :
             \/ \E v \in [1 .. n -> B] : u = E(P(v))
             \/ \E v \in [1 .. n -> B] : u = E(L(n, v))
             \/ \E v \in [1 .. n -> {"IDENTIFIER"}] : u = E(Q(TypesInList(v)))
  BY <1>4, <1>5, <1>6, Zenon
<1> QED
  BY <1>3, <1>7, Zenon DEF B

LEMMA LegalFits ==
    ASSUME NEW u \in Legal
    PROVE  \E f \in Shapes : Fits(u, f)
<1>1. \A n \in 1 .. MaxColumns : n \in Nat \ {0}
  BY MaxColumnsAssumption
<1>2. CASE u = Glued(<<"SELECT">>, <<"STAR">>, <<"FROM", "IDENTIFIER">>, "SEMICOLON")
  <2>1. PICK a, l, c, f : /\ a = <<"SELECT">> /\ l = <<"STAR">> /\ c = <<"FROM", "IDENTIFIER">>
                          /\ f = StarShape
    OBVIOUS
  <2>2. u = Glued(a, l, c, "SEMICOLON")
    BY <1>2, <2>1, Zenon
  <2>3. Fits(u, f)
    BY <2>1, <2>2, StarLaid
  <2> QED
    BY <2>1, <2>3, ShapeKinds, Zenon
<1>3. ASSUME NEW n \in 1 .. MaxColumns, NEW v \in [1 .. n -> {"NUMBER", "STRING"}],
             u = Glued(<<"INSERT", "INTO", "IDENTIFIER", "VALUES", "LPAREN">>,
                       TypesInList(v), <<"RPAREN">>, "SEMICOLON")
      PROVE  \E f \in Shapes : Fits(u, f)
  <2>1. PICK a, l, c, f :
          /\ a = <<"INSERT", "INTO", "IDENTIFIER", "VALUES", "LPAREN">> /\ l = TypesInList(v)
          /\ c = <<"RPAREN">> /\ f = PlainShape(n)
    OBVIOUS
  <2>2. u = Glued(a, l, c, "SEMICOLON") /\ n \in Nat \ {0}
    BY <1>1, <1>3, <2>1, Zenon
  <2>3. Fits(u, f)
    BY <2>1, <2>2, PlainLaid
  <2> QED
    BY <2>1, <2>3, ShapeKinds, Zenon
<1>4. ASSUME NEW n \in 1 .. MaxColumns, NEW v \in [1 .. n -> {"NUMBER", "STRING"}],
             u = Glued(Between(<<"INSERT", "INTO", "IDENTIFIER", "LPAREN">>,
                               TypesInList([i \in 1 .. n |-> "IDENTIFIER"]),
                               <<"RPAREN", "VALUES", "LPAREN">>),
                       TypesInList(v), <<"RPAREN">>, "SEMICOLON")
      PROVE  \E f \in Shapes : Fits(u, f)
  <2>0. PICK x : x = [i \in 1 .. n |-> "IDENTIFIER"]
    OBVIOUS
  <2>1. PICK a, b, c, d, l, m, f :
          /\ m = TypesInList(x) /\ l = TypesInList(v)
          /\ b = <<"INSERT", "INTO", "IDENTIFIER", "LPAREN">>
          /\ d = <<"RPAREN", "VALUES", "LPAREN">> /\ a = Between(b, m, d)
          /\ c = <<"RPAREN">> /\ f = ListedShape(n)
    OBVIOUS
  <2>2. u = Glued(a, l, c, "SEMICOLON") /\ n \in Nat \ {0}
    BY <1>1, <1>4, <2>0, <2>1, Zenon
  <2>3. x \in [1 .. n -> {"IDENTIFIER"}]
    BY <2>0
  <2>4. Fits(u, f)
    BY <2>1, <2>2, <2>3, ListedLaid
  <2> QED
    BY <2>1, <2>4, ShapeKinds, Zenon
<1>5. ASSUME NEW n \in 1 .. MaxColumns, NEW v \in [1 .. n -> {"IDENTIFIER"}],
             u = Glued(<<"SELECT">>, TypesInList(v), <<"FROM", "IDENTIFIER">>, "SEMICOLON")
      PROVE  \E f \in Shapes : Fits(u, f)
  <2>1. PICK a, l, c, f : /\ a = <<"SELECT">> /\ l = TypesInList(v)
                          /\ c = <<"FROM", "IDENTIFIER">> /\ f = SelectShape(n)
    OBVIOUS
  <2>2. u = Glued(a, l, c, "SEMICOLON") /\ n \in Nat \ {0}
    BY <1>1, <1>5, <2>1, Zenon
  <2>3. Fits(u, f)
    BY <2>1, <2>2, SelectLaid
  <2> QED
    BY <2>1, <2>3, ShapeKinds, Zenon
<1> QED
  BY <1>2, <1>3, <1>4, <1>5, LegalKinds, Zenon

LEMMA FitsLegal ==
    ASSUME NEW f \in Shapes, NEW u, Fits(u, f)
    PROVE  u \in Legal
<1> DEFINE S == {"NUMBER", "STRING"}
           T == {"IDENTIFIER"}
<1>1. \A n \in 1 .. MaxColumns : n \in Nat \ {0} /\ 2 * n + 6 \in Nat
  BY MaxColumnsAssumption
<1>2. /\ u \in Seq(TokenType) /\ Len(u) = Len(f) /\ \A i \in 1 .. Len(f) : u[i] \in f[i]
      /\ S \in SUBSET TokenType /\ T \in SUBSET TokenType /\ 1 \in Nat /\ 4 \in Nat /\ 5 \in Nat
  BY DEF Fits, TokenType
<1>3. CASE f = StarShape
  <2>1. PICK a, l, c, w : /\ a = <<"SELECT">> /\ l = <<"STAR">> /\ c = <<"FROM", "IDENTIFIER">>
                          /\ w = Glued(a, l, c, "SEMICOLON")
    OBVIOUS
  <2>2. u = w
    BY <1>3, <2>1, StarLaid
  <2> QED
    BY <2>1, <2>2, LegalKinds, Zenon
<1>4. ASSUME NEW n \in 1 .. MaxColumns, f = PlainShape(n) PROVE u \in Legal
  <2>1. PlainAt(n, f) /\ n \in Nat \ {0}
    BY <1>1, <1>4, PlainPlaces
  <2>2. \A k \in 1 .. 2 * n - 1 : 5 + k \in 1 .. Len(f)
    BY <2>1 DEF PlainAt
  <2>3. ListIn(u, 5, n, S)
    <3>1. ASSUME NEW k \in 1 .. 2 * n - 1 PROVE u[5 + k] \in Alternate(k, S)
      <4>1. f[5 + k] = Alternate(k, S)
        BY <2>1, Zenon DEF PlainAt
      <4> QED
        BY <1>2, <2>2, <4>1, Zenon
    <3> QED
      BY <3>1, Zenon DEF ListIn
  <2> HIDE DEF S
  <2>4. PICK v \in [1 .. n -> S] : IsList(u, 5, n, TypesInList(v))
    BY <1>2, <2>1, <2>3, ListOfTypes
  <2>5. PICK a, l, c, w :
          /\ a = <<"INSERT", "INTO", "IDENTIFIER", "VALUES", "LPAREN">> /\ l = TypesInList(v)
          /\ c = <<"RPAREN">> /\ w = Glued(a, l, c, "SEMICOLON")
    OBVIOUS
  <2>6. v \in [1 .. n -> {"NUMBER", "STRING"}] /\ IsList(u, 5, n, l)
    BY <2>4, <2>5, Zenon DEF S
  <2>7. u = w
    BY <1>4, <2>1, <2>5, <2>6, PlainLaid
  <2> QED
    BY <2>5, <2>6, <2>7, LegalKinds, Zenon
<1>5. ASSUME NEW n \in 1 .. MaxColumns, f = ListedShape(n) PROVE u \in Legal
  <2>1. ListedAt(n, f) /\ n \in Nat \ {0} /\ 2 * n + 6 \in Nat
    BY <1>1, <1>5, ListedPlaces
  <2>2. \A k \in 1 .. 2 * n - 1 : 4 + k \in 1 .. Len(f) /\ 2 * n + 6 + k \in 1 .. Len(f)
    BY <2>1 DEF ListedAt
  <2>3. ListIn(u, 4, n, T) /\ ListIn(u, 2 * n + 6, n, S)
    <3>1. ASSUME NEW k \in 1 .. 2 * n - 1
          PROVE  u[4 + k] \in Alternate(k, T) /\ u[2 * n + 6 + k] \in Alternate(k, S)
      <4>1. f[4 + k] = Alternate(k, T) /\ f[2 * n + 6 + k] = Alternate(k, S)
        BY <2>1, Zenon DEF ListedAt
      <4> QED
        BY <1>2, <2>2, <4>1, Zenon
    <3> QED
      BY <3>1, Zenon DEF ListIn
  <2> HIDE DEF S, T
  <2>4. PICK v \in [1 .. n -> S] : IsList(u, 2 * n + 6, n, TypesInList(v))
    BY <1>2, <2>1, <2>3, ListOfTypes
  <2>5. PICK x \in [1 .. n -> T] : IsList(u, 4, n, TypesInList(x))
    BY <1>2, <2>1, <2>3, ListOfTypes
  <2>6. x = [i \in 1 .. n |-> "IDENTIFIER"]
    BY DEF T
  <2>7. PICK a, b, c, d, l, m, w :
          /\ m = TypesInList(x) /\ l = TypesInList(v)
          /\ b = <<"INSERT", "INTO", "IDENTIFIER", "LPAREN">>
          /\ d = <<"RPAREN", "VALUES", "LPAREN">> /\ a = Between(b, m, d)
          /\ c = <<"RPAREN">> /\ w = Glued(a, l, c, "SEMICOLON")
    OBVIOUS
  <2>8. /\ v \in [1 .. n -> {"NUMBER", "STRING"}] /\ IsList(u, 2 * n + 6, n, l)
        /\ x \in [1 .. n -> {"IDENTIFIER"}] /\ IsList(u, 4, n, m)
    BY <2>4, <2>5, <2>7, Zenon DEF S, T
  <2>9. u = w
    BY <1>5, <2>1, <2>7, <2>8, ListedLaid, SMTT(20)
  <2> QED
    BY <2>6, <2>7, <2>8, <2>9, LegalKinds, Zenon
<1>6. ASSUME NEW n \in 1 .. MaxColumns, f = SelectShape(n) PROVE u \in Legal
  <2>1. SelectAt(n, f) /\ n \in Nat \ {0}
    BY <1>1, <1>6, SelectPlaces
  <2>2. \A k \in 1 .. 2 * n - 1 : 1 + k \in 1 .. Len(f)
    BY <2>1 DEF SelectAt
  <2>3. ListIn(u, 1, n, T)
    <3>1. ASSUME NEW k \in 1 .. 2 * n - 1 PROVE u[1 + k] \in Alternate(k, T)
      <4>1. f[1 + k] = Alternate(k, T)
        BY <2>1, Zenon DEF SelectAt
      <4> QED
        BY <1>2, <2>2, <4>1, Zenon
    <3> QED
      BY <3>1, Zenon DEF ListIn
  <2> HIDE DEF T
  <2>4. PICK v \in [1 .. n -> T] : IsList(u, 1, n, TypesInList(v))
    BY <1>2, <2>1, <2>3, ListOfTypes
  <2>5. PICK a, l, c, w :
          /\ a = <<"SELECT">> /\ l = TypesInList(v)
          /\ c = <<"FROM", "IDENTIFIER">> /\ w = Glued(a, l, c, "SEMICOLON")
    OBVIOUS
  <2>6. v \in [1 .. n -> {"IDENTIFIER"}] /\ IsList(u, 1, n, l)
    BY <2>4, <2>5, Zenon DEF T
  <2>7. u = w
    BY <1>6, <2>1, <2>5, <2>6, SelectLaid
  <2> QED
    BY <2>5, <2>6, <2>7, LegalKinds, Zenon
<1> QED
  BY <1>3, <1>4, <1>5, <1>6, ShapeKinds, Zenon

(* A statement ends with its only semicolon and has no end marker.         *)
LEMMA ShapeFacts ==
    ASSUME NEW f \in Shapes
    PROVE  /\ Len(f) \in Nat \ {0} /\ f[Len(f)] = {"SEMICOLON"}
           /\ \A i \in 1 .. Len(f) : /\ f[i] \in SUBSET (TokenType \ {"EOF"}) /\ f[i] # {}
                                     /\ i < Len(f) => "SEMICOLON" \notin f[i]
           /\ f[1] = {"INSERT"} \/ f[1] = {"SELECT"}
<1> DEFINE Good(x) == /\ x \in SUBSET (TokenType \ {"EOF"}) /\ x # {} /\ "SEMICOLON" \notin x
           S == {"NUMBER", "STRING"}
           T == {"IDENTIFIER"}
<1>1. /\ \A k \in Int : Good(Alternate(k, S)) /\ Good(Alternate(k, T))
      /\ \A x \in Keyword \cup Punctuation \cup {"IDENTIFIER"} : x # "SEMICOLON" => Good({x})
  BY DEF Alternate, TokenType, Keyword, Punctuation
<1>2. /\ \A x \in {"INSERT", "INTO", "VALUES", "SELECT", "FROM", "IDENTIFIER", "LPAREN", "RPAREN",
                   "STAR"} : Good({x})
  BY <1>1 DEF Keyword, Punctuation
<1> HIDE DEF Good, S, T
<1>3. ASSUME Len(f) \in Nat \ {0}, f[Len(f)] = {"SEMICOLON"},
             \A i \in 1 .. Len(f) : i < Len(f) => Good(f[i])
      PROVE  \A i \in 1 .. Len(f) : /\ f[i] \in SUBSET (TokenType \ {"EOF"}) /\ f[i] # {}
                                    /\ i < Len(f) => "SEMICOLON" \notin f[i]
  <2> TAKE i \in 1 .. Len(f)
  <2>1. CASE i < Len(f)
    BY <1>3, <2>1 DEF Good
  <2>2. CASE i = Len(f)
    BY <1>3, <2>2 DEF TokenType, Punctuation
  <2> QED
    BY <1>3, <2>1, <2>2
<1>4. CASE f = StarShape
  <2>1. /\ Len(f) = 5 /\ f[1] = {"SELECT"} /\ f[2] = {"STAR"} /\ f[3] = {"FROM"}
        /\ f[4] = {"IDENTIFIER"} /\ f[5] = {"SEMICOLON"}
    BY <1>4, StarPlaces
  <2>2. Good(f[1]) /\ Good(f[2]) /\ Good(f[3]) /\ Good(f[4])
    BY <1>2, <2>1
  <2>3. \A i \in 1 .. Len(f) : i < Len(f) => Good(f[i])
    BY <2>1, <2>2
  <2> QED
    BY <1>3, <2>1, <2>3
<1>5. ASSUME NEW n \in 1 .. MaxColumns, f = PlainShape(n)
      PROVE  /\ Len(f) \in Nat \ {0} /\ f[Len(f)] = {"SEMICOLON"} /\ f[1] = {"INSERT"}
             /\ \A i \in 1 .. Len(f) : i < Len(f) => Good(f[i])
  <2>1. n \in Nat \ {0} /\ PlainAt(n, f)
    BY <1>5, PlainPlaces, MaxColumnsAssumption
  <2>2. /\ Len(f) = 2 * n + 6 /\ f[1] = {"INSERT"} /\ f[2 * n + 6] = {"SEMICOLON"}
    BY <2>1 DEF PlainAt
  <2>3. \A i \in {1, 2, 3, 4, 5} : Good(f[i])
    BY <1>2, <2>1, ZenonT(40) DEF PlainAt
  <2>4. Good(f[2 * n + 5])
    BY <1>2, <2>1 DEF PlainAt
  <2>5. \A k \in 1 .. 2 * n - 1 : Good(f[5 + k])
    BY <1>1, <2>1 DEF PlainAt, S
  <2>6. \A i \in 1 .. Len(f) : i < Len(f) => Good(f[i])
    <3> SUFFICES ASSUME NEW i \in 1 .. Len(f), i < Len(f) PROVE Good(f[i])
      OBVIOUS
    <3>1. \/ i \in 1 .. 5 \/ i \in {2 * n + 5, 2 * n + 6} \/ \E k \in 1 .. 2 * n - 1 : i = 5 + k
      BY <2>1, Zenon DEF PlainAt
    <3>2. i \in {1, 2, 3, 4, 5} \/ i = 2 * n + 5 \/ \E k \in 1 .. 2 * n - 1 : i = 5 + k
      BY <2>2, <3>1
    <3> QED
      BY <2>3, <2>4, <2>5, <3>2, Zenon
  <2>7. Len(f) \in Nat \ {0}
    BY <2>1, <2>2
  <2> QED
    BY <2>2, <2>6, <2>7
<1>6. ASSUME NEW n \in 1 .. MaxColumns, f = ListedShape(n)
      PROVE  /\ Len(f) \in Nat \ {0} /\ f[Len(f)] = {"SEMICOLON"} /\ f[1] = {"INSERT"}
             /\ \A i \in 1 .. Len(f) : i < Len(f) => Good(f[i])
  <2>1. n \in Nat \ {0} /\ ListedAt(n, f)
    BY <1>6, ListedPlaces, MaxColumnsAssumption
  <2>2. /\ Len(f) = 4 * n + 7 /\ f[1] = {"INSERT"} /\ f[4 * n + 7] = {"SEMICOLON"}
    BY <2>1 DEF ListedAt
  <2>3. \A i \in {1, 2, 3, 4} : Good(f[i])
    BY <1>2, <2>1, ZenonT(40) DEF ListedAt
  <2>4. Good(f[2 * n + 4]) /\ Good(f[2 * n + 5]) /\ Good(f[2 * n + 6]) /\ Good(f[4 * n + 6])
    BY <1>2, <2>1 DEF ListedAt
  <2>5. ASSUME NEW k \in 1 .. 2 * n - 1 PROVE Good(f[4 + k]) /\ Good(f[2 * n + 6 + k])
    <3>1. f[4 + k] = Alternate(k, T) /\ f[2 * n + 6 + k] = Alternate(k, S)
      BY <2>1, Zenon DEF ListedAt, S, T
    <3>2. k \in Int
      OBVIOUS
    <3> QED
      BY <1>1, <3>1, <3>2, Zenon
  <2>6. \A i \in 1 .. Len(f) : i < Len(f) => Good(f[i])
    <3> SUFFICES ASSUME NEW i \in 1 .. Len(f), i < Len(f) PROVE Good(f[i])
      OBVIOUS
    <3>1. \/ i \in 1 .. 4 \/ i \in {2 * n + 4, 2 * n + 5, 2 * n + 6, 4 * n + 6, 4 * n + 7}
          \/ \E k \in 1 .. 2 * n - 1 : i = 4 + k
          \/ \E k \in 1 .. 2 * n - 1 : i = 2 * n + 6 + k
      BY <2>1, Zenon DEF ListedAt
    <3>2. \/ i \in {1, 2, 3, 4} \/ i \in {2 * n + 4, 2 * n + 5, 2 * n + 6, 4 * n + 6}
          \/ \E k \in 1 .. 2 * n - 1 : i = 4 + k
          \/ \E k \in 1 .. 2 * n - 1 : i = 2 * n + 6 + k
      BY <2>2, <3>1
    <3> QED
      BY <2>3, <2>4, <2>5, <3>2, Zenon
  <2>7. Len(f) \in Nat \ {0}
    BY <2>1, <2>2
  <2> QED
    BY <2>2, <2>6, <2>7
<1>7. ASSUME NEW n \in 1 .. MaxColumns, f = SelectShape(n)
      PROVE  /\ Len(f) \in Nat \ {0} /\ f[Len(f)] = {"SEMICOLON"} /\ f[1] = {"SELECT"}
             /\ \A i \in 1 .. Len(f) : i < Len(f) => Good(f[i])
  <2>1. n \in Nat \ {0} /\ SelectAt(n, f)
    BY <1>7, SelectPlaces, MaxColumnsAssumption
  <2>2. /\ Len(f) = 2 * n + 3 /\ f[1] = {"SELECT"} /\ f[2 * n + 3] = {"SEMICOLON"}
    BY <2>1 DEF SelectAt
  <2>4. Good(f[1]) /\ Good(f[2 * n + 1]) /\ Good(f[2 * n + 2])
    BY <1>2, <2>1 DEF SelectAt
  <2>5. ASSUME NEW k \in 1 .. 2 * n - 1 PROVE Good(f[1 + k])
    <3>1. f[1 + k] = Alternate(k, T)
      BY <2>1, Zenon DEF SelectAt, T
    <3>2. k \in Int
      OBVIOUS
    <3> QED
      BY <1>1, <3>1, <3>2, Zenon
  <2>6. \A i \in 1 .. Len(f) : i < Len(f) => Good(f[i])
    <3> SUFFICES ASSUME NEW i \in 1 .. Len(f), i < Len(f) PROVE Good(f[i])
      OBVIOUS
    <3>1. \/ i \in {1, 2 * n + 1, 2 * n + 2, 2 * n + 3} \/ \E k \in 1 .. 2 * n - 1 : i = 1 + k
      BY <2>1, Zenon DEF SelectAt
    <3>2. i \in {1, 2 * n + 1, 2 * n + 2} \/ \E k \in 1 .. 2 * n - 1 : i = 1 + k
      BY <2>2, <3>1
    <3> QED
      BY <2>4, <2>5, <3>2, Zenon
  <2>7. Len(f) \in Nat \ {0}
    BY <2>1, <2>2
  <2> QED
    BY <2>2, <2>6, <2>7
<1> QED
  BY <1>3, <1>4, <1>5, <1>6, <1>7, ShapeKinds

LEMMA LegalFacts ==
    ASSUME NEW u \in Legal
    PROVE  /\ u \in Seq(TokenType) /\ Len(u) \in Nat \ {0} /\ u[Len(u)] = "SEMICOLON"
           /\ \A i \in 1 .. Len(u) : u[i] # "EOF" /\ (i < Len(u) => u[i] # "SEMICOLON")
<1>1. PICK f \in Shapes : Fits(u, f)
  BY LegalFits
<1>2. u \in Seq(TokenType) /\ Len(u) = Len(f) /\ \A i \in 1 .. Len(f) : u[i] \in f[i]
  BY <1>1 DEF Fits
<1>3. /\ Len(f) \in Nat \ {0} /\ f[Len(f)] = {"SEMICOLON"}
      /\ \A i \in 1 .. Len(f) : f[i] \in SUBSET (TokenType \ {"EOF"})
      /\ \A i \in 1 .. Len(f) : i < Len(f) => "SEMICOLON" \notin f[i]
  BY ShapeFacts
<1>4. ASSUME NEW i \in 1 .. Len(f) PROVE u[i] # "EOF" /\ (i < Len(f) => u[i] # "SEMICOLON")
  BY <1>2, <1>3
<1>5. Len(f) \in 1 .. Len(f)
  BY <1>3
<1>6. u[Len(f)] = "SEMICOLON"
  BY <1>2, <1>3, <1>5
<1> QED
  BY <1>2, <1>3, <1>4, <1>6

(* The sentences of the grammar, and their beginnings, place by place.     *)
WithEnd(flat, e) == flat \o <<e>>
Ends(flat, e, s) == /\ Len(s) = Len(flat) + 1 /\ Len(flat) \in Nat /\ s[Len(s)] = e
                    /\ \A k \in 1 .. Len(flat) : s[k] = flat[k]

LEMMA SentenceOf ==
    ASSUME NEW s
    PROVE  s \in Sentences <=>
             \E p \in Seq(Legal) : /\ Len(p) \in 1 .. MaxStatements
                                   /\ s = WithEnd(FlattenSeq(p), "EOF")
<1>1. \A p : p \in OneTo(MaxStatements, Legal)
               <=> \E n \in 1 .. MaxStatements : p \in [1 .. n -> Legal]
  BY DEF OneTo
<1>2. ASSUME NEW p, NEW n \in 1 .. MaxStatements, p \in [1 .. n -> Legal]
      PROVE  p \in Seq(Legal) /\ Len(p) \in 1 .. MaxStatements
  <2>1. n \in Nat
    BY ParserAssumption
  <2> QED
    BY <1>2, <2>1, FunctionIsSeq
<1>3. ASSUME NEW p \in Seq(Legal), Len(p) \in 1 .. MaxStatements
      PROVE  \E n \in 1 .. MaxStatements : p \in [1 .. n -> Legal]
  <2>1. p \in [1 .. Len(p) -> Legal]
    BY LenProperties
  <2> QED
    BY <1>3, <2>1
<1>4. \A p : p \in OneTo(MaxStatements, Legal)
               <=> p \in Seq(Legal) /\ Len(p) \in 1 .. MaxStatements
  BY <1>1, <1>2, <1>3, Zenon
<1>5. s \in Sentences
        <=> \E p \in OneTo(MaxStatements, Legal) : s = WithEnd(FlattenSeq(p), "EOF")
  BY Zenon DEF Sentences, WithEnd
<1> QED
  BY <1>4, <1>5, Zenon

LEMMA Closing ==
    ASSUME NEW S, NEW flat \in Seq(S), NEW e \in S, NEW s, s = WithEnd(flat, e)
    PROVE  s \in Seq(S) /\ Ends(flat, e, s)
<1>1. s = flat \o <<e>>
  BY DEF WithEnd
<1>2. /\ s \in Seq(S) /\ Len(s) = Len(flat) + 1 /\ Len(flat) \in Nat /\ s[Len(flat) + 1] = e
      /\ \A k \in 1 .. Len(flat) : s[k] = flat[k]
  BY <1>1, Ended
<1> QED
  BY <1>2 DEF Ends

LEMMA SentencePlaces ==
    ASSUME NEW p \in Seq(Legal), p # <<>>, NEW s, s = WithEnd(FlattenSeq(p), "EOF")
    PROVE  /\ s \in Seq(TokenType) /\ FlattenSeq(p) \in Seq(TokenType)
           /\ Len(s) = Len(FlattenSeq(p)) + 1 /\ s[Len(s)] = "EOF" /\ Len(FlattenSeq(p)) \in Nat
           /\ \A k \in 1 .. Len(FlattenSeq(p)) : s[k] = FlattenSeq(p)[k]
           /\ \E off : Spread(p, FlattenSeq(p), off)
<1>1. p \in Seq(Seq(TokenType))
  <2>1. Legal \subseteq Seq(TokenType)
    BY LegalFacts
  <2> QED
    BY <2>1
<1>2. PICK flat : flat = FlattenSeq(p)
  OBVIOUS
<1>3. flat \in Seq(TokenType) /\ \E off : Spread(p, flat, off)
  BY <1>1, <1>2, FlattenPlaces
<1>4. "EOF" \in TokenType /\ s = WithEnd(flat, "EOF")
  BY <1>2 DEF TokenType
<1>5. s \in Seq(TokenType) /\ Ends(flat, "EOF", s)
  BY <1>3, <1>4, Closing
<1> QED
  BY <1>2, <1>3, <1>5 DEF Ends

LEMMA ViableIs ==
    ASSUME NEW n \in Nat
    PROVE  TypesUpto(n) \in Viable <=>
             \E s \in Sentences : n <= Len(s) /\ \A k \in 1 .. n : s[k] = Kind(k)
<1>1. ASSUME NEW s \in Sentences
      PROVE  s \in Seq(TokenType) /\ Len(s) \in Nat
  <2>1. PICK p \in Seq(Legal) : /\ Len(p) \in 1 .. MaxStatements
                                /\ s = WithEnd(FlattenSeq(p), "EOF")
    BY SentenceOf
  <2>2. p # <<>>
    BY <2>1
  <2> QED
    BY <2>1, <2>2, SentencePlaces, LenProperties
<1>2. \A k \in 1 .. n : TypesUpto(n)[k] = Kind(k)
  BY DEF TypesUpto, Kind
<1>3. ASSUME NEW s \in Sentences, NEW m \in 0 .. Len(s), TypesUpto(n) = SubSeq(s, 1, m)
      PROVE  n <= Len(s) /\ \A k \in 1 .. n : s[k] = Kind(k)
  <2>1. PICK q : q = SubSeq(s, 1, m)
    OBVIOUS
  <2>2. q \in Seq(TokenType) /\ Len(q) = m /\ \A k \in 1 .. m : q[k] = s[k]
    BY <1>1, <2>1
  <2>3. Len(TypesUpto(n)) = n
    <3>1. TypesUpto(n) = [k \in 1 .. n |-> TypesUpto(n)[k]]
      BY DEF TypesUpto
    <3> QED
      BY <3>1, LenOfFunction
  <2>4. m = n
    BY <1>3, <2>1, <2>2, <2>3
  <2> QED
    BY <1>1, <1>2, <1>3, <2>1, <2>2, <2>4
<1>4. ASSUME NEW s \in Sentences, n <= Len(s), \A k \in 1 .. n : s[k] = Kind(k)
      PROVE  TypesUpto(n) = SubSeq(s, 1, n) /\ n \in 0 .. Len(s)
  <2>1. n \in 0 .. Len(s)
    BY <1>1, <1>4
  <2>2. PICK q : q = SubSeq(s, 1, n)
    OBVIOUS
  <2>3. q \in Seq(TokenType) /\ Len(q) = n /\ \A k \in 1 .. n : q[k] = s[k]
    BY <1>1, <2>1, <2>2
  <2>4. q = [k \in 1 .. n |-> q[k]]
    BY <2>3, LenProperties
  <2>5. q = TypesUpto(n)
    BY <1>2, <1>4, <2>3, <2>4 DEF TypesUpto, Kind
  <2> QED
    BY <2>1, <2>2, <2>5
<1>5. TypesUpto(n) \in Viable
        <=> \E s \in Sentences : \E m \in 0 .. Len(s) : TypesUpto(n) = SubSeq(s, 1, m)
  BY DEF Viable
<1> QED
  BY <1>3, <1>4, <1>5, Zenon

(* The statements that are done, up to the o-th token; and a shape that    *)
(* the k tokens behind it do not contradict.                               *)
DoneUpto(done, o) == done \in Seq(Legal) /\ o \in Nat /\ FlattenSeq(done) = TypesUpto(o)
Allows(f, o, k) == \A i \in 1 .. Len(f) : i <= k => Kind(o + i) \in f[i]

LEMMA DoneTypes ==
    ASSUME NEW done, NEW o, DoneUpto(done, o)
    PROVE  /\ done \in Seq(Seq(TokenType)) /\ Len(done) \in Nat
           /\ TypesUpto(o) \in Seq(TokenType) /\ Len(TypesUpto(o)) = o
           /\ \A k \in 1 .. o : TypesUpto(o)[k] = Kind(k)
<1>1. done \in Seq(Legal) /\ o \in Nat /\ FlattenSeq(done) = TypesUpto(o)
  BY DEF DoneUpto
<1>2. done \in Seq(Seq(TokenType)) /\ Len(done) \in Nat
  <2>1. Legal \subseteq Seq(TokenType)
    BY LegalFacts
  <2> QED
    BY <1>1, <2>1, LenProperties
<1>3. TypesUpto(o) \in Seq(TokenType)
  <2>1. PICK flat : flat = FlattenSeq(done)
    OBVIOUS
  <2>2. CASE done = <<>>
    <3>1. flat = <<>>
      BY <2>1, <2>2 DEF FlattenSeq
    <3> QED
      BY <1>1, <2>1, <3>1
  <2>3. CASE done # <<>>
    BY <1>1, <1>2, <2>1, <2>3, FlattenPlaces
  <2> QED
    BY <2>2, <2>3
<1>4. Len(TypesUpto(o)) = o
  <2>1. TypesUpto(o) = [k \in 1 .. o |-> TypesUpto(o)[k]]
    BY DEF TypesUpto
  <2> QED
    BY <1>1, <2>1, LenOfFunction
<1>5. \A k \in 1 .. o : TypesUpto(o)[k] = Kind(k)
  BY DEF TypesUpto, Kind
<1> QED
  BY <1>2, <1>3, <1>4, <1>5

LEMMA DonePlaces ==
    ASSUME NEW done, NEW o, DoneUpto(done, o)
    PROVE  \E off : Spread(done, TypesUpto(o), off)
<1>1. /\ done \in Seq(Seq(TokenType)) /\ Len(done) \in Nat /\ Len(TypesUpto(o)) = o
      /\ FlattenSeq(done) = TypesUpto(o)
  BY DoneTypes DEF DoneUpto
<1>2. CASE done # <<>>
  BY <1>1, <1>2, FlattenPlaces
<1>3. CASE done = <<>>
  <2>1. Len(done) = 0 /\ Len(TypesUpto(o)) = 0
    <3>1. FlattenSeq(done) = <<>>
      BY <1>3 DEF FlattenSeq
    <3> QED
      BY <1>1, <1>3, <3>1
  <2> DEFINE off == [n \in 0 .. 0 |-> 0]
  <2>2. off \in [0 .. 0 -> Nat] /\ off[0] = 0 /\ 1 .. 0 = {}
    OBVIOUS
  <2> HIDE DEF off
  <2>3. Spread(done, TypesUpto(o), off)
    BY <2>1, <2>2 DEF Spread
  <2> QED
    BY <2>3
<1> QED
  BY <1>2, <1>3

(* One statement more: the program that the types u go on with.            *)
LEMMA DoneNext ==
    ASSUME NEW done, NEW o, DoneUpto(done, o), NEW u \in Legal, NEW p, p = Append(done, u)
    PROVE  /\ p \in Seq(Legal) /\ Len(p) = Len(done) + 1 /\ p # <<>>
           /\ FlattenSeq(p) = TypesUpto(o) \o u
<1>1. done \in Seq(Legal) /\ FlattenSeq(done) = TypesUpto(o)
  BY DEF DoneUpto
<1>2. p \in Seq(Legal) /\ Len(p) = Len(done) + 1 /\ Len(done) \in Nat
  BY <1>1, AppendProperties, LenProperties
<1>3. FlattenSeq(p) = FlattenSeq(done) \o u
  <2>1. done \in Seq(Seq(TokenType)) /\ u \in Seq(TokenType)
    BY DoneTypes, LegalFacts
  <2> QED
    BY <2>1, FlattenAppend
<1> QED
  BY <1>1, <1>2, <1>3

(* What is done and has been read of a statement that goes on like one     *)
(* begins a legal program, if there is room for the statement ...          *)
LEMMA Continued ==
    ASSUME NEW done, NEW o, DoneUpto(done, o), Len(done) < MaxStatements,
           NEW f \in Shapes, NEW k \in 0 .. Len(f), Allows(f, o, k)
    PROVE  TypesUpto(o + k) \in Viable
<1>1. /\ Len(f) \in Nat \ {0}
      /\ \A i \in 1 .. Len(f) : f[i] \in SUBSET (TokenType \ {"EOF"}) /\ f[i] # {}
  BY ShapeFacts
<1>2. o \in Nat /\ k \in Nat /\ o + k \in Nat
  BY <1>1 DEF DoneUpto
<1> DEFINE u == [i \in 1 .. Len(f) |-> IF i <= k THEN Kind(o + i) ELSE CHOOSE t : t \in f[i]]
<1>3. \A i \in 1 .. Len(f) : u[i] \in f[i] /\ (i <= k => u[i] = Kind(o + i))
  BY <1>1 DEF Allows
<1>4. u \in [1 .. Len(f) -> TokenType]
  <2>1. u = [i \in 1 .. Len(f) |-> u[i]]
    OBVIOUS
  <2>2. \A i \in 1 .. Len(f) : u[i] \in TokenType
    BY <1>1, <1>3
  <2> HIDE DEF u
  <2> QED
    BY <2>1, <2>2
<1> HIDE DEF u
<1>5. u \in Seq(TokenType) /\ Len(u) = Len(f)
  BY <1>1, <1>4, FunctionIsSeq
<1>6. u \in Legal
  <2>1. Fits(u, f)
    BY <1>3, <1>5 DEF Fits
  <2> QED
    BY <2>1, FitsLegal
<1>7. PICK p : p = Append(done, u)
  OBVIOUS
<1>8. /\ p \in Seq(Legal) /\ Len(p) = Len(done) + 1 /\ p # <<>>
      /\ FlattenSeq(p) = TypesUpto(o) \o u
  BY <1>6, <1>7, DoneNext
<1>9. PICK flat, t : flat = FlattenSeq(p) /\ t = TypesUpto(o)
  OBVIOUS
<1>10. t \in Seq(TokenType) /\ Len(t) = o /\ \A j \in 1 .. o : t[j] = Kind(j)
  BY <1>9, DoneTypes
<1>11. flat = t \o u
  BY <1>8, <1>9
<1>12. /\ Len(flat) = o + Len(u) /\ \A j \in 1 .. o : flat[j] = t[j]
       /\ \A j \in 1 .. Len(u) : flat[o + j] = u[j]
  <2>1. t \in Seq(TokenType) /\ u \in Seq(TokenType)
    BY <1>5, <1>10
  <2>2. /\ Len(t \o u) = Len(t) + Len(u)
        /\ \A j \in 1 .. Len(t) : (t \o u)[j] = t[j]
        /\ \A j \in 1 .. Len(u) : (t \o u)[Len(t) + j] = u[j]
    BY <2>1, ConcatFacts
  <2>3. Len(t) = o
    BY <1>10
  <2> QED
    BY <1>11, <2>2, <2>3, Zenon
<1>13. PICK s : s = WithEnd(flat, "EOF")
  OBVIOUS
<1>14. Len(s) = Len(flat) + 1 /\ \A j \in 1 .. Len(flat) : s[j] = flat[j]
  BY <1>8, <1>9, <1>13, SentencePlaces
<1>15. s \in Sentences
  <2>1. Len(p) \in 1 .. MaxStatements
    BY <1>8, DoneTypes, ParserAssumption
  <2> QED
    BY <1>8, <1>9, <1>13, <2>1, SentenceOf
<1>16. o + k <= Len(s) /\ \A j \in 1 .. o + k : s[j] = Kind(j)
  <2>1. o + k <= Len(flat) /\ Len(flat) \in Nat
    BY <1>1, <1>2, <1>5, <1>12
  <2>2. ASSUME NEW j \in 1 .. o + k PROVE s[j] = Kind(j)
    <3>1. s[j] = flat[j]
      BY <1>2, <1>14, <2>1
    <3>2. CASE j <= o
      BY <1>2, <1>10, <1>12, <3>1, <3>2
    <3>3. CASE j > o
      <4>1. PICK i : i = j - o
        OBVIOUS
      <4>2. i \in 1 .. Len(u) /\ i <= k /\ o + i = j
        BY <1>1, <1>2, <1>5, <3>3, <4>1
      <4>3. flat[o + i] = u[i] /\ u[i] = Kind(o + i)
        BY <1>3, <1>5, <1>12, <4>2
      <4> QED
        BY <3>1, <4>2, <4>3
    <3> QED
      BY <1>2, <3>2, <3>3
  <2> QED
    BY <1>2, <1>14, <2>1, <2>2
<1> QED
  BY <1>2, <1>15, <1>16, ViableIs

(* ... and so does what is done; with the end marker it is one.            *)
LEMMA Completed ==
    ASSUME NEW done, NEW o, DoneUpto(done, o), done # <<>>, Len(done) <= MaxStatements
    PROVE  /\ TypesUpto(o) \in Viable
           /\ Kind(o + 1) = "EOF" => TypesUpto(o + 1) \in Sentences
<1>1. done \in Seq(Legal) /\ o \in Nat /\ FlattenSeq(done) = TypesUpto(o)
  BY DEF DoneUpto
<1>2. PICK flat, s : flat = FlattenSeq(done) /\ s = WithEnd(flat, "EOF")
  OBVIOUS
<1>3. /\ Len(flat) = o /\ \A j \in 1 .. o : flat[j] = Kind(j)
  BY <1>1, <1>2, DoneTypes
<1>4. /\ s \in Seq(TokenType) /\ Len(s) = o + 1 /\ s[o + 1] = "EOF"
      /\ \A j \in 1 .. o : s[j] = flat[j]
  BY <1>1, <1>2, <1>3, SentencePlaces
<1>5. s \in Sentences
  <2>1. Len(done) \in 1 .. MaxStatements
    <3>1. Len(done) \in Nat /\ Len(done) # 0
      BY <1>1, EmptySeq, LenProperties
    <3> QED
      BY <3>1, ParserAssumption
  <2> QED
    BY <1>1, <1>2, <2>1, SentenceOf
<1>6. TypesUpto(o) \in Viable
  <2>1. o <= Len(s) /\ \A j \in 1 .. o : s[j] = Kind(j)
    BY <1>1, <1>3, <1>4
  <2> QED
    BY <1>1, <1>5, <2>1, ViableIs
<1>7. ASSUME Kind(o + 1) = "EOF" PROVE TypesUpto(o + 1) = s
  <2>1. s = [j \in 1 .. o + 1 |-> s[j]]
    BY <1>1, <1>4, LenProperties
  <2>2. \A j \in 1 .. o + 1 : s[j] = Kind(j)
    <3> TAKE j \in 1 .. o + 1
    <3>1. j \in 1 .. o \/ j = o + 1
      BY <1>1
    <3> QED
      BY <1>3, <1>4, <1>7, <3>1
  <2> QED
    BY <2>1, <2>2 DEF TypesUpto, Kind
<1> QED
  BY <1>5, <1>6, <1>7

(* Where a statement begins, no other way to go on is legal.               *)
LEMMA SameLength ==
    ASSUME NEW u \in Legal, NEW w \in Legal,
           \A i \in 1 .. Len(u) : i <= Len(w) => u[i] = w[i]
    PROVE  Len(u) = Len(w)
<1>1. /\ Len(u) \in Nat \ {0} /\ u[Len(u)] = "SEMICOLON"
      /\ \A i \in 1 .. Len(u) : i < Len(u) => u[i] # "SEMICOLON"
  BY LegalFacts
<1>2. /\ Len(w) \in Nat \ {0} /\ w[Len(w)] = "SEMICOLON"
      /\ \A i \in 1 .. Len(w) : i < Len(w) => w[i] # "SEMICOLON"
  BY LegalFacts
<1>3. ~(Len(u) < Len(w))
  <2> SUFFICES ASSUME Len(u) < Len(w) PROVE FALSE
    OBVIOUS
  <2>1. PICK i : i = Len(u)
    OBVIOUS
  <2>2. i \in 1 .. Len(u) /\ i \in 1 .. Len(w) /\ i < Len(w) /\ i <= Len(w)
    BY <1>1, <1>2, <2>1
  <2>3. u[i] = w[i] /\ w[i] # "SEMICOLON" /\ u[i] = "SEMICOLON"
    BY <1>1, <1>2, <2>1, <2>2
  <2> QED
    BY <2>3
<1>4. ~(Len(w) < Len(u))
  <2> SUFFICES ASSUME Len(w) < Len(u) PROVE FALSE
    OBVIOUS
  <2>1. PICK i : i = Len(w)
    OBVIOUS
  <2>2. i \in 1 .. Len(u) /\ i < Len(u) /\ i <= Len(w)
    BY <1>1, <1>2, <2>1
  <2>3. u[i] = w[i] /\ u[i] # "SEMICOLON" /\ w[i] = "SEMICOLON"
    BY <1>1, <1>2, <2>1, <2>2
  <2> QED
    BY <2>3
<1> QED
  BY <1>1, <1>2, <1>3, <1>4

LEMMA SameStart ==
    ASSUME NEW done, NEW o, DoneUpto(done, o), NEW m \in Nat, o <= m,
           NEW p \in Seq(Legal), p # <<>>, m <= Len(FlattenSeq(p)) + 1,
           NEW s, s = WithEnd(FlattenSeq(p), "EOF"),
           \A k \in 1 .. m : s[k] = Kind(k),
           NEW off, Spread(p, FlattenSeq(p), off), NEW at, Spread(done, TypesUpto(o), at)
    PROVE  Len(done) <= Len(p) /\ off[Len(done)] = o
<1>1. PICK flat, t : flat = FlattenSeq(p) /\ t = TypesUpto(o)
  OBVIOUS
<1>2. /\ Len(s) = Len(flat) + 1 /\ s[Len(s)] = "EOF" /\ Len(flat) \in Nat
      /\ \A k \in 1 .. Len(flat) : s[k] = flat[k]
  BY <1>1, SentencePlaces
<1>3. /\ Len(done) \in Nat /\ Len(t) = o /\ \A k \in 1 .. o : t[k] = Kind(k)
      /\ o \in Nat /\ done \in Seq(Legal)
  BY <1>1, DoneTypes DEF DoneUpto
<1>4. Spread(p, flat, off) /\ Spread(done, t, at)
  BY <1>1
<1>5. Len(p) \in Nat /\ \A n \in 1 .. Len(p) : p[n] \in Legal
  BY ElementOfSeq, LenProperties
<1>6. \A n \in 1 .. Len(done) : done[n] \in Legal
  BY <1>3, ElementOfSeq
<1> DEFINE T == {n \in Nat : n <= Len(done) => n <= Len(p) /\ off[n] = at[n]}
<1>7. 0 \in T
  BY <1>4, <1>5 DEF Spread
<1>8. ASSUME NEW n \in Nat, n \in T PROVE n + 1 \in T
  <2> SUFFICES ASSUME n + 1 <= Len(done) PROVE n + 1 <= Len(p) /\ off[n + 1] = at[n + 1]
    OBVIOUS
  <2>1. PICK c : c = n + 1
    OBVIOUS
  <2>2. n <= Len(p) /\ off[n] = at[n] /\ c \in 1 .. Len(done) /\ c - 1 = n
    BY <1>3, <1>8, <2>1
  <2>3. PICK b : b = at[n]
    OBVIOUS
  <2>4. PICK w : w = done[c]
    OBVIOUS
  <2>5. /\ b \in Nat /\ at[c] = b + Len(w) /\ at[c] <= o
        /\ \A j \in 1 .. Len(w) : t[b + j] = w[j]
    <3>1. n \in 0 .. Len(done)
      BY <1>3, <2>1, <2>2
    <3>2. at[n] \in Nat
      BY <1>4, <3>1 DEF Spread
    <3>3. /\ at[c] = at[c - 1] + Len(done[c]) /\ at[c] <= Len(t)
          /\ \A j \in 1 .. Len(done[c]) : t[at[c - 1] + j] = done[c][j]
      BY <1>4, <2>2, Zenon DEF Spread
    <3> QED
      BY <1>3, <2>2, <2>3, <2>4, <3>2, <3>3
  <2>6. /\ w \in Legal /\ Len(w) \in Nat \ {0}
        /\ \A i \in 1 .. Len(w) : w[i] # "EOF"
    BY <1>6, <2>2, <2>4, LegalFacts
  <2>7. \A j \in 1 .. Len(w) : b + j \in 1 .. o /\ b + j \in 1 .. m /\ Kind(b + j) = w[j]
    <3> TAKE j \in 1 .. Len(w)
    <3>1. b + j \in 1 .. o
      BY <1>3, <2>5, <2>6
    <3>2. b + j \in 1 .. m
      BY <1>3, <3>1
    <3> QED
      BY <1>3, <2>5, <3>1, <3>2
  <2>8. c <= Len(p)
    <3> SUFFICES ASSUME ~(c <= Len(p)) PROVE FALSE
      OBVIOUS
    <3>1. n = Len(p)
      BY <1>5, <2>1, <2>2
    <3>2. b = Len(flat)
      BY <1>4, <2>2, <2>3, <3>1 DEF Spread
    <3>3. 1 \in 1 .. Len(w)
      BY <2>6
    <3>4. s[b + 1] = "EOF"
      BY <1>2, <3>2
    <3>5. s[b + 1] = Kind(b + 1) /\ Kind(b + 1) = w[1]
      BY <2>7, <3>3
    <3> QED
      BY <2>6, <3>3, <3>4, <3>5
  <2>9. PICK u : u = p[c]
    OBVIOUS
  <2>10. /\ c \in 1 .. Len(p) /\ off[c] = b + Len(u) /\ off[c] <= Len(flat)
         /\ \A j \in 1 .. Len(u) : flat[b + j] = u[j]
    <3>1. c \in 1 .. Len(p)
      BY <1>5, <2>2, <2>8
    <3>2. /\ off[c] = off[c - 1] + Len(p[c]) /\ off[c] <= Len(flat)
          /\ \A j \in 1 .. Len(p[c]) : flat[off[c - 1] + j] = p[c][j]
      BY <1>4, <3>1, Zenon DEF Spread
    <3> QED
      BY <2>2, <2>3, <2>9, <3>1, <3>2
  <2>11. u \in Legal /\ Len(u) \in Nat \ {0}
    BY <1>5, <2>9, <2>10, LegalFacts
  <2>12. ASSUME NEW i \in 1 .. Len(u), i <= Len(w) PROVE u[i] = w[i]
    <3>1. i \in 1 .. Len(w)
      BY <2>6, <2>11, <2>12
    <3>2. b + i \in 1 .. Len(flat)
      BY <1>2, <2>5, <2>10, <2>11
    <3>3. flat[b + i] = u[i] /\ s[b + i] = flat[b + i]
      BY <1>2, <2>10, <3>2
    <3>4. s[b + i] = Kind(b + i) /\ Kind(b + i) = w[i]
      BY <2>7, <3>1
    <3> QED
      BY <3>3, <3>4
  <2>13. Len(u) = Len(w)
    BY <2>6, <2>11, <2>12, SameLength
  <2> QED
    BY <2>1, <2>5, <2>8, <2>10, <2>13
<1> HIDE DEF T
<1>9. \A n \in Nat : n \in T
  BY <1>7, <1>8, Induction
<1>10. Len(done) <= Len(p) /\ off[Len(done)] = at[Len(done)]
  BY <1>3, <1>9 DEF T
<1>11. at[Len(done)] = o
  BY <1>3, <1>4 DEF Spread
<1> QED
  BY <1>10, <1>11

LEMMA Confined ==
    ASSUME NEW done, NEW o, DoneUpto(done, o), NEW k \in Nat, TypesUpto(o + k + 1) \in Viable
    PROVE  \/ k = 0 /\ done # <<>> /\ Kind(o + 1) = "EOF"
           \/ Len(done) < MaxStatements /\ \E f \in Shapes : Allows(f, o, k + 1)
<1>1. o \in Nat /\ o + k + 1 \in Nat /\ Len(done) \in Nat
  BY DoneTypes DEF DoneUpto
<1>2. PICK m : m = o + k + 1
  OBVIOUS
<1>3. PICK s \in Sentences : m <= Len(s) /\ \A j \in 1 .. m : s[j] = Kind(j)
  BY <1>1, <1>2, ViableIs
<1>4. PICK p \in Seq(Legal) : Len(p) \in 1 .. MaxStatements /\ s = WithEnd(FlattenSeq(p), "EOF")
  BY SentenceOf
<1>5. p # <<>> /\ Len(p) \in Nat \ {0} /\ \A n \in 1 .. Len(p) : p[n] \in Legal
  BY <1>4, ElementOfSeq
<1>6. PICK flat : flat = FlattenSeq(p)
  OBVIOUS
<1>7. /\ Len(s) = Len(flat) + 1 /\ s[Len(s)] = "EOF" /\ Len(flat) \in Nat
      /\ \A j \in 1 .. Len(flat) : s[j] = flat[j]
      /\ \E off : Spread(p, flat, off)
  BY <1>4, <1>5, <1>6, SentencePlaces
<1>8. PICK off : Spread(p, flat, off)
  BY <1>7
<1>9. PICK at : Spread(done, TypesUpto(o), at)
  BY DonePlaces
<1>10. Len(done) <= Len(p) /\ off[Len(done)] = o
  <2>1. o <= m /\ m \in Nat /\ m <= Len(FlattenSeq(p)) + 1
    BY <1>1, <1>2, <1>3, <1>6, <1>7
  <2> QED
    BY <1>3, <1>4, <1>5, <1>6, <1>8, <1>9, <2>1, SameStart
<1>11. CASE Len(done) = Len(p)
  <2>1. o = Len(flat)
    BY <1>8, <1>10, <1>11 DEF Spread
  <2>2. k = 0 /\ m = o + 1
    BY <1>1, <1>2, <1>3, <1>7, <2>1
  <2>3. Kind(o + 1) = "EOF"
    BY <1>1, <1>3, <1>7, <2>1, <2>2
  <2>4. done # <<>>
    BY <1>5, <1>11
  <2> QED
    BY <2>2, <2>3, <2>4
<1>12. CASE Len(done) # Len(p)
  <2>1. Len(done) < MaxStatements
    BY <1>1, <1>4, <1>5, <1>10, <1>12, ParserAssumption
  <2>2. PICK c, u : c = Len(done) + 1 /\ u = p[c]
    OBVIOUS
  <2>3. c \in 1 .. Len(p) /\ c - 1 = Len(done)
    BY <1>1, <1>5, <1>10, <1>12, <2>2
  <2>4. /\ off[c] = o + Len(u) /\ off[c] <= Len(flat)
        /\ \A j \in 1 .. Len(u) : flat[o + j] = u[j]
    <3>1. /\ off[c] = off[c - 1] + Len(p[c]) /\ off[c] <= Len(flat)
          /\ \A j \in 1 .. Len(p[c]) : flat[off[c - 1] + j] = p[c][j]
      BY <1>8, <2>3, Zenon DEF Spread
    <3> QED
      BY <1>10, <2>2, <2>3, <3>1
  <2>5. u \in Legal
    BY <1>5, <2>2, <2>3
  <2>6. Len(u) \in Nat
    BY <2>5, LegalFacts
  <2>7. PICK f \in Shapes : Fits(u, f)
    BY <2>5, LegalFits
  <2>8. Len(u) = Len(f) /\ \A i \in 1 .. Len(f) : u[i] \in f[i]
    BY <2>7 DEF Fits
  <2>9. ASSUME NEW i \in 1 .. Len(f), i <= k + 1 PROVE Kind(o + i) \in f[i]
    <3>1. i \in 1 .. Len(u) /\ o + i \in 1 .. m /\ o + i \in 1 .. Len(flat)
      BY <1>1, <1>2, <1>7, <2>4, <2>6, <2>8, <2>9
    <3>2. s[o + i] = Kind(o + i) /\ s[o + i] = flat[o + i] /\ flat[o + i] = u[i]
      BY <1>3, <1>7, <2>4, <3>1
    <3> QED
      BY <2>8, <3>2
  <2>10. Allows(f, o, k + 1)
    BY <2>9 DEF Allows
  <2> QED
    BY <2>1, <2>10
<1> QED
  BY <1>11, <1>12

-----------------------------------------------------------------------------
(* A list in a shape f: n elements from S behind the b-th place, and z     *)
(* behind them.                                                            *)
ListAt(f, b, n, S, z) ==
    /\ n \in Nat \ {0} /\ b \in Nat /\ Len(f) \in Nat /\ b + 2 * n <= Len(f)
    /\ \A k \in 1 .. 2 * n - 1 : f[b + k] = Alternate(k, S)
    /\ f[b + 2 * n] = {z} /\ z # "COMMA"

LEMMA Extended ==
    ASSUME NEW f, NEW o \in Nat, NEW k \in Nat, Allows(f, o, k), Len(f) \in Nat,
           Kind(o + k + 1) \in f[k + 1]
    PROVE  Allows(f, o, k + 1)
<1>1. ASSUME NEW i \in 1 .. Len(f), i <= k + 1
      PROVE  Kind(o + i) \in f[i]
  <2>1. CASE i <= k
    BY <2>1 DEF Allows
  <2>2. CASE i = k + 1
    BY <2>2
  <2> QED
    BY <1>1, <2>1, <2>2
<1> QED
  BY <1>1 DEF Allows

LEMMA ListExtended ==
    ASSUME NEW f, NEW b, NEW n, NEW S, NEW z, ListAt(f, b, n, S, z),
           NEW o \in Nat, Allows(f, o, b), NEW j \in 0 .. 2 * n - 1, Alternating(o + b, j, S)
    PROVE  Allows(f, o, b + j)
<1>1. n \in Nat \ {0} /\ b \in Nat /\ Len(f) \in Nat
  BY DEF ListAt
<1>2. ASSUME NEW i \in 1 .. Len(f), i <= b + j
      PROVE  Kind(o + i) \in f[i]
  <2>1. CASE i <= b
    BY <2>1 DEF Allows
  <2>2. CASE i > b
    <3>1. PICK k \in 1 .. j : i = b + k
      <4>1. i - b \in 1 .. j /\ i = b + (i - b)
        BY <1>1, <1>2, <2>2
      <4> QED
        BY <4>1
    <3>2. k \in 1 .. 2 * n - 1 /\ o + i = (o + b) + k
      BY <1>1, <3>1
    <3>3. Kind((o + b) + k) \in Alternate(k, S)
      BY <3>1 DEF Alternating
    <3>4. f[b + k] = Alternate(k, S)
      BY <3>2 DEF ListAt
    <3> QED
      BY <3>1, <3>2, <3>3, <3>4
  <2> QED
    BY <1>1, <2>1, <2>2
<1> QED
  BY <1>2 DEF Allows

LEMMA ListClosed ==
    ASSUME NEW f, NEW b, NEW n, NEW S, NEW z, ListAt(f, b, n, S, z),
           NEW o \in Nat, Allows(f, o, b), Alternating(o + b, 2 * n - 1, S),
           Kind(o + b + 2 * n) = z
    PROVE  Allows(f, o, b + 2 * n)
<1>1. n \in Nat \ {0} /\ b \in Nat /\ Len(f) \in Nat /\ f[b + 2 * n] = {z}
  BY DEF ListAt
<1>2. 2 * n - 1 \in 0 .. 2 * n - 1
  BY <1>1
<1>3. Allows(f, o, b + (2 * n - 1))
  BY <1>2, ListExtended
<1>4. PICK k \in Nat : k = b + (2 * n - 1) /\ b + 2 * n = k + 1 /\ o + b + 2 * n = o + k + 1
  BY <1>1
<1> QED
  BY <1>1, <1>3, <1>4, Extended

(* Where an element is due, f has one and the token is of its type ...     *)
LEMMA ElementDue ==
    ASSUME NEW f, NEW b, NEW n, NEW S, NEW z, ListAt(f, b, n, S, z),
           NEW o \in Nat, NEW m \in Nat, Alternating(o + b, 2 * m, S), Allows(f, o, b + 2 * m + 1)
    PROVE  m < n /\ Kind(o + b + 2 * m + 1) \in S
<1>1. n \in Nat \ {0} /\ b \in Nat /\ Len(f) \in Nat /\ b + 2 * n <= Len(f)
  BY DEF ListAt
<1>2. m < n
  <2> SUFFICES ASSUME n <= m PROVE FALSE
    BY <1>1
  <2>1. PICK i : i = b + 2 * n /\ i \in 1 .. Len(f) /\ i <= b + 2 * m + 1 /\ o + i = (o + b) + 2 * n
    BY <1>1
  <2>2. Kind(o + i) \in {z} /\ z # "COMMA"
    BY <2>1 DEF Allows, ListAt
  <2>3. 2 * n \in 1 .. 2 * m /\ (2 * n) % 2 = 0
    BY <1>1
  <2>4. Kind((o + b) + 2 * n) \in {"COMMA"}
    BY <2>3 DEF Alternating, Alternate
  <2> QED
    BY <2>1, <2>2, <2>4
<1>3. PICK i, k : /\ k = 2 * m + 1 /\ i = b + k /\ i \in 1 .. Len(f) /\ i <= b + 2 * m + 1
                  /\ o + b + 2 * m + 1 = o + i /\ k \in 1 .. 2 * n - 1 /\ k % 2 = 1
  BY <1>1, <1>2
<1>4. f[b + k] = Alternate(k, S)
  BY <1>3 DEF ListAt
<1>5. Alternate(k, S) = S
  BY <1>3 DEF Alternate
<1>6. Kind(o + i) \in f[i]
  BY <1>3 DEF Allows
<1> QED
  BY <1>2, <1>3, <1>4, <1>5, <1>6

(* ... and behind one stands a comma and more of them, or the end of them. *)
LEMMA EndDue ==
    ASSUME NEW f, NEW b, NEW n, NEW S, NEW z, ListAt(f, b, n, S, z),
           NEW o \in Nat, NEW m \in Nat \ {0}, Alternating(o + b, 2 * m - 1, S),
           Allows(f, o, b + 2 * m)
    PROVE  \/ m < n /\ Kind(o + b + 2 * m) = "COMMA"
           \/ m = n /\ Kind(o + b + 2 * m) = z
<1>1. n \in Nat \ {0} /\ b \in Nat /\ Len(f) \in Nat /\ b + 2 * n <= Len(f)
  BY DEF ListAt
<1>2. ~(n < m)
  <2> SUFFICES ASSUME n < m PROVE FALSE
    BY <1>1
  <2>1. PICK i : i = b + 2 * n /\ i \in 1 .. Len(f) /\ i <= b + 2 * m /\ o + i = (o + b) + 2 * n
    BY <1>1
  <2>2. Kind(o + i) \in {z} /\ z # "COMMA"
    BY <2>1 DEF Allows, ListAt
  <2>3. 2 * n \in 1 .. 2 * m - 1 /\ (2 * n) % 2 = 0
    BY <1>1
  <2>4. Kind((o + b) + 2 * n) \in {"COMMA"}
    BY <2>3 DEF Alternating, Alternate
  <2> QED
    BY <2>1, <2>2, <2>4
<1>3. PICK i : i = b + 2 * m /\ i \in 1 .. Len(f) /\ i <= b + 2 * m /\ o + i = o + b + 2 * m
  BY <1>1, <1>2
<1>4. Kind(o + i) \in f[i]
  BY <1>3 DEF Allows
<1>5. CASE m = n
  BY <1>3, <1>4, <1>5 DEF ListAt
<1>6. CASE m < n
  <2>1. PICK k : k = 2 * m /\ k \in 1 .. 2 * n - 1 /\ k % 2 = 0
    BY <1>1, <1>6
  <2>2. f[b + k] = Alternate(k, S)
    BY <2>1 DEF ListAt
  <2>3. Alternate(k, S) = {"COMMA"}
    BY <2>1 DEF Alternate
  <2> QED
    BY <1>3, <1>4, <1>6, <2>1, <2>2, <2>3
<1> QED
  BY <1>1, <1>2, <1>5, <1>6

(* The same of the shapes of the grammar: where their lists are, and what  *)
(* stands behind them.                                                     *)
OpensAt(f, h, n) ==
    /\ ListAt(f, h + 2, n, {"NUMBER", "STRING"}, "RPAREN")
    /\ Len(f) = h + 2 * n + 3 /\ f[h + 2 * n + 3] = {"SEMICOLON"}
    /\ f[h + 1] = {"VALUES"} /\ f[h + 2] = {"LPAREN"}
TailAt(f, e) ==
    /\ Len(f) = e + 3
    /\ f[e + 1] = {"FROM"} /\ f[e + 2] = {"IDENTIFIER"} /\ f[e + 3] = {"SEMICOLON"}

LEMMA PlainLists ==
    ASSUME NEW n \in Nat \ {0}, NEW f, PlainAt(n, f)
    PROVE  OpensAt(f, 3, n)
<1>1. /\ 3 + 2 = 5 /\ 5 + 2 * n = 2 * n + 5 /\ 3 + 2 * n + 3 = 2 * n + 6 /\ 3 + 1 = 4
      /\ 2 * n + 6 \in Nat /\ 5 + 2 * n <= 2 * n + 6
  OBVIOUS
<1>2. \A k \in 1 .. 2 * n - 1 : f[5 + k] = Alternate(k, {"NUMBER", "STRING"})
  BY DEF PlainAt
<1>3. /\ Len(f) = 2 * n + 6 /\ f[4] = {"VALUES"} /\ f[5] = {"LPAREN"}
      /\ f[2 * n + 5] = {"RPAREN"} /\ f[2 * n + 6] = {"SEMICOLON"}
  BY DEF PlainAt
<1>4. ListAt(f, 5, n, {"NUMBER", "STRING"}, "RPAREN")
  BY <1>1, <1>2, <1>3 DEF ListAt
<1> QED
  BY <1>1, <1>3, <1>4 DEF OpensAt

LEMMA ListedLists ==
    ASSUME NEW n \in Nat \ {0}, NEW f, ListedAt(n, f)
    PROVE  ListAt(f, 4, n, {"IDENTIFIER"}, "RPAREN") /\ OpensAt(f, 2 * n + 4, n)
<1>1. /\ 4 + 2 * n = 2 * n + 4 /\ 2 * n + 4 + 2 = 2 * n + 6 /\ 2 * n + 6 + 2 * n = 4 * n + 6
      /\ 2 * n + 4 + 2 * n + 3 = 4 * n + 7 /\ 2 * n + 4 + 1 = 2 * n + 5
      /\ 4 * n + 7 \in Nat /\ 4 * n + 6 <= 4 * n + 7 /\ 2 * n + 4 <= 4 * n + 7
      /\ 2 * n + 6 \in Nat
  OBVIOUS
<1>2. \A k \in 1 .. 2 * n - 1 : f[4 + k] = Alternate(k, {"IDENTIFIER"})
  BY DEF ListedAt
<1>3. \A k \in 1 .. 2 * n - 1 : f[2 * n + 6 + k] = Alternate(k, {"NUMBER", "STRING"})
  BY DEF ListedAt
<1>4. /\ Len(f) = 4 * n + 7
      /\ f[2 * n + 4] = {"RPAREN"} /\ f[2 * n + 5] = {"VALUES"} /\ f[2 * n + 6] = {"LPAREN"}
      /\ f[4 * n + 6] = {"RPAREN"} /\ f[4 * n + 7] = {"SEMICOLON"}
  BY DEF ListedAt
<1>5. ListAt(f, 4, n, {"IDENTIFIER"}, "RPAREN")
  BY <1>1, <1>2, <1>4 DEF ListAt
<1>6. ListAt(f, 2 * n + 6, n, {"NUMBER", "STRING"}, "RPAREN")
  BY <1>1, <1>3, <1>4 DEF ListAt
<1> QED
  BY <1>1, <1>4, <1>5, <1>6 DEF OpensAt

LEMMA SelectLists ==
    ASSUME NEW n \in Nat \ {0}, NEW f, SelectAt(n, f)
    PROVE  ListAt(f, 1, n, {"IDENTIFIER"}, "FROM") /\ TailAt(f, 2 * n)
<1>1. 1 + 2 * n = 2 * n + 1 /\ 2 * n + 3 \in Nat /\ 2 * n + 1 <= 2 * n + 3
  OBVIOUS
<1>2. \A k \in 1 .. 2 * n - 1 : f[1 + k] = Alternate(k, {"IDENTIFIER"})
  BY DEF SelectAt
<1>3. /\ Len(f) = 2 * n + 3
      /\ f[2 * n + 1] = {"FROM"} /\ f[2 * n + 2] = {"IDENTIFIER"} /\ f[2 * n + 3] = {"SEMICOLON"}
  BY DEF SelectAt
<1>4. ListAt(f, 1, n, {"IDENTIFIER"}, "FROM")
  BY <1>1, <1>2, <1>3 DEF ListAt
<1> QED
  BY <1>3, <1>4 DEF TailAt

LEMMA ShapesAre ==
    /\ StarShape \in Shapes
    /\ \A n \in 1 .. MaxColumns :
         /\ PlainShape(n) \in Shapes /\ PlainAt(n, PlainShape(n))
         /\ ListedShape(n) \in Shapes /\ ListedAt(n, ListedShape(n))
         /\ SelectShape(n) \in Shapes /\ SelectAt(n, SelectShape(n))
<1>1. StarShape \in Shapes
  BY ShapeKinds
<1>2. ASSUME NEW n \in 1 .. MaxColumns
      PROVE  /\ PlainShape(n) \in Shapes /\ PlainAt(n, PlainShape(n))
             /\ ListedShape(n) \in Shapes /\ ListedAt(n, ListedShape(n))
             /\ SelectShape(n) \in Shapes /\ SelectAt(n, SelectShape(n))
  <2>1. n \in Nat \ {0}
    BY MaxColumnsAssumption
  <2>2. /\ PlainShape(n) \in Shapes /\ ListedShape(n) \in Shapes /\ SelectShape(n) \in Shapes
    BY ShapeKinds
  <2>3. PlainAt(n, PlainShape(n))
    BY <2>1, PlainPlaces
  <2>4. ListedAt(n, ListedShape(n))
    BY <2>1, ListedPlaces
  <2>5. SelectAt(n, SelectShape(n))
    BY <2>1, SelectPlaces
  <2> QED
    BY <2>2, <2>3, <2>4, <2>5
<1> QED
  BY <1>1, <1>2

(* Which shape it is, by its first tokens.                                 *)
LEMMA ByFirst ==
    ASSUME NEW f \in Shapes, NEW o \in Nat, NEW k \in Nat \ {0}, Allows(f, o, k)
    PROVE  /\ Kind(o + 1) \in {"INSERT", "SELECT"}
           /\ Kind(o + 1) = "INSERT" => \E n \in 1 .. MaxColumns : PlainAt(n, f) \/ ListedAt(n, f)
           /\ Kind(o + 1) = "SELECT" => \/ f = StarShape
                                        \/ \E n \in 1 .. MaxColumns : SelectAt(n, f)
<1>1. Kind(o + 1) \in f[1]
  <2>1. 1 \in 1 .. Len(f) /\ 1 <= k
    BY ShapeFacts
  <2> QED
    BY <2>1 DEF Allows
<1>2. CASE f = StarShape
  BY <1>1, <1>2, StarPlaces
<1>3. ASSUME NEW n \in 1 .. MaxColumns, f = PlainShape(n) \/ f = ListedShape(n)
      PROVE  (PlainAt(n, f) \/ ListedAt(n, f)) /\ f[1] = {"INSERT"}
  <2>1. PlainAt(n, f) \/ ListedAt(n, f)
    BY <1>3, ShapesAre
  <2> QED
    BY <2>1 DEF PlainAt, ListedAt
<1>4. ASSUME NEW n \in 1 .. MaxColumns, f = SelectShape(n)
      PROVE  SelectAt(n, f) /\ f[1] = {"SELECT"}
  <2>1. SelectAt(n, f)
    BY <1>4, ShapesAre
  <2> QED
    BY <2>1 DEF SelectAt
<1> QED
  BY <1>1, <1>2, <1>3, <1>4, ShapeKinds

-----------------------------------------------------------------------------
(* What has been read of a statement s, behind the tokens of the finished  *)
(* ones: n tokens of its list of columns, or of values, and what stands    *)
(* before them.                                                            *)
Base(s) == s.where.start - 1
Height(s) == IF s.has_list THEN 2 * Len(s.columns) + 4 ELSE 3
Width(s) == IF s.all THEN 1 ELSE 2 * Len(s.columns) - 1

Headed(o) == Kind(o + 1) = "INSERT" /\ Kind(o + 2) = "INTO" /\ Kind(o + 3) = "IDENTIFIER"
Named(o, n) == Headed(o) /\ Kind(o + 4) = "LPAREN" /\ Alternating(o + 4, n, {"IDENTIFIER"})
Listed(s, o) == IF s.has_list
                THEN /\ Len(s.columns) # 0 /\ Named(o, 2 * Len(s.columns) - 1)
                     /\ Kind(o + 4 + 2 * Len(s.columns)) = "RPAREN"
                ELSE Headed(o)
Valued(s, o, n) ==
    /\ Listed(s, o) /\ Kind(o + Height(s) + 1) = "VALUES" /\ Kind(o + Height(s) + 2) = "LPAREN"
    /\ Alternating(o + (Height(s) + 2), n, {"NUMBER", "STRING"})
Chosen(s, o, n) == /\ Kind(o + 1) = "SELECT"
                   /\ IF s.all THEN Kind(o + 2) = "STAR" ELSE Alternating(o + 1, n, {"IDENTIFIER"})

Sized(s, o) ==
    /\ o = Base(s) /\ o \in Nat /\ s.has_list \in BOOLEAN /\ s.all \in BOOLEAN
    /\ Len(s.columns) \in 0 .. MaxColumns /\ Len(s.values) \in 0 .. MaxColumns

LEMMA AllowsNone == ASSUME NEW f, NEW o PROVE Len(f) \in Nat => Allows(f, o, 0)
BY DEF Allows

LEMMA HeadAllows ==
    ASSUME NEW f, NEW o \in Nat, Len(f) \in Nat, f[1] = {"INSERT"}, f[2] = {"INTO"},
           f[3] = {"IDENTIFIER"}
    PROVE  /\ Kind(o + 1) = "INSERT" => Allows(f, o, 1)
           /\ Kind(o + 1) = "INSERT" /\ Kind(o + 2) = "INTO" => Allows(f, o, 2)
           /\ Headed(o) => Allows(f, o, 3)
           /\ Headed(o) /\ Kind(o + 4) \in f[4] => Allows(f, o, 4)
<1>1. /\ 0 + 1 = 1 /\ 1 + 1 = 2 /\ 2 + 1 = 3 /\ 3 + 1 = 4 /\ o + 0 + 1 = o + 1
      /\ o + 1 + 1 = o + 2 /\ o + 2 + 1 = o + 3 /\ o + 3 + 1 = o + 4
  OBVIOUS
<1>2. Kind(o + 1) = "INSERT" => Allows(f, o, 1)
  <2>1. Allows(f, o, 0)
    BY AllowsNone
  <2>2. Kind(o + 1) = "INSERT" => Allows(f, o, 0 + 1)
    BY <1>1, <2>1, Extended
  <2> QED
    BY <1>1, <2>2
<1>3. Kind(o + 1) = "INSERT" /\ Kind(o + 2) = "INTO" => Allows(f, o, 2)
  <2>1. Kind(o + 1) = "INSERT" /\ Kind(o + 1 + 1) \in f[1 + 1] => Allows(f, o, 1 + 1)
    BY <1>2, Extended
  <2> QED
    BY <1>1, <2>1
<1>4. Headed(o) => Allows(f, o, 3)
  <2>1. Headed(o) /\ Kind(o + 2 + 1) \in f[2 + 1] => Allows(f, o, 2 + 1)
    BY <1>3, Extended DEF Headed
  <2> QED
    BY <1>1, <2>1 DEF Headed
<1>5. Headed(o) /\ Kind(o + 4) \in f[4] => Allows(f, o, 4)
  <2>1. Headed(o) /\ Kind(o + 3 + 1) \in f[3 + 1] => Allows(f, o, 3 + 1)
    BY <1>4, Extended
  <2> QED
    BY <1>1, <2>1
<1> QED
  BY <1>2, <1>3, <1>4, <1>5

(* Behind the head of an INSERT, the names: some shape goes on so with any *)
(* number of them, and one that does so has them there.                    *)
LEMMA NamesHave ==
    ASSUME NEW o \in Nat, Headed(o), Kind(o + 4) = "LPAREN", NEW n \in 1 .. MaxColumns
    PROVE  \E f \in Shapes : /\ ListAt(f, 4, n, {"IDENTIFIER"}, "RPAREN") /\ Allows(f, o, 4)
                             /\ OpensAt(f, 2 * n + 4, n)
<1>1. PICK f : f = ListedShape(n) /\ f \in Shapes /\ ListedAt(n, f)
  BY ShapesAre
<1>2. n \in Nat \ {0}
  BY MaxColumnsAssumption
<1>3. ListAt(f, 4, n, {"IDENTIFIER"}, "RPAREN") /\ OpensAt(f, 2 * n + 4, n)
  BY <1>1, <1>2, ListedLists
<1>4. /\ f[1] = {"INSERT"} /\ f[2] = {"INTO"} /\ f[3] = {"IDENTIFIER"} /\ f[4] = {"LPAREN"}
  BY <1>1 DEF ListedAt
<1>5. Len(f) \in Nat
  BY <1>1, ShapeFacts
<1>6. Allows(f, o, 4)
  BY <1>4, <1>5, HeadAllows
<1> QED
  BY <1>1, <1>3, <1>6

LEMMA NamesAre ==
    ASSUME NEW o \in Nat, Headed(o), Kind(o + 4) = "LPAREN",
           NEW f \in Shapes, NEW k \in Nat, k >= 4, Allows(f, o, k)
    PROVE  \E n \in 1 .. MaxColumns : ListAt(f, 4, n, {"IDENTIFIER"}, "RPAREN")
                                      /\ OpensAt(f, 2 * n + 4, n)
<1>1. PICK n \in 1 .. MaxColumns : PlainAt(n, f) \/ ListedAt(n, f)
  BY ByFirst DEF Headed
<1>2. n \in Nat \ {0}
  BY MaxColumnsAssumption
<1>3. ~PlainAt(n, f)
  <2> SUFFICES ASSUME PlainAt(n, f) PROVE FALSE
    OBVIOUS
  <2>1. f[4] = {"VALUES"} /\ Len(f) = 2 * n + 6
    BY DEF PlainAt
  <2>2. 4 \in 1 .. Len(f) /\ 4 <= k
    BY <1>2, <2>1
  <2>3. Kind(o + 4) \in f[4]
    BY <2>2 DEF Allows
  <2> QED
    BY <2>1, <2>3
<1> QED
  BY <1>1, <1>2, <1>3, ListedLists

(* The same behind the columns, if there are any, for the values.          *)
LEMMA ValuesHave ==
    ASSUME NEW s, NEW o, Sized(s, o), Listed(s, o), NEW n \in 1 .. MaxColumns,
           s.has_list => n = Len(s.columns)
    PROVE  \E f \in Shapes : OpensAt(f, Height(s), n) /\ Allows(f, o, Height(s))
<1>1. o \in Nat /\ n \in Nat \ {0}
  BY MaxColumnsAssumption DEF Sized
<1>2. CASE ~s.has_list
  <2>1. PICK f : f = PlainShape(n) /\ f \in Shapes /\ PlainAt(n, f)
    BY ShapesAre
  <2>2. /\ f[1] = {"INSERT"} /\ f[2] = {"INTO"} /\ f[3] = {"IDENTIFIER"} /\ Len(f) \in Nat
    BY <1>1, <2>1 DEF PlainAt
  <2>3. Headed(o) /\ Height(s) = 3
    BY <1>2 DEF Listed, Height
  <2>4. Allows(f, o, 3)
    BY <1>1, <2>2, <2>3, HeadAllows
  <2>5. OpensAt(f, 3, n)
    BY <1>1, <2>1, PlainLists
  <2> QED
    BY <2>1, <2>3, <2>4, <2>5
<1>3. CASE s.has_list
  <2>1. /\ Headed(o) /\ Kind(o + 4) = "LPAREN" /\ Alternating(o + 4, 2 * n - 1, {"IDENTIFIER"})
        /\ Kind(o + 4 + 2 * n) = "RPAREN" /\ Height(s) = 2 * n + 4
    BY <1>3 DEF Listed, Named, Height
  <2>2. PICK f \in Shapes : /\ ListAt(f, 4, n, {"IDENTIFIER"}, "RPAREN") /\ Allows(f, o, 4)
                            /\ OpensAt(f, 2 * n + 4, n)
    BY <1>1, <2>1, NamesHave
  <2>3. Allows(f, o, 4 + 2 * n)
    BY <1>1, <2>1, <2>2, ListClosed
  <2>4. 4 + 2 * n = 2 * n + 4
    BY <1>1
  <2> QED
    BY <2>1, <2>2, <2>3, <2>4
<1> QED
  BY <1>2, <1>3

LEMMA ValuesAre ==
    ASSUME NEW s, NEW o, Sized(s, o), Listed(s, o), ~s.has_list => Kind(o + 4) # "LPAREN",
           NEW f \in Shapes, NEW k \in Nat, k >= Height(s) + 1, Allows(f, o, k)
    PROVE  \E n \in 1 .. MaxColumns : /\ OpensAt(f, Height(s), n)
                                      /\ s.has_list => n = Len(s.columns)
<1>1. o \in Nat /\ Len(s.columns) \in Nat
  BY MaxColumnsAssumption DEF Sized
<1>2. CASE ~s.has_list
  <2>1. Headed(o) /\ Height(s) = 3
    BY <1>2 DEF Listed, Height
  <2>2. PICK n \in 1 .. MaxColumns : PlainAt(n, f) \/ ListedAt(n, f)
    BY <1>1, <2>1, ByFirst DEF Headed
  <2>3. n \in Nat \ {0}
    BY MaxColumnsAssumption
  <2>4. ~ListedAt(n, f)
    <3> SUFFICES ASSUME ListedAt(n, f) PROVE FALSE
      OBVIOUS
    <3>1. f[4] = {"LPAREN"} /\ Len(f) = 4 * n + 7
      BY DEF ListedAt
    <3>2. 4 \in 1 .. Len(f) /\ 4 <= k
      BY <2>1, <2>3, <3>1
    <3>3. Kind(o + 4) \in f[4]
      BY <3>2 DEF Allows
    <3> QED
      BY <1>2, <3>1, <3>3
  <2> QED
    BY <1>2, <2>1, <2>2, <2>3, <2>4, PlainLists
<1>3. CASE s.has_list
  <2> DEFINE c == Len(s.columns)
  <2>1. /\ Headed(o) /\ Kind(o + 4) = "LPAREN" /\ Alternating(o + 4, 2 * c - 1, {"IDENTIFIER"})
        /\ Kind(o + 4 + 2 * c) = "RPAREN" /\ Height(s) = 2 * c + 4 /\ c \in Nat \ {0}
    BY <1>1, <1>3 DEF Listed, Named, Height
  <2> HIDE DEF c
  <2>2. PICK n \in 1 .. MaxColumns : ListAt(f, 4, n, {"IDENTIFIER"}, "RPAREN")
                                     /\ OpensAt(f, 2 * n + 4, n)
    <3>1. k >= 4
      BY <2>1
    <3> QED
      BY <1>1, <2>1, <3>1, NamesAre
  <2>3. Allows(f, o, 4 + 2 * c)
    <3>1. 4 + 2 * c <= k /\ 4 + 2 * c \in Nat
      BY <2>1
    <3>2. Len(f) \in Nat
      BY ShapeFacts
    <3> QED
      BY <3>1, <3>2 DEF Allows
  <2>4. c = n
    BY <1>1, <2>1, <2>2, <2>3, EndDue
  <2> QED
    BY <2>1, <2>2, <2>4 DEF c
<1> QED
  BY <1>2, <1>3

(* And behind what a SELECT chooses, for its table.                        *)
LEMMA ChoiceHave ==
    ASSUME NEW s, NEW o, Sized(s, o), Chosen(s, o, Width(s)), s.all \/ Len(s.columns) # 0
    PROVE  \E f \in Shapes : TailAt(f, 1 + Width(s)) /\ Allows(f, o, 1 + Width(s))
<1>1. o \in Nat /\ Len(s.columns) \in Nat
  BY MaxColumnsAssumption DEF Sized
<1>2. \A f : Len(f) \in Nat /\ f[1] = {"SELECT"} => Allows(f, o, 1)
  <2> TAKE f
  <2> HAVE Len(f) \in Nat /\ f[1] = {"SELECT"}
  <2>1. /\ Allows(f, o, 0) /\ Kind(o + 0 + 1) \in f[0 + 1]
    BY <1>1, AllowsNone DEF Chosen
  <2>2. Allows(f, o, 0 + 1)
    BY <1>1, <2>1, Extended
  <2> QED
    BY <2>2
<1>3. CASE s.all
  <2>1. PICK f : f = StarShape /\ f \in Shapes
    BY ShapesAre
  <2>2. /\ Len(f) = 5 /\ f[1] = {"SELECT"} /\ f[2] = {"STAR"} /\ f[3] = {"FROM"}
        /\ f[4] = {"IDENTIFIER"} /\ f[5] = {"SEMICOLON"}
    BY <2>1, StarPlaces
  <2>3. Width(s) = 1 /\ Kind(o + 1 + 1) \in f[1 + 1] /\ Allows(f, o, 1)
    BY <1>1, <1>2, <1>3, <2>2 DEF Width, Chosen
  <2>4. Allows(f, o, 1 + 1)
    BY <1>1, <2>2, <2>3, Extended
  <2>5. TailAt(f, 2)
    BY <2>2 DEF TailAt
  <2> QED
    BY <2>1, <2>3, <2>4, <2>5
<1>4. CASE ~s.all
  <2>1. PICK n \in 1 .. MaxColumns : n = Len(s.columns) /\ Width(s) = 2 * n - 1
                                     /\ Alternating(o + 1, 2 * n - 1, {"IDENTIFIER"})
    BY <1>1, <1>4, MaxColumnsAssumption DEF Sized, Width, Chosen
  <2>2. PICK f : f = SelectShape(n) /\ f \in Shapes /\ SelectAt(n, f)
    BY ShapesAre
  <2>3. n \in Nat \ {0} /\ 1 + (2 * n - 1) = 2 * n /\ 2 * n - 1 \in 0 .. 2 * n - 1
    BY MaxColumnsAssumption
  <2>4. ListAt(f, 1, n, {"IDENTIFIER"}, "FROM") /\ TailAt(f, 2 * n)
    BY <2>2, <2>3, SelectLists
  <2>5. f[1] = {"SELECT"} /\ Len(f) \in Nat
    BY <2>2, ShapeFacts DEF SelectAt
  <2>6. Allows(f, o, 1 + (2 * n - 1))
    BY <1>1, <1>2, <2>1, <2>3, <2>4, <2>5, ListExtended
  <2> QED
    BY <2>1, <2>2, <2>3, <2>4, <2>6
<1> QED
  BY <1>3, <1>4

LEMMA SelectedAre ==
    ASSUME NEW o \in Nat, Kind(o + 1) = "SELECT",
           NEW f \in Shapes, NEW k \in Nat, k >= 2, Allows(f, o, k)
    PROVE  /\ Kind(o + 2) = "STAR" => f = StarShape
           /\ Kind(o + 2) # "STAR" =>
                \E n \in 1 .. MaxColumns : ListAt(f, 1, n, {"IDENTIFIER"}, "FROM")
                                           /\ TailAt(f, 2 * n)
<1>1. f = StarShape \/ \E n \in 1 .. MaxColumns : SelectAt(n, f)
  BY ByFirst
<1>2. CASE f = StarShape
  <2>1. 2 \in 1 .. Len(f) /\ f[2] = {"STAR"}
    BY <1>2, StarPlaces
  <2>2. Kind(o + 2) \in f[2]
    BY <2>1 DEF Allows
  <2> QED
    BY <1>2, <2>1, <2>2
<1>3. ASSUME NEW n \in 1 .. MaxColumns, SelectAt(n, f)
      PROVE  /\ ListAt(f, 1, n, {"IDENTIFIER"}, "FROM") /\ TailAt(f, 2 * n)
             /\ Kind(o + 2) # "STAR"
  <2>1. n \in Nat \ {0}
    BY MaxColumnsAssumption
  <2>2. ListAt(f, 1, n, {"IDENTIFIER"}, "FROM") /\ TailAt(f, 2 * n)
    BY <1>3, <2>1, SelectLists
  <2>3. 0 \in Nat /\ o + 1 \in Nat /\ Alternating(o + 1, 2 * 0, {"IDENTIFIER"})
    BY DEF Alternating
  <2>4. Allows(f, o, 1 + 2 * 0 + 1)
    <3>1. Len(f) \in Nat
      BY ShapeFacts
    <3> QED
      BY <3>1 DEF Allows
  <2>5. Kind(o + 1 + 2 * 0 + 1) \in {"IDENTIFIER"}
    BY <2>2, <2>3, <2>4, ElementDue
  <2>6. o + 1 + 2 * 0 + 1 = o + 2
    OBVIOUS
  <2> QED
    BY <2>2, <2>5, <2>6
<1> QED
  BY <1>1, <1>2, <1>3

LEMMA ChoiceAre ==
    ASSUME NEW s, NEW o, Sized(s, o), Chosen(s, o, Width(s)), s.all \/ Len(s.columns) # 0,
           NEW f \in Shapes, NEW k \in Nat, k >= 2 + Width(s), Allows(f, o, k),
           ~s.all => Kind(o + 2 + Width(s)) # "COMMA"
    PROVE  TailAt(f, 1 + Width(s))
<1>1. o \in Nat /\ Len(s.columns) \in Nat /\ Kind(o + 1) = "SELECT"
  BY MaxColumnsAssumption DEF Sized, Chosen
<1>2. CASE s.all
  <2>1. Width(s) = 1 /\ Kind(o + 2) = "STAR"
    BY <1>2 DEF Width, Chosen
  <2>2. f = StarShape
    <3>1. k >= 2
      BY <2>1
    <3> QED
      BY <1>1, <2>1, <3>1, SelectedAre
  <2>3. TailAt(f, 2)
    BY <2>2, StarPlaces DEF TailAt
  <2> QED
    BY <2>1, <2>3
<1>3. CASE ~s.all
  <2>1. PICK m \in Nat \ {0} : m = Len(s.columns) /\ Width(s) = 2 * m - 1
                               /\ Alternating(o + 1, 2 * m - 1, {"IDENTIFIER"})
    BY <1>1, <1>3 DEF Width, Chosen
  <2>2. Kind(o + 2) # "STAR"
    <3>1. 1 \in 1 .. 2 * m - 1 /\ 1 % 2 = 1 /\ o + 1 + 1 = o + 2
      BY <1>1
    <3>2. Kind(o + 1 + 1) \in {"IDENTIFIER"}
      BY <2>1, <3>1 DEF Alternating, Alternate
    <3> QED
      BY <3>1, <3>2
  <2>3. PICK n \in 1 .. MaxColumns : ListAt(f, 1, n, {"IDENTIFIER"}, "FROM")
                                     /\ TailAt(f, 2 * n)
    <3>1. k >= 2
      BY <2>1
    <3> QED
      BY <1>1, <2>2, <3>1, SelectedAre
  <2>4. Allows(f, o, 1 + 2 * m)
    <3>1. Len(f) \in Nat /\ 1 + 2 * m <= k
      BY <2>1, ShapeFacts
    <3> QED
      BY <3>1 DEF Allows
  <2>5. o + 1 + 2 * m = o + 2 + Width(s) /\ 1 + Width(s) = 2 * m
    <3>1. o \in Nat /\ m \in Nat /\ Width(s) = 2 * m - 1
      BY <1>1, <2>1
    <3> QED
      BY <3>1
  <2>6. m = n
    BY <1>1, <1>3, <2>1, <2>3, <2>4, <2>5, EndDue
  <2> QED
    BY <2>3, <2>5, <2>6
<1> QED
  BY <1>2, <1>3

-----------------------------------------------------------------------------
(* The first error: what comes before the n-th token begins some program,  *)
(* and with it nothing does.  There is room for the statement that is      *)
(* begun behind the o-th token.                                            *)
FirstError(n) == TypesUpto(n - 1) \in Viable /\ TypesUpto(n) \notin Viable
Room(o) == \E done : DoneUpto(done, o) /\ Len(done) < MaxStatements

LEMMA ErrorBehind ==
    ASSUME NEW o, Room(o), NEW k \in Nat, k = 0 => Kind(o + 1) # "EOF",
           \E f \in Shapes : k <= Len(f) /\ Allows(f, o, k),
           \A f \in Shapes : ~Allows(f, o, k + 1),
           NEW n, n = o + k + 1
    PROVE  FirstError(n)
<1>1. PICK done : DoneUpto(done, o) /\ Len(done) < MaxStatements
  BY DEF Room
<1>2. PICK f \in Shapes : k <= Len(f) /\ Allows(f, o, k)
  OBVIOUS
<1>3. k \in 0 .. Len(f)
  BY <1>2, ShapeFacts
<1>4. TypesUpto(o + k) \in Viable
  BY <1>1, <1>2, <1>3, Continued
<1>5. o \in Nat /\ n - 1 = o + k
  BY <1>1 DEF DoneUpto
<1>6. TypesUpto(o + k + 1) \notin Viable
  <2> SUFFICES ASSUME TypesUpto(o + k + 1) \in Viable PROVE FALSE
    OBVIOUS
  <2> QED
    BY <1>1, Confined
<1> QED
  BY <1>4, <1>5, <1>6 DEF FirstError

(* Every shape that begins like what was read behind the o-th token has a  *)
(* list behind the b-th place, of one of the lengths in N, and every one   *)
(* of them is possible.                                                    *)
ListOf(o, b, N, S, z) ==
    /\ o \in Nat /\ b \in Nat \ {0} /\ N \subseteq 1 .. MaxColumns
    /\ \A n \in N : \E f \in Shapes : ListAt(f, b, n, S, z) /\ Allows(f, o, b)
    /\ \A f \in Shapes : \A k \in Nat :
         k > b /\ Allows(f, o, k) => \E n \in N : ListAt(f, b, n, S, z)

LEMMA ElementError ==
    ASSUME NEW o, NEW b, NEW N, NEW S, NEW z, ListOf(o, b, N, S, z), Room(o),
           NEW m \in Nat, Alternating(o + b, 2 * m, S), \E n \in N : m < n,
           Kind(o + b + 2 * m + 1) \notin S
    PROVE  FirstError(o + b + 2 * m + 1)
<1> DEFINE k == b + 2 * m
<1>1. o \in Nat /\ b \in Nat \ {0} /\ k \in Nat \ {0} /\ N \subseteq 1 .. MaxColumns
  BY DEF ListOf
<1>2. \E f \in Shapes : k <= Len(f) /\ Allows(f, o, k)
  <2>1. PICK n \in N : m < n
    OBVIOUS
  <2>2. PICK f \in Shapes : ListAt(f, b, n, S, z) /\ Allows(f, o, b)
    BY DEF ListOf
  <2>3. /\ n \in Nat /\ Len(f) \in Nat /\ b + 2 * n <= Len(f)
    BY <2>2 DEF ListAt
  <2>4. 2 * m \in 0 .. 2 * n - 1 /\ k <= Len(f)
    BY <1>1, <2>1, <2>3
  <2>5. Allows(f, o, k)
    BY <1>1, <2>2, <2>4, ListExtended
  <2> QED
    BY <2>4, <2>5
<1>3. ASSUME NEW f \in Shapes, Allows(f, o, k + 1)
      PROVE  FALSE
  <2>1. k + 1 \in Nat /\ k + 1 > b
    BY <1>1
  <2>2. PICK n \in N : ListAt(f, b, n, S, z)
    BY <1>3, <2>1 DEF ListOf
  <2>3. Allows(f, o, b + 2 * m + 1)
    BY <1>3
  <2>4. Kind(o + b + 2 * m + 1) \in S
    BY <1>1, <2>2, <2>3, ElementDue
  <2> QED
    BY <2>4
<1>4. o + b + 2 * m + 1 = o + k + 1
  BY <1>1
<1> HIDE DEF k
<1> QED
  BY <1>1, <1>2, <1>3, <1>4, ErrorBehind

LEMMA EndError ==
    ASSUME NEW o, NEW b, NEW N, NEW S, NEW z, ListOf(o, b, N, S, z), Room(o),
           NEW m \in Nat \ {0}, Alternating(o + b, 2 * m - 1, S), \E n \in N : m <= n,
           Kind(o + b + 2 * m) = "COMMA" => \A n \in N : n <= m,
           Kind(o + b + 2 * m) = z => m \notin N
    PROVE  FirstError(o + b + 2 * m)
<1> DEFINE k == b + (2 * m - 1)
<1>1. o \in Nat /\ b \in Nat \ {0} /\ k \in Nat \ {0} /\ N \subseteq 1 .. MaxColumns
  BY DEF ListOf
<1>2. \E f \in Shapes : k <= Len(f) /\ Allows(f, o, k)
  <2>1. PICK n \in N : m <= n
    OBVIOUS
  <2>2. PICK f \in Shapes : ListAt(f, b, n, S, z) /\ Allows(f, o, b)
    BY DEF ListOf
  <2>3. /\ n \in Nat /\ Len(f) \in Nat /\ b + 2 * n <= Len(f)
    BY <2>2 DEF ListAt
  <2>4. 2 * m - 1 \in 0 .. 2 * n - 1 /\ k <= Len(f)
    BY <1>1, <2>1, <2>3
  <2>5. Allows(f, o, k)
    BY <1>1, <2>2, <2>4, ListExtended
  <2> QED
    BY <2>4, <2>5
<1>3. ASSUME NEW f \in Shapes, Allows(f, o, k + 1)
      PROVE  FALSE
  <2>1. k + 1 \in Nat /\ k + 1 > b /\ k + 1 = b + 2 * m
    BY <1>1
  <2>2. PICK n \in N : ListAt(f, b, n, S, z)
    BY <1>3, <2>1 DEF ListOf
  <2>3. Allows(f, o, b + 2 * m)
    BY <1>3, <2>1
  <2>4. \/ m < n /\ Kind(o + b + 2 * m) = "COMMA"
        \/ m = n /\ Kind(o + b + 2 * m) = z
    <3>1. o \in Nat
      BY <1>1
    <3> QED
      BY <3>1, <2>2, <2>3, EndDue
  <2>5. n \in Nat
    BY <2>2 DEF ListAt
  <2> QED
    BY <2>2, <2>4, <2>5
<1>4. o + b + 2 * m = o + k + 1
  BY <1>1
<1> HIDE DEF k
<1> QED
  BY <1>1, <1>2, <1>3, <1>4, ErrorBehind

(* The three lists.                                                        *)
LEMMA NamesOf ==
    ASSUME NEW o \in Nat, Headed(o), Kind(o + 4) = "LPAREN"
    PROVE  ListOf(o, 4, 1 .. MaxColumns, {"IDENTIFIER"}, "RPAREN")
<1>1. \A n \in 1 .. MaxColumns :
        \E f \in Shapes : ListAt(f, 4, n, {"IDENTIFIER"}, "RPAREN") /\ Allows(f, o, 4)
  BY NamesHave
<1>2. ASSUME NEW f \in Shapes, NEW k \in Nat, k > 4, Allows(f, o, k)
      PROVE  \E n \in 1 .. MaxColumns : ListAt(f, 4, n, {"IDENTIFIER"}, "RPAREN")
  <2>1. k >= 4
    BY <1>2
  <2> QED
    BY <1>2, <2>1, NamesAre
<1> QED
  BY <1>1, <1>2 DEF ListOf

Counts(s) == IF s.has_list THEN {Len(s.columns)} ELSE 1 .. MaxColumns

LEMMA ValuesOf ==
    ASSUME NEW s, NEW o, Sized(s, o), Valued(s, o, 0)
    PROVE  ListOf(o, Height(s) + 2, Counts(s), {"NUMBER", "STRING"}, "RPAREN")
<1> DEFINE h == Height(s)
<1>1. o \in Nat /\ h \in Nat /\ h + 2 \in Nat \ {0} /\ Counts(s) \subseteq 1 .. MaxColumns
  <2>1. o \in Nat /\ Len(s.columns) \in 0 .. MaxColumns /\ Len(s.columns) \in Nat
    BY MaxColumnsAssumption DEF Sized
  <2>2. s.has_list => Len(s.columns) # 0
    BY DEF Valued, Listed
  <2>3. h \in Nat
    BY <2>1 DEF Height
  <2>4. Counts(s) \subseteq 1 .. MaxColumns
    BY <2>1, <2>2, MaxColumnsAssumption DEF Counts
  <2> HIDE DEF h
  <2> QED
    BY <2>1, <2>3, <2>4
<1>2. Listed(s, o) /\ Kind(o + h + 1) = "VALUES" /\ Kind(o + h + 2) = "LPAREN"
  BY DEF Valued
<1>3. ~s.has_list => Kind(o + 4) # "LPAREN"
  <2>1. ~s.has_list => h = 3
    BY DEF Height
  <2>2. o + 3 + 1 = o + 4
    BY <1>1
  <2> QED
    BY <1>2, <2>1, <2>2
<1>4. ASSUME NEW n \in Counts(s)
      PROVE  \E f \in Shapes : ListAt(f, h + 2, n, {"NUMBER", "STRING"}, "RPAREN")
                               /\ Allows(f, o, h + 2)
  <2>1. n \in 1 .. MaxColumns /\ (s.has_list => n = Len(s.columns))
    BY <1>1 DEF Counts
  <2>2. PICK f \in Shapes : OpensAt(f, h, n) /\ Allows(f, o, h)
    BY <1>2, <2>1, ValuesHave
  <2>3. /\ f[h + 1] = {"VALUES"} /\ f[h + 2] = {"LPAREN"} /\ Len(f) \in Nat
        /\ ListAt(f, h + 2, n, {"NUMBER", "STRING"}, "RPAREN")
    BY <2>2, ShapeFacts DEF OpensAt
  <2>4. Allows(f, o, h + 1)
    BY <1>1, <1>2, <2>2, <2>3, Extended
  <2>5. h + 1 \in Nat /\ h + 1 + 1 = h + 2 /\ o + (h + 1) + 1 = o + h + 2
    BY <1>1
  <2>6. Kind(o + (h + 1) + 1) \in f[h + 1 + 1]
    BY <1>2, <2>3, <2>5
  <2>7. Allows(f, o, h + 1 + 1)
    BY <1>1, <2>3, <2>4, <2>5, <2>6, Extended
  <2> QED
    BY <2>3, <2>5, <2>7
<1>5. ASSUME NEW f \in Shapes, NEW k \in Nat, k > h + 2, Allows(f, o, k)
      PROVE  \E n \in Counts(s) : ListAt(f, h + 2, n, {"NUMBER", "STRING"}, "RPAREN")
  <2>1. k >= h + 1
    BY <1>1, <1>5
  <2>2. PICK n \in 1 .. MaxColumns : /\ OpensAt(f, h, n)
                                     /\ s.has_list => n = Len(s.columns)
    BY <1>2, <1>3, <1>5, <2>1, ValuesAre
  <2> QED
    BY <2>2 DEF OpensAt, Counts
<1> QED
  BY <1>1, <1>4, <1>5 DEF ListOf

LEMMA SelectedOf ==
    ASSUME NEW o \in Nat, Kind(o + 1) = "SELECT", Kind(o + 2) # "STAR"
    PROVE  ListOf(o, 1, 1 .. MaxColumns, {"IDENTIFIER"}, "FROM")
<1>1. ASSUME NEW n \in 1 .. MaxColumns
      PROVE  \E f \in Shapes : ListAt(f, 1, n, {"IDENTIFIER"}, "FROM") /\ Allows(f, o, 1)
  <2>1. PICK f : f = SelectShape(n) /\ f \in Shapes /\ SelectAt(n, f)
    BY ShapesAre
  <2>2. n \in Nat \ {0}
    BY MaxColumnsAssumption
  <2>3. ListAt(f, 1, n, {"IDENTIFIER"}, "FROM")
    BY <2>1, <2>2, SelectLists
  <2>4. f[1] = {"SELECT"} /\ Len(f) \in Nat /\ 0 + 1 = 1 /\ o + 0 + 1 = o + 1
    BY <2>1, ShapeFacts DEF SelectAt
  <2>5. Allows(f, o, 0)
    BY <2>4, AllowsNone
  <2>6. Allows(f, o, 0 + 1)
    BY <2>4, <2>5, Extended
  <2> QED
    BY <2>1, <2>3, <2>4, <2>6
<1>2. ASSUME NEW f \in Shapes, NEW k \in Nat, k > 1, Allows(f, o, k)
      PROVE  \E n \in 1 .. MaxColumns : ListAt(f, 1, n, {"IDENTIFIER"}, "FROM")
  <2>1. k >= 2
    BY <1>2
  <2> QED
    BY <1>2, <2>1, SelectedAre
<1> QED
  BY <1>1, <1>2 DEF ListOf

(* The error in what is no list, function by function.                     *)
LEMMA HeadError ==
    ASSUME NEW o \in Nat, Room(o), Kind(o + 1) = "INSERT"
    PROVE  /\ Kind(o + 2) # "INTO" => FirstError(o + 2)
           /\ Kind(o + 2) = "INTO" => (Kind(o + 3) # "IDENTIFIER" => FirstError(o + 3))
<1>1. \E g \in Shapes : /\ g[1] = {"INSERT"} /\ g[2] = {"INTO"} /\ g[3] = {"IDENTIFIER"}
                        /\ Len(g) \in Nat /\ Len(g) >= 8
  <2>1. 1 \in 1 .. MaxColumns
    BY MaxColumnsAssumption
  <2>2. PlainShape(1) \in Shapes /\ PlainAt(1, PlainShape(1))
    BY <2>1, ShapesAre
  <2> QED
    BY <2>2, SMTT(20) DEF PlainAt
<1>2. \E g \in Shapes : /\ Len(g) \in Nat /\ Len(g) >= 8 /\ Allows(g, o, 1)
                        /\ Kind(o + 2) = "INTO" => Allows(g, o, 2)
  BY <1>1, HeadAllows
<1>3. ASSUME NEW f \in Shapes, NEW k \in Nat \ {0}, Allows(f, o, k)
      PROVE  /\ k >= 2 => Kind(o + 2) = "INTO"
             /\ k >= 3 => Kind(o + 3) = "IDENTIFIER"
  <2>1. \E n \in 1 .. MaxColumns : PlainAt(n, f) \/ ListedAt(n, f)
    BY <1>3, ByFirst
  <2>2. f[2] = {"INTO"} /\ f[3] = {"IDENTIFIER"} /\ 2 \in 1 .. Len(f) /\ 3 \in 1 .. Len(f)
    BY <2>1, MaxColumnsAssumption DEF PlainAt, ListedAt
  <2> QED
    BY <1>3, <2>2 DEF Allows
<1>4. Kind(o + 2) # "INTO" => FirstError(o + 2)
  <2> SUFFICES ASSUME Kind(o + 2) # "INTO" PROVE FirstError(o + 2)
    OBVIOUS
  <2>1. \A f \in Shapes : ~Allows(f, o, 2)
    BY <1>3
  <2>2. /\ \E g \in Shapes : 1 <= Len(g) /\ Allows(g, o, 1)
        /\ o + 2 = o + 1 + 1 /\ 1 + 1 = 2 /\ 1 # 0
    BY <1>2
  <2> QED
    BY <2>1, <2>2, ErrorBehind
<1>5. Kind(o + 2) = "INTO" => (Kind(o + 3) # "IDENTIFIER" => FirstError(o + 3))
  <2> SUFFICES ASSUME Kind(o + 2) = "INTO", Kind(o + 3) # "IDENTIFIER" PROVE FirstError(o + 3)
    OBVIOUS
  <2>1. \A f \in Shapes : ~Allows(f, o, 3)
    BY <1>3
  <2>2. /\ \E g \in Shapes : 2 <= Len(g) /\ Allows(g, o, 2)
        /\ o + 3 = o + 2 + 1 /\ 2 + 1 = 3 /\ 2 # 0
    BY <1>2
  <2> QED
    BY <2>1, <2>2, ErrorBehind
<1> QED
  BY <1>4, <1>5

LEMMA ListedError ==
    ASSUME NEW s, NEW o, Sized(s, o), Listed(s, o), Room(o)
    PROVE  /\ /\ ~s.has_list => Kind(o + 4) # "LPAREN"
              /\ Kind(o + Height(s) + 1) # "VALUES"
              => FirstError(o + Height(s) + 1)
           /\ /\ Kind(o + Height(s) + 1) = "VALUES" /\ Kind(o + Height(s) + 2) # "LPAREN"
              => FirstError(o + Height(s) + 2)
<1> DEFINE h == Height(s)
<1>1. o \in Nat /\ h \in Nat \ {0}
  <2>1. o \in Nat /\ Len(s.columns) \in Nat
    BY MaxColumnsAssumption DEF Sized
  <2> QED
    BY <2>1 DEF Height
<1>2. PICK n \in 1 .. MaxColumns : s.has_list => n = Len(s.columns)
  <2>1. 1 \in 1 .. MaxColumns
    BY MaxColumnsAssumption
  <2>2. s.has_list => Len(s.columns) \in 1 .. MaxColumns
    BY MaxColumnsAssumption DEF Sized, Listed
  <2> QED
    BY <2>1, <2>2
<1>3. PICK g \in Shapes : OpensAt(g, h, n) /\ Allows(g, o, h)
  BY <1>2, ValuesHave
<1>4. Len(g) = h + 2 * n + 3 /\ g[h + 1] = {"VALUES"} /\ n \in Nat
  BY <1>3, MaxColumnsAssumption DEF OpensAt
<1>5. ASSUME NEW f \in Shapes, NEW k \in Nat, Allows(f, o, k),
             ~s.has_list => Kind(o + 4) # "LPAREN"
      PROVE  /\ k >= h + 1 => Kind(o + h + 1) = "VALUES"
             /\ k >= h + 2 => Kind(o + h + 2) = "LPAREN"
  <2> SUFFICES ASSUME k >= h + 1
               PROVE  /\ Kind(o + h + 1) = "VALUES"
                      /\ k >= h + 2 => Kind(o + h + 2) = "LPAREN"
    BY <1>1
  <2>1. PICK m \in 1 .. MaxColumns : OpensAt(f, h, m)
    BY <1>5, ValuesAre
  <2>2. /\ f[h + 1] = {"VALUES"} /\ f[h + 2] = {"LPAREN"} /\ Len(f) = h + 2 * m + 3
        /\ m \in Nat
    BY <2>1, MaxColumnsAssumption DEF OpensAt
  <2>3. PICK i : i = h + 1 /\ i \in 1 .. Len(f) /\ i <= k /\ o + i = o + h + 1
    BY <1>1, <2>2, SMTT(20)
  <2>4. h + 2 \in 1 .. Len(f) /\ o + (h + 2) = o + h + 2
    <3>1. o \in Nat /\ h \in Nat /\ m \in Nat /\ Len(f) = h + 2 * m + 3
      BY <1>1, <2>2
    <3> HIDE DEF h
    <3> QED
      BY <3>1
  <2>5. Kind(o + i) \in f[i]
    BY <1>5, <2>3 DEF Allows
  <2>6. k >= h + 2 => Kind(o + (h + 2)) \in f[h + 2]
    BY <1>5, <2>4 DEF Allows
  <2> QED
    BY <2>2, <2>3, <2>4, <2>5, <2>6
<1> HIDE DEF h
<1>6. ASSUME ~s.has_list => Kind(o + 4) # "LPAREN", Kind(o + h + 1) # "VALUES"
      PROVE  FirstError(o + h + 1)
  <2>1. \A f \in Shapes : ~Allows(f, o, h + 1)
    BY <1>1, <1>5, <1>6
  <2>2. h <= Len(g)
    BY <1>1, <1>4
  <2> QED
    BY <1>1, <1>3, <2>1, <2>2, ErrorBehind
<1>7. ASSUME Kind(o + h + 1) = "VALUES", Kind(o + h + 2) # "LPAREN"
      PROVE  FirstError(o + h + 2)
  <2>1. ~s.has_list => Kind(o + 4) # "LPAREN"
    <3>1. ~s.has_list => h = 3
      BY DEF Height, h
    <3>2. o + 3 + 1 = o + 4
      BY <1>1
    <3> QED
      BY <1>7, <3>1, <3>2
  <2>2. h + 1 \in Nat /\ h + 1 + 1 = h + 2 /\ o + h + 2 = o + (h + 1) + 1 /\ h + 1 <= Len(g)
    BY <1>1, <1>4
  <2>3. \A f \in Shapes : ~Allows(f, o, h + 1 + 1)
    BY <1>1, <1>5, <1>7, <2>1, <2>2
  <2>4. Allows(g, o, h + 1)
    <3>1. Len(g) \in Nat
      BY <1>3, ShapeFacts
    <3> QED
      BY <1>1, <1>3, <1>4, <1>7, <3>1, Extended
  <2> QED
    BY <1>1, <2>2, <2>3, <2>4, ErrorBehind
<1> QED
  BY <1>6, <1>7 DEF h

(* The end of an INSERT, and of a SELECT.                                  *)
LEMMA InsertEnd ==
    ASSUME NEW s, NEW o, Sized(s, o), Room(o), NEW v \in 1 .. MaxColumns,
           s.has_list => v = Len(s.columns), Valued(s, o, 2 * v - 1),
           Kind(o + (Height(s) + 2) + 2 * v) = "RPAREN",
           NEW n, n = o + (Height(s) + 2) + 2 * v + 1
    PROVE  /\ Kind(n) # "SEMICOLON" => FirstError(n)
           /\ Kind(n) = "SEMICOLON" =>
                \E f \in Shapes : Allows(f, o, Len(f)) /\ o + Len(f) = n
<1> DEFINE h == Height(s)
           k == h + 2 + 2 * v
<1>1. o \in Nat /\ h \in Nat /\ v \in Nat \ {0} /\ k \in Nat \ {0}
  <2>1. o \in Nat /\ Len(s.columns) \in Nat
    BY MaxColumnsAssumption DEF Sized
  <2>2. h \in Nat
    BY <2>1 DEF Height
  <2> HIDE DEF h
  <2> QED
    BY <2>1, <2>2, MaxColumnsAssumption
<1>2. Alternating(o + (h + 2), 2 * v - 1, {"NUMBER", "STRING"}) /\ Valued(s, o, 0) /\ Listed(s, o)
  BY DEF Valued, Alternating
<1>3. ListOf(o, h + 2, Counts(s), {"NUMBER", "STRING"}, "RPAREN")
  BY <1>2, ValuesOf
<1> HIDE DEF h, k
<1>4. k = (h + 2) + 2 * v /\ k + 1 = h + 2 * v + 3 /\ n = o + k + 1
  BY <1>1 DEF h, k
<1>5. \E g \in Shapes : /\ Len(g) = k + 1 /\ Allows(g, o, k) /\ g[k + 1] = {"SEMICOLON"}
  <2>1. PICK g \in Shapes : OpensAt(g, h, v) /\ Allows(g, o, h)
    BY <1>2, ValuesHave DEF h
  <2>2. /\ ListAt(g, h + 2, v, {"NUMBER", "STRING"}, "RPAREN")
        /\ Len(g) = k + 1 /\ g[k + 1] = {"SEMICOLON"}
        /\ g[h + 1] = {"VALUES"} /\ g[h + 2] = {"LPAREN"} /\ Len(g) \in Nat
    BY <1>4, <2>1, ShapeFacts DEF OpensAt
  <2>3. Allows(g, o, h + 1)
    BY <1>1, <1>2, <2>1, <2>2, Extended DEF Valued, h
  <2>4. h + 1 \in Nat /\ h + 1 + 1 = h + 2 /\ o + (h + 1) + 1 = o + h + 2
    BY <1>1
  <2>5. Kind(o + (h + 1) + 1) \in g[h + 1 + 1]
    BY <1>2, <2>2, <2>4 DEF Valued, h
  <2>6. Allows(g, o, h + 1 + 1)
    BY <1>1, <2>2, <2>3, <2>4, <2>5, Extended
  <2>7. Allows(g, o, h + 2)
    BY <2>4, <2>6
  <2>8. Kind(o + (h + 2) + 2 * v) = "RPAREN"
    BY DEF h
  <2>9. Allows(g, o, (h + 2) + 2 * v)
    BY <1>1, <1>2, <2>2, <2>7, <2>8, ListClosed
  <2> QED
    BY <1>4, <2>2, <2>9
<1>6. ASSUME NEW f \in Shapes, Allows(f, o, k + 1)
      PROVE  Kind(n) = "SEMICOLON"
  <2>1. k + 1 >= h + 1 /\ k + 1 \in Nat
    BY <1>1, <1>4
  <2>2. ~s.has_list => Kind(o + 4) # "LPAREN"
    <3>1. ~s.has_list => h = 3
      BY DEF Height, h
    <3>2. o + 3 + 1 = o + 4 /\ Kind(o + h + 1) = "VALUES"
      BY <1>1, <1>2 DEF Valued, h
    <3> QED
      BY <3>1, <3>2
  <2>3. PICK m \in 1 .. MaxColumns : OpensAt(f, h, m)
    BY <1>2, <1>6, <2>1, <2>2, ValuesAre DEF h
  <2>4. ListAt(f, h + 2, m, {"NUMBER", "STRING"}, "RPAREN") /\ m \in Nat
    BY <2>3, MaxColumnsAssumption DEF OpensAt
  <2>5. Allows(f, o, (h + 2) + 2 * v)
    <3>1. Len(f) \in Nat
      BY ShapeFacts
    <3> QED
      BY <1>1, <1>4, <1>6, <3>1 DEF Allows
  <2>6. v = m
    <3>1. \/ v < m /\ Kind(o + (h + 2) + 2 * v) = "COMMA"
          \/ v = m /\ Kind(o + (h + 2) + 2 * v) = "RPAREN"
      <4>1. h + 2 \in Nat /\ o \in Nat
        BY <1>1
      <4>2. v \in Nat \ {0}
        BY <1>1
      <4> QED
        BY <1>2, <2>4, <2>5, <4>1, <4>2, EndDue
    <3>2. Kind(o + (h + 2) + 2 * v) = "RPAREN"
      BY DEF h
    <3> QED
      BY <3>1, <3>2
  <2>7. Len(f) = k + 1 /\ f[k + 1] = {"SEMICOLON"}
    BY <1>4, <2>3, <2>6 DEF OpensAt
  <2>8. Kind(o + (k + 1)) \in f[k + 1]
    BY <1>1, <1>6, <2>7 DEF Allows
  <2>9. o + (k + 1) = n
    BY <1>1, <1>4
  <2> QED
    BY <2>7, <2>8, <2>9
<1>7. Kind(n) # "SEMICOLON" => FirstError(n)
  <2>1. \E g \in Shapes : k <= Len(g) /\ Allows(g, o, k)
    BY <1>1, <1>5
  <2> QED
    BY <1>1, <1>4, <1>6, <2>1, ErrorBehind
<1>8. Kind(n) = "SEMICOLON" => \E f \in Shapes : Allows(f, o, Len(f)) /\ o + Len(f) = n
  <2>1. PICK g \in Shapes : Len(g) = k + 1 /\ Allows(g, o, k) /\ g[k + 1] = {"SEMICOLON"}
    BY <1>5
  <2>2. Kind(n) = "SEMICOLON" => Allows(g, o, k + 1)
    <3>1. Len(g) \in Nat
      BY ShapeFacts
    <3> QED
      BY <1>1, <1>4, <2>1, <3>1, Extended
  <2>3. o + (k + 1) = n
    BY <1>1, <1>4
  <2> QED
    BY <2>1, <2>2, <2>3
<1> QED
  BY <1>7, <1>8

TailOf(o, e) ==
    /\ o \in Nat /\ e \in Nat \ {0}
    /\ \E f \in Shapes : TailAt(f, e) /\ Allows(f, o, e)
    /\ \A f \in Shapes : \A k \in Nat : k > e /\ Allows(f, o, k) => TailAt(f, e)

LEMMA ChoiceOf ==
    ASSUME NEW s, NEW o, Sized(s, o), Chosen(s, o, Width(s)), s.all \/ Len(s.columns) # 0,
           ~s.all => Kind(o + 2 + Width(s)) # "COMMA"
    PROVE  TailOf(o, 1 + Width(s))
<1>1. o \in Nat /\ Width(s) \in Nat
  <2>1. o \in Nat /\ Len(s.columns) \in Nat
    BY MaxColumnsAssumption DEF Sized
  <2> QED
    BY <2>1 DEF Width
<1>2. \E f \in Shapes : TailAt(f, 1 + Width(s)) /\ Allows(f, o, 1 + Width(s))
  BY ChoiceHave
<1>3. ASSUME NEW f \in Shapes, NEW k \in Nat, k > 1 + Width(s), Allows(f, o, k)
      PROVE  TailAt(f, 1 + Width(s))
  <2>1. k >= 2 + Width(s)
    BY <1>1, <1>3
  <2> QED
    BY <1>3, <2>1, ChoiceAre
<1>4. 1 + Width(s) \in Nat \ {0}
  BY <1>1
<1> QED
  BY <1>1, <1>2, <1>3, <1>4 DEF TailOf

LEMMA TailEnd ==
    ASSUME NEW o, NEW e, TailOf(o, e), Room(o)
    PROVE  /\ Kind(o + e + 1) # "FROM" => FirstError(o + e + 1)
           /\ Kind(o + e + 1) = "FROM" /\ Kind(o + e + 2) # "IDENTIFIER"
                => FirstError(o + e + 2)
           /\ Kind(o + e + 1) = "FROM" /\ Kind(o + e + 2) = "IDENTIFIER"
                => /\ Kind(o + e + 3) # "SEMICOLON" => FirstError(o + e + 3)
                   /\ Kind(o + e + 3) = "SEMICOLON" =>
                        \E f \in Shapes : Allows(f, o, Len(f)) /\ o + Len(f) = o + e + 3
<1>1. o \in Nat /\ e \in Nat \ {0}
  BY DEF TailOf
<1>2. PICK g \in Shapes : TailAt(g, e) /\ Allows(g, o, e)
  BY DEF TailOf
<1>3. /\ Len(g) = e + 3 /\ Len(g) \in Nat
      /\ g[e + 1] = {"FROM"} /\ g[e + 2] = {"IDENTIFIER"} /\ g[e + 3] = {"SEMICOLON"}
  BY <1>2, ShapeFacts DEF TailAt
<1>4. PICK p, q, r : /\ p = e + 1 /\ q = e + 2 /\ r = e + 3 /\ p \in Nat /\ q \in Nat /\ r \in Nat
                     /\ p + 1 = q /\ q + 1 = r
                     /\ o + e + 1 = o + p /\ o + e + 2 = o + q /\ o + e + 3 = o + r
                     /\ o + p + 1 = o + q /\ o + q + 1 = o + r
  BY <1>1
<1>5. /\ Len(g) = r /\ g[p] = {"FROM"} /\ g[q] = {"IDENTIFIER"} /\ g[r] = {"SEMICOLON"}
      /\ e <= Len(g) /\ p <= Len(g) /\ q <= Len(g)
  BY <1>1, <1>3, <1>4
<1>6. Kind(o + p) = "FROM" => Allows(g, o, p)
  BY <1>1, <1>2, <1>3, <1>4, Extended
<1>7. Kind(o + p) = "FROM" /\ Kind(o + q) = "IDENTIFIER" => Allows(g, o, q)
  <2>1. Kind(o + p) = "FROM" /\ Kind(o + p + 1) \in g[p + 1] => Allows(g, o, p + 1)
    BY <1>1, <1>3, <1>4, <1>6, Extended
  <2> QED
    BY <1>4, <1>5, <2>1
<1>8. Kind(o + p) = "FROM" /\ Kind(o + q) = "IDENTIFIER" /\ Kind(o + r) = "SEMICOLON"
        => Allows(g, o, r)
  <2>1. Kind(o + p) = "FROM" /\ Kind(o + q) = "IDENTIFIER" /\ Kind(o + q + 1) \in g[q + 1]
          => Allows(g, o, q + 1)
    BY <1>1, <1>3, <1>4, <1>7, Extended
  <2> QED
    BY <1>4, <1>5, <2>1
<1>9. ASSUME NEW f \in Shapes, NEW k \in {p, q, r}, Allows(f, o, k)
      PROVE  /\ Kind(o + p) = "FROM"
             /\ k \in {q, r} => Kind(o + q) = "IDENTIFIER"
             /\ k = r => Kind(o + r) = "SEMICOLON"
  <2>1. k \in Nat /\ k > e
    BY <1>1, <1>4
  <2>2. TailAt(f, e)
    BY <1>9, <2>1 DEF TailOf
  <2>3. /\ Len(f) = r /\ f[p] = {"FROM"} /\ f[q] = {"IDENTIFIER"} /\ f[r] = {"SEMICOLON"}
    BY <1>4, <2>2 DEF TailAt
  <2>4. /\ p \in 1 .. Len(f) /\ q \in 1 .. Len(f) /\ r \in 1 .. Len(f)
        /\ p <= k /\ (k \in {q, r} => q <= k) /\ (k = r => r <= k)
    BY <1>1, <1>4, <2>3
  <2>5. /\ Kind(o + p) \in f[p]
        /\ k \in {q, r} => Kind(o + q) \in f[q]
        /\ k = r => Kind(o + r) \in f[r]
    BY <1>9, <2>4 DEF Allows
  <2> QED
    BY <2>3, <2>5
<1>10. Kind(o + p) # "FROM" => FirstError(o + p)
  <2>1. Kind(o + p) # "FROM" => \A f \in Shapes : ~Allows(f, o, p)
    BY <1>9
  <2>2. o + p = o + e + 1 /\ p = e + 1
    BY <1>4
  <2> QED
    BY <1>1, <1>2, <1>5, <2>1, <2>2, ErrorBehind
<1>11. Kind(o + p) = "FROM" /\ Kind(o + q) # "IDENTIFIER" => FirstError(o + q)
  <2>1. Kind(o + q) # "IDENTIFIER" => \A f \in Shapes : ~Allows(f, o, q)
    BY <1>9
  <2>2. o + q = o + p + 1 /\ q = p + 1 /\ p # 0 /\ p \in Nat
    BY <1>1, <1>4
  <2> QED
    BY <1>5, <1>6, <2>1, <2>2, ErrorBehind
<1>12. Kind(o + p) = "FROM" /\ Kind(o + q) = "IDENTIFIER" /\ Kind(o + r) # "SEMICOLON"
         => FirstError(o + r)
  <2>1. Kind(o + r) # "SEMICOLON" => \A f \in Shapes : ~Allows(f, o, r)
    BY <1>9
  <2>2. o + r = o + q + 1 /\ r = q + 1 /\ q # 0 /\ q \in Nat
    BY <1>1, <1>4
  <2> QED
    BY <1>5, <1>7, <2>1, <2>2, ErrorBehind
<1> QED
  BY <1>4, <1>5, <1>8, <1>10, <1>11, <1>12

-----------------------------------------------------------------------------
(* A statement that is complete joins the finished ones.                   *)
DoneCount(o, m) == \E done : DoneUpto(done, o) /\ Len(done) = m

LEMMA StatementDone ==
    ASSUME NEW o, NEW m, DoneCount(o, m), NEW f \in Shapes, Allows(f, o, Len(f)),
           NEW n, n = o + Len(f)
    PROVE  DoneCount(n, m + 1)
<1>1. PICK done : DoneUpto(done, o) /\ Len(done) = m
  BY DEF DoneCount
<1>2. o \in Nat /\ Len(f) \in Nat
  BY <1>1, ShapeFacts DEF DoneUpto
<1> DEFINE u == [i \in 1 .. Len(f) |-> Kind(o + i)]
<1>3. ASSUME NEW i \in 1 .. Len(f)
      PROVE  u[i] \in f[i] /\ u[i] \in TokenType
  <2>1. u[i] \in f[i]
    <3>1. i <= Len(f)
      BY <1>2
    <3> QED
      BY <3>1 DEF Allows
  <2> QED
    BY <2>1, ShapeFacts
<1>4. u \in [1 .. Len(f) -> TokenType]
  BY <1>3
<1>5. u \in Seq(TokenType) /\ Len(u) = Len(f)
  BY <1>2, <1>4, FunctionIsSeq
<1> HIDE DEF u
<1>6. u \in Legal
  <2>1. Fits(u, f)
    BY <1>3, <1>5 DEF Fits
  <2> QED
    BY <2>1, FitsLegal
<1>7. PICK p : p = Append(done, u)
  OBVIOUS
<1>8. /\ p \in Seq(Legal) /\ Len(p) = Len(done) + 1 /\ FlattenSeq(p) = TypesUpto(o) \o u
  BY <1>1, <1>6, <1>7, DoneNext
<1>9. TypesUpto(n) = TypesUpto(o) \o u
  <2> DEFINE a == TypesUpto(o)
             b == TypesUpto(n)
  <2>1. a \in Seq(TokenType) /\ Len(a) = o /\ \A k \in 1 .. o : a[k] = Kind(k)
    BY <1>1, DoneTypes
  <2>2. n \in Nat /\ b = [k \in 1 .. n |-> Kind(k)]
    BY <1>2 DEF TypesUpto, Kind
  <2>3. \A k \in 1 .. Len(f) : u[k] = Kind(o + k)
    BY DEF u
  <2> HIDE DEF a, b
  <2>4. /\ Len(a \o u) = o + Len(f) /\ a \o u = [k \in 1 .. o + Len(f) |-> (a \o u)[k]]
        /\ \A k \in 1 .. o : (a \o u)[k] = a[k]
        /\ \A k \in 1 .. Len(f) : (a \o u)[o + k] = u[k]
    <3>1. PICK c : c = a \o u
      OBVIOUS
    <3>2. /\ c \in Seq(TokenType) /\ Len(c) = Len(a) + Len(u)
          /\ \A k \in 1 .. Len(a) : c[k] = a[k]
          /\ \A k \in 1 .. Len(u) : c[Len(a) + k] = u[k]
      BY <1>5, <2>1, <3>1, ConcatProperties
    <3>3. c = [k \in 1 .. Len(c) |-> c[k]]
      BY <3>2
    <3> QED
      BY <1>5, <2>1, <3>1, <3>2, <3>3
  <2>5. ASSUME NEW k \in 1 .. n
        PROVE  (a \o u)[k] = Kind(k)
    <3>1. CASE k <= o
      <4>1. k \in 1 .. o
        BY <1>2, <2>2, <3>1
      <4> QED
        BY <2>1, <2>4, <4>1
    <3>2. CASE k > o
      <4>1. PICK j : j = k - o /\ j \in 1 .. Len(f) /\ k = o + j
        BY <1>2, <2>2, <3>2
      <4> QED
        BY <2>3, <2>4, <4>1
    <3>3. k <= o \/ k > o
      BY <1>2, <2>2
    <3> QED
      BY <3>1, <3>2, <3>3, Zenon
  <2>6. a \o u = [k \in 1 .. n |-> Kind(k)]
    BY <2>4, <2>5
  <2> QED
    BY <2>2, <2>6 DEF a, b
<1>10. n \in Nat
  BY <1>2
<1>11. DoneUpto(p, n) /\ Len(p) = m + 1
  BY <1>1, <1>8, <1>9, <1>10 DEF DoneUpto
<1> QED
  BY <1>11 DEF DoneCount

(* What each function has read, when the n-th token is the current one,    *)
(* and which token, that another branch takes, it is not.                  *)
InsertRead(place, s, o, n) ==
    LET c == 2 * Len(s.columns)
        v == 2 * Len(s.values)
        h == Height(s) + 2
    IN
    /\ place = "into" => n = o + 2 /\ Kind(o + 1) = "INSERT"
    /\ place = "insert table" => n = o + 3 /\ Kind(o + 1) = "INSERT" /\ Kind(o + 2) = "INTO"
    /\ place = "column" => n = o + 4 + c + 1 /\ s.has_list /\ Named(o, c)
    /\ place = "close_columns" => /\ n = o + 4 + c /\ s.has_list /\ c # 0 /\ Named(o, c - 1)
                                  /\ Kind(n) # "COMMA"
    /\ place = "values" => /\ n = o + Height(s) + 1 /\ Listed(s, o)
                           /\ ~s.has_list => Kind(o + 4) # "LPAREN"
    /\ place = "open" => /\ n = o + Height(s) + 2 /\ Listed(s, o)
                         /\ Kind(o + Height(s) + 1) = "VALUES"
    /\ place = "value" => /\ n = o + h + v + 1 /\ Valued(s, o, v)
                          /\ s.has_list => Len(s.values) <= Len(s.columns)
    /\ place = "close_values" => /\ n = o + h + v /\ v # 0 /\ Valued(s, o, v - 1)
                                 /\ s.has_list => Len(s.values) = Len(s.columns)
                                 /\ Kind(n) # "COMMA"
    /\ place = "semicolon" => /\ n = o + h + v + 1 /\ v # 0 /\ Valued(s, o, v - 1)
                              /\ s.has_list => Len(s.values) = Len(s.columns)
                              /\ Kind(o + h + v) = "RPAREN"
SelectRead(place, s, o, n) ==
    LET c == 2 * Len(s.columns)
        e == 1 + Width(s)
    IN
    /\ place = "select list" => n = o + 2 /\ Kind(o + 1) = "SELECT"
    /\ place = "column" => n = o + 1 + c + 1 /\ ~s.all /\ Chosen(s, o, c) /\ Kind(o + 2) # "STAR"
    /\ place \in {"from", "select table", "semicolon"} =>
         /\ Chosen(s, o, Width(s)) /\ (s.all \/ c # 0)
         /\ ~s.all => Kind(o + 2 + Width(s)) # "COMMA"
    /\ place = "from" => n = o + e + 1
    /\ place = "select table" => n = o + e + 2 /\ Kind(o + e + 1) = "FROM"
    /\ place = "semicolon" => /\ n = o + e + 3
                              /\ Kind(o + e + 1) = "FROM" /\ Kind(o + e + 2) = "IDENTIFIER"

(* With m statements that are done before it.                              *)
Reading(place, s, n, m) ==
    /\ s.kind \in {"INSERT", "SELECT"} /\ DoneCount(Base(s), m)
    /\ s.kind = "INSERT" => InsertRead(place, s, Base(s), n)
    /\ s.kind = "SELECT" => SelectRead(place, s, Base(s), n)

(* What has been read when a function is called begins a legal program:    *)
(* the statements that are done, and the one under way.                    *)
GrammarInv ==
    /\ pc \in {"start", "statement", "parsed"} => DoneCount(position - 1, Len(program))
    /\ pc \in InStatement => Reading(pc, statement, position, Len(program))
    /\ pc = "semicolon" => Reading(pc, statement, position, Len(program) - 1)
    /\ pc = "start" => position = 1 /\ program = <<>>
    /\ pc = "statement" /\ position = 1 => Kind(position) # "EOF"

LEMMA SameTokens ==
    ASSUME UNCHANGED tokens, NEW n
    PROVE  Kind(n)' = Kind(n) /\ TypesUpto(n)' = TypesUpto(n)
BY DEF Kind, TypesUpto, TypeOf

LEMMA SameReading ==
    ASSUME UNCHANGED tokens
    PROVE  /\ \A o, m : DoneCount(o, m)' <=> DoneCount(o, m)
           /\ \A place, s, n, m : Reading(place, s, n, m)' <=> Reading(place, s, n, m)
<1>1. \A n : Kind(n)' = Kind(n) /\ TypesUpto(n)' = TypesUpto(n)
  BY SameTokens
<1>2. \A o, m : DoneCount(o, m)' <=> DoneCount(o, m)
  BY <1>1 DEF DoneCount, DoneUpto
<1>3. \A o, n, S : Alternating(o, n, S)' <=> Alternating(o, n, S)
  BY <1>1 DEF Alternating
<1>4. \A o, n : Named(o, n)' <=> Named(o, n)
  BY <1>1, <1>3 DEF Named, Headed
<1>5. \A s, o : Listed(s, o)' <=> Listed(s, o)
  BY <1>1, <1>4 DEF Listed, Headed
<1>6. \A s, o, n : (Valued(s, o, n)' <=> Valued(s, o, n)) /\ (Chosen(s, o, n)' <=> Chosen(s, o, n))
  BY <1>1, <1>3, <1>5 DEF Valued, Chosen
<1>7. ASSUME NEW place, NEW s, NEW o, NEW n
      PROVE  InsertRead(place, s, o, n)' <=> InsertRead(place, s, o, n)
  BY <1>1, <1>4, <1>5, <1>6, ZenonT(40) DEF InsertRead
<1>8. ASSUME NEW place, NEW s, NEW o, NEW n
      PROVE  SelectRead(place, s, o, n)' <=> SelectRead(place, s, o, n)
  BY <1>1, <1>6 DEF SelectRead
<1> QED
  BY <1>2, <1>7, <1>8 DEF Reading

-----------------------------------------------------------------------------
(* Steps                                                                   *)
-----------------------------------------------------------------------------
(* A token that is no name is of its own kind, and a name is of the kind   *)
(* IDENTIFIER when parse_identifier takes it.                              *)
LEMMA KindIs ==
    ASSUME NEW n, tokens[n] \in Token
    PROVE  /\ \A t \in TokenType \ {"IDENTIFIER"} : Kind(n) = t <=> tokens[n].type = t
           /\ Kind(n) = "IDENTIFIER" <=> /\ tokens[n].type = "IDENTIFIER"
                                         /\ ~(Len(tokens[n].text) >= MaxNameLen)
<1>1. "LONG" \notin TokenType
  BY DEF TokenType, Keyword, Punctuation
<1>2. tokens[n].type \in TokenType /\ "IDENTIFIER" \in TokenType
  BY DEF Token, TokenType
<1>3. Kind(n) = IF tokens[n].type = "IDENTIFIER" /\ Len(tokens[n].text) >= MaxNameLen
                THEN "LONG" ELSE tokens[n].type
  BY DEF Kind, TypeOf
<1> QED
  BY <1>1, <1>2, <1>3

LEMMA NameIs ==
    ASSUME ParserInv
    PROVE  NameFault = "none" <=> Kind(position) = "IDENTIFIER"
<1>1. tokens[position] \in Token
  BY TokenFacts DEF ParserInv
<1>2. CurrentType = tokens[position].type /\ CurrentText = tokens[position].text
  BY DEF CurrentType, CurrentText
<1>3. Kind(position) = "IDENTIFIER" <=> /\ CurrentType = "IDENTIFIER"
                                        /\ ~(Len(CurrentText) >= MaxNameLen)
  BY <1>1, <1>2, KindIs
<1>4. CASE CurrentType # "IDENTIFIER"
  <2>1. NameFault = "identifier"
    BY <1>4 DEF NameFault
  <2> QED
    BY <1>3, <1>4, <2>1
<1>5. CASE CurrentType = "IDENTIFIER" /\ Len(CurrentText) >= MaxNameLen
  <2>1. NameFault = "name"
    BY <1>5 DEF NameFault
  <2> QED
    BY <1>3, <1>5, <2>1
<1>6. CASE CurrentType = "IDENTIFIER" /\ ~(Len(CurrentText) >= MaxNameLen)
  <2>1. NameFault = "none"
    BY <1>6 DEF NameFault
  <2> QED
    BY <1>3, <1>6, <2>1
<1> QED
  BY <1>4, <1>5, <1>6

LEMMA FaultIs == NameFault \in {"identifier", "name", "none"}
<1>1. CASE CurrentType # "IDENTIFIER"
  BY <1>1 DEF NameFault
<1>2. CASE CurrentType = "IDENTIFIER" /\ Len(CurrentText) >= MaxNameLen
  BY <1>2 DEF NameFault
<1>3. CASE CurrentType = "IDENTIFIER" /\ ~(Len(CurrentText) >= MaxNameLen)
  BY <1>3 DEF NameFault
<1> QED
  BY <1>1, <1>2, <1>3

(* Only the last token is the end marker: behind any other there is one.   *)
LEMMA Onward ==
    ASSUME tokens \in TokenLists, NEW n \in DOMAIN tokens, Kind(n) # "EOF"
    PROVE  /\ n \in Nat \ {0} /\ Behind(n) = n + 1 /\ n + 1 \in DOMAIN tokens
           /\ tokens[n] \in Token /\ tokens[n + 1] \in Token
<1>1. /\ DOMAIN tokens = 1 .. Len(tokens) /\ Len(tokens) \in Nat \ {0}
      /\ tokens[n] \in Token /\ Behind(n) \in DOMAIN tokens
  BY TokenFacts
<1>2. tokens[n].type # "EOF"
  BY <1>1, KindIs DEF TokenType
<1>3. n # Len(tokens)
  BY <1>2, ParserAssumption
<1>4. Behind(n) = n + 1 /\ n \in Nat \ {0}
  BY <1>1, <1>3 DEF Behind
<1>5. tokens[n + 1] \in Token
  <2>1. tokens[Behind(n)] \in Token
    BY <1>1, TokenFacts
  <2> QED
    BY <1>4, <2>1
<1> QED
  BY <1>1, <1>4, <1>5

LEMMA Sizes ==
    ASSUME ParserInv, NEW m, DoneCount(Base(statement), m)
    PROVE  Sized(statement, Base(statement))
<1>1. statement \in Draft /\ Len(statement.columns) <= MaxColumns
      /\ Len(statement.values) <= MaxColumns
  BY DEF ParserInv, ColumnsKnown, ValuesKnown
<1>2. statement.columns \in Seq(Text) /\ statement.values \in Seq(Literal)
      /\ statement.has_list \in BOOLEAN /\ statement.all \in BOOLEAN
  BY <1>1 DEF Draft
<1>3. Len(statement.columns) \in Nat /\ Len(statement.values) \in Nat
  BY <1>2, LenProperties
<1>4. Base(statement) \in Nat
  BY DEF DoneCount, DoneUpto
<1> QED
  BY <1>1, <1>2, <1>3, <1>4, MaxColumnsAssumption DEF Sized

(* A step inside a statement, and one that refuses the list.               *)
LEMMA StatementStep ==
    ASSUME UNCHANGED tokens, NEW place, NEW s, NEW n, NEW m, place \in InStatement,
           pc' = place, statement' = s, position' = n, Len(program)' = m,
           Reading(place, s, n, m)
    PROVE  GrammarInv' /\ FirstErrorReported'
<1>1. Reading(place, s, n, m)'
  BY SameReading
<1>2. pc' \notin {"start", "statement", "parsed", "semicolon", "refused"} /\ pc' \in InStatement
  BY DEF InStatement, InInsert, InSelect
<1> QED
  BY <1>1, <1>2 DEF GrammarInv, FirstErrorReported

LEMMA RefusedAt ==
    ASSUME NEW message, NEW n, FailAt(message, n), NEW bad, FirstError(bad),
           (FirstBad = bad)'
    PROVE  GrammarInv' /\ FirstErrorReported'
<1>1. pc' = "refused" /\ UNCHANGED tokens
  BY DEF FailAt
<1>2. TypesUpto(bad - 1)' = TypesUpto(bad - 1) /\ TypesUpto(bad)' = TypesUpto(bad)
  BY <1>1, SameTokens
<1>3. Viable' = Viable
  BY DEF Viable, Sentences, Legal, Inserts, Selects
<1>4. FirstErrorReported'
  BY <1>1, <1>2, <1>3 DEF FirstErrorReported, FirstError
<1>5. GrammarInv'
  BY <1>1 DEF GrammarInv, InStatement, InInsert, InSelect
<1> QED
  BY <1>4, <1>5

LEMMA RefusesHere ==
    ASSUME NEW message, NEW n, FailAt(message, n), FirstError(n),
           message \notin {"columns", "values", "more values", "mismatch"}
    PROVE  GrammarInv' /\ FirstErrorReported'
<1>1. error' = [message |-> message, at |-> n]
  BY DEF FailAt
<1>2. (FirstBad = n)'
  BY <1>1 DEF FirstBad
<1> QED
  BY <1>2, RefusedAt

LEMMA RefusesBefore ==
    ASSUME NEW message, NEW n, FailAt(message, n), FirstError(n - 1),
           message \in {"columns", "values", "more values"}
    PROVE  GrammarInv' /\ FirstErrorReported'
<1>1. error' = [message |-> message, at |-> n]
  BY DEF FailAt
<1>2. (FirstBad = n - 1)'
  BY <1>1 DEF FirstBad
<1> QED
  BY <1>2, RefusedAt

LEMMA RefusesBehind ==
    ASSUME NEW n, FailAt("mismatch", n), FirstError(n + 1)
    PROVE  GrammarInv' /\ FirstErrorReported'
<1>1. error' = [message |-> "mismatch", at |-> n]
  BY DEF FailAt
<1>2. (FirstBad = n + 1)'
  BY <1>1 DEF FirstBad
<1> QED
  BY <1>2, RefusedAt

LEMMA GrammarInit == Init => GrammarInv /\ FirstErrorReported
<1> SUFFICES ASSUME Init PROVE GrammarInv /\ FirstErrorReported
  OBVIOUS
<1>1. pc = "start" /\ position = 1 /\ program = <<>>
  BY DEF Init
<1>2. DoneCount(0, 0)
  <2>1. PICK done : done = <<>>
    OBVIOUS
  <2>2. FlattenSeq(done) = <<>> /\ done \in Seq(Legal) /\ Len(done) = 0
    BY <2>1, EmptySeq DEF FlattenSeq
  <2>3. TypesUpto(0) = <<>>
    <3>1. 1 .. 0 = {}
      OBVIOUS
    <3> QED
      BY <3>1 DEF TypesUpto
  <2> QED
    BY <2>2, <2>3 DEF DoneCount, DoneUpto
<1>3. position - 1 = 0 /\ Len(program) = 0
  BY <1>1
<1>4. DoneCount(position - 1, Len(program))
  BY <1>2, <1>3
<1> QED
  BY <1>1, <1>4 DEF GrammarInv, FirstErrorReported, InStatement, InInsert, InSelect

LEMMA GrammarStart ==
    ASSUME ParserInv, GrammarInv, Start
    PROVE  GrammarInv' /\ FirstErrorReported'
<1>1. /\ pc = "start" /\ position = 1 /\ program = <<>> /\ Len(program) = 0
      /\ DoneCount(position - 1, Len(program)) /\ tokens[position] \in Token
  BY TokenFacts DEF Start, GrammarInv, ParserInv
<1>2. CurrentType = "EOF" <=> Kind(position) = "EOF"
  BY <1>1, KindIs DEF CurrentType, TokenType
<1>3. CASE CurrentType = "EOF"
  <2>1. FailAt("empty", 1)
    BY <1>1, <1>3 DEF Start, Fail
  <2>2. PICK done, o : DoneUpto(done, o) /\ Len(done) = 0 /\ o = 0
    BY <1>1 DEF DoneCount
  <2>3. done = <<>>
    BY <2>2, EmptySeq DEF DoneUpto
  <2>4. TypesUpto(0) \in Viable
    <3>1. PICK f \in Shapes : f = StarShape
      BY ShapesAre
    <3>2. Len(f) \in Nat /\ 0 \in 0 .. Len(f) /\ Len(done) < MaxStatements
      BY <2>2, ShapeFacts, ParserAssumption
    <3>3. Allows(f, o, 0)
      BY <3>2, AllowsNone
    <3>4. TypesUpto(o + 0) \in Viable
      BY <2>2, <3>2, <3>3, Continued
    <3> QED
      BY <2>2, <3>4
  <2>5. TypesUpto(1) \notin Viable
    <3> SUFFICES ASSUME TypesUpto(o + 0 + 1) \in Viable PROVE FALSE
      BY <2>2
    <3>1. \E f \in Shapes : Allows(f, o, 0 + 1)
      BY <2>2, <2>3, Confined
    <3>2. PICK f \in Shapes : Allows(f, o, 1)
      BY <3>1
    <3>3. Kind(o + 1) \in {"INSERT", "SELECT"}
      BY <2>2, <3>2, ByFirst
    <3> QED
      BY <1>1, <1>2, <1>3, <2>2, <3>3
  <2>6. FirstError(1)
    BY <2>4, <2>5 DEF FirstError
  <2> QED
    BY <2>1, <2>6, RefusesHere
<1>4. CASE CurrentType # "EOF"
  <2>1. pc' = "statement" /\ UNCHANGED <<tokens, position, statement, program, error>>
    BY <1>4 DEF Start
  <2>2. DoneCount(0, 0)
    BY <1>1
  <2>3. DoneCount(0, 0)' /\ Kind(1)' = Kind(1)
    BY <2>1, <2>2, SameReading, SameTokens
  <2>4. position' = 1 /\ (position - 1)' = 0 /\ Len(program)' = 0
    BY <1>1, <2>1
  <2>5. GrammarInv'
    BY <1>1, <1>2, <1>4, <2>1, <2>3, <2>4 DEF GrammarInv, InStatement, InInsert, InSelect
  <2>6. FirstErrorReported'
    BY <2>1 DEF FirstErrorReported
  <2> QED
    BY <2>5, <2>6
<1> QED
  BY <1>3, <1>4

LEMMA GrammarNextStatement ==
    ASSUME ParserInv, GrammarInv, NextStatement
    PROVE  GrammarInv' /\ FirstErrorReported'
<1>0. PICK o, m : o = position - 1 /\ m = Len(program)
  OBVIOUS
<1>1. /\ pc = "statement" /\ DoneCount(o, m) /\ tokens \in TokenLists /\ position \in DOMAIN tokens
      /\ tokens[position] \in Token /\ position \in Nat \ {0} /\ o \in Nat /\ o + 1 = position
      /\ m \in Nat /\ m <= MaxStatements /\ MaxStatements \in Nat \ {0}
  <2>1. /\ pc = "statement" /\ DoneCount(o, m) /\ tokens \in TokenLists
        /\ position \in DOMAIN tokens /\ program \in Seq(Draft) /\ m <= MaxStatements
    BY <1>0 DEF NextStatement, GrammarInv, ParserInv
  <2>2. m \in Nat /\ o = position - 1
    BY <1>0, <2>1, LenProperties
  <2>3. tokens[position] \in Token /\ position \in Nat \ {0}
    BY <2>1, TokenFacts
  <2> QED
    BY <2>1, <2>2, <2>3, ParserAssumption
<1>2. PICK done : DoneUpto(done, o) /\ Len(done) = m
  BY <1>1 DEF DoneCount
<1>3. \A t \in {"EOF", "INSERT", "SELECT"} : Kind(position) = t <=> CurrentType = t
  BY <1>1, KindIs DEF CurrentType, TokenType, Keyword
<1>4. CASE CurrentType = "EOF"
  <2>1. pc' = "parsed" /\ UNCHANGED <<tokens, position, statement, program, error>>
    BY <1>4 DEF NextStatement
  <2>2. position = Len(tokens)
    BY <1>1, <1>4, ParserAssumption DEF CurrentType
  <2>3. done # <<>>
    <3> SUFFICES ASSUME done = <<>> PROVE FALSE
      OBVIOUS
    <3>1. TypesUpto(o) = <<>> /\ Len(TypesUpto(o)) = o
      <4>1. FlattenSeq(<<>>) = <<>>
        BY DEF FlattenSeq
      <4> QED
        BY <1>2, <4>1, DoneTypes DEF DoneUpto
    <3>2. Len(<<>>) = 0
      BY EmptySeq
    <3>3. position = 1
      BY <1>1, <3>1, <3>2
    <3> QED
      BY <1>1, <1>3, <1>4, <3>3 DEF GrammarInv
  <2>4. TypesUpto(position) \in Sentences
    <3>1. Kind(o + 1) = "EOF" => TypesUpto(o + 1) \in Sentences
      BY <1>1, <1>2, <2>3, Completed
    <3> QED
      BY <1>1, <1>3, <1>4, <3>1
  <2>5. TypesUpto(Len(tokens))' \in Sentences'
    <3>1. PICK n : n = Len(tokens)
      OBVIOUS
    <3>2. TypesUpto(n)' = TypesUpto(n) /\ n' = n /\ Len(tokens)' = n
      BY <2>1, <3>1, SameTokens
    <3>3. Sentences' = Sentences
      BY DEF Sentences, Legal, Inserts, Selects
    <3>4. TypesUpto(n) \in Sentences
      BY <2>2, <2>4, <3>1
    <3>5. TypesUpto(Len(tokens))' = TypesUpto(n)'
      BY <3>2 DEF TypesUpto
    <3> QED
      BY <3>2, <3>3, <3>4, <3>5
  <2>6. DoneCount(o, m)'
    BY <1>1, <2>1, SameReading
  <2>7. (position - 1)' = o /\ Len(program)' = m
    BY <1>0, <2>1
  <2>8. FirstErrorReported'
    BY <2>1, <2>5 DEF FirstErrorReported
  <2>9. GrammarInv'
    BY <2>1, <2>6, <2>7 DEF GrammarInv, InStatement, InInsert, InSelect
  <2> QED
    BY <2>8, <2>9
<1>5. CASE CurrentType # "EOF" /\ m >= MaxStatements
  <2>1. FailAt("statements", position)
    <3>1. Len(program) >= MaxStatements /\ ~(Len(program) < MaxStatements)
      BY <1>0, <1>1, <1>5
    <3> QED
      BY <1>5, <3>1, Zenon DEF NextStatement, Fail
  <2>2. done # <<>> /\ Len(done) <= MaxStatements /\ ~(Len(done) < MaxStatements)
    <3>1. Len(<<>>) = 0
      BY EmptySeq
    <3> QED
      BY <1>1, <1>2, <1>5, <3>1
  <2>3. TypesUpto(o) \in Viable
    BY <1>2, <2>2, Completed
  <2>4. TypesUpto(position) \notin Viable
    <3> SUFFICES ASSUME TypesUpto(o + 0 + 1) \in Viable PROVE FALSE
      BY <1>1
    <3>1. Kind(o + 1) = "EOF"
      BY <1>2, <2>2, Confined
    <3> QED
      BY <1>1, <1>3, <1>5, <3>1
  <2>5. FirstError(position)
    BY <1>0, <2>3, <2>4 DEF FirstError
  <2> QED
    BY <2>1, <2>5, RefusesHere
<1>6. CASE CurrentType \notin {"EOF", "INSERT", "SELECT"} /\ ~(m >= MaxStatements)
  <2>1. FailAt("statement", position)
    BY <1>0, <1>6, Zenon DEF NextStatement, Fail
  <2>2. Room(o)
    BY <1>1, <1>2, <1>6 DEF Room
  <2>3. \E f \in Shapes : 0 <= Len(f) /\ Allows(f, o, 0)
    BY ShapesAre, ShapeFacts, AllowsNone
  <2>4. \A f \in Shapes : ~Allows(f, o, 0 + 1)
    <3> SUFFICES ASSUME NEW f \in Shapes, Allows(f, o, 1) PROVE FALSE
      OBVIOUS
    <3>1. Kind(o + 1) \in {"INSERT", "SELECT"}
      BY <1>1, ByFirst
    <3> QED
      BY <1>1, <1>3, <1>6, <3>1
  <2>5. FirstError(position)
    <3>1. Kind(o + 1) # "EOF" /\ position = o + 0 + 1
      BY <1>1, <1>3, <1>6
    <3> QED
      BY <2>2, <2>3, <2>4, <3>1, ErrorBehind
  <2> QED
    BY <2>1, <2>5, RefusesHere
<1>7. CASE CurrentType \in {"INSERT", "SELECT"} /\ ~(m >= MaxStatements)
  <2>1. m < MaxStatements
    BY <1>1, <1>7
  <2>2. /\ pc' = (IF CurrentType = "INSERT" THEN "into" ELSE "select list")
        /\ position' = Behind(position) /\ statement' = Begun(CurrentType)
        /\ UNCHANGED <<tokens, program, error>>
    BY <1>0, <1>7, <2>1 DEF NextStatement
  <2>3. Kind(position) = CurrentType
    BY <1>3, <1>7
  <2>4. position' = position + 1
    BY <1>1, <1>3, <1>7, <2>2, Onward
  <2> DEFINE s == Begun(CurrentType)
  <2>5. s.kind = CurrentType /\ Base(s) = o
    BY <1>0 DEF Begun, Zeroed, Base
  <2> HIDE DEF s
  <2>6. PICK place : place = pc' /\ place = (IF CurrentType = "INSERT" THEN "into" ELSE "select list")
    BY <2>2
  <2>7. Reading(place, s, position + 1, m)
    <3>1. position + 1 = o + 2 /\ Kind(o + 1) = CurrentType
      BY <1>1, <2>3
    <3>2. CurrentType = "INSERT" => InsertRead(place, s, o, position + 1)
      BY <2>6, <3>1 DEF InsertRead
    <3>3. CurrentType = "SELECT" => SelectRead(place, s, o, position + 1)
      BY <2>6, <3>1 DEF SelectRead
    <3> QED
      BY <1>1, <1>7, <2>5, <3>2, <3>3 DEF Reading
  <2>8. place \in InStatement
    BY <1>7, <2>6 DEF InStatement, InInsert, InSelect
  <2>9. statement' = s /\ Len(program)' = m
    BY <1>0, <2>2 DEF s
  <2> QED
    BY <2>2, <2>4, <2>6, <2>7, <2>8, <2>9, StatementStep
<1> QED
  BY <1>4, <1>5, <1>6, <1>7

(* consume_token in an INSERT: another token is the first error, and with  *)
(* the one that is needed the next function has read what it should.       *)
LEMMA ConsumeInto ==
    ASSUME NEW s, NEW o \in Nat, Room(o), NEW n, InsertRead("into", s, o, n)
    PROVE  /\ Kind(n) # "INTO" => FirstError(n)
           /\ Kind(n) = "INTO" => InsertRead("insert table", s, o, n + 1)
<1>1. n = o + 2 /\ Kind(o + 1) = "INSERT" /\ n + 1 = o + 3
  BY DEF InsertRead
<1>2. Kind(n) # "INTO" => FirstError(n)
  BY <1>1, HeadError
<1>3. Kind(n) = "INTO" => InsertRead("insert table", s, o, n + 1)
  BY <1>1 DEF InsertRead
<1> QED
  BY <1>2, <1>3

LEMMA ConsumeCloseColumns ==
    ASSUME NEW s, NEW o, Sized(s, o), Room(o), NEW n, InsertRead("close_columns", s, o, n)
    PROVE  /\ Kind(n) # "RPAREN" => FirstError(n)
           /\ Kind(n) = "RPAREN" => InsertRead("values", s, o, n + 1)
<1>1. PICK c \in Nat \ {0} : /\ c = Len(s.columns) /\ n = o + 4 + 2 * c /\ s.has_list
                             /\ Named(o, 2 * c - 1) /\ Kind(n) # "COMMA" /\ c <= MaxColumns
                             /\ o \in Nat
  <2>1. /\ n = o + 4 + 2 * Len(s.columns) /\ s.has_list /\ 2 * Len(s.columns) # 0
        /\ Named(o, 2 * Len(s.columns) - 1) /\ Kind(n) # "COMMA"
    BY DEF InsertRead
  <2>2. Len(s.columns) \in Nat /\ Len(s.columns) <= MaxColumns /\ o \in Nat
    BY MaxColumnsAssumption DEF Sized
  <2>3. Len(s.columns) # 0
    BY <2>1
  <2> QED
    BY <2>1, <2>2, <2>3
<1>2. Headed(o) /\ Kind(o + 4) = "LPAREN" /\ Alternating(o + 4, 2 * c - 1, {"IDENTIFIER"})
  BY <1>1 DEF Named
<1>3. Kind(n) # "RPAREN" => FirstError(n)
  <2>1. ListOf(o, 4, 1 .. MaxColumns, {"IDENTIFIER"}, "RPAREN")
    BY <1>1, <1>2, NamesOf
  <2>2. \E k \in 1 .. MaxColumns : c <= k
    BY <1>1, MaxColumnsAssumption
  <2> QED
    BY <1>1, <1>2, <2>1, <2>2, EndError
<1>4. Kind(n) = "RPAREN" => InsertRead("values", s, o, n + 1)
  <2>1. PICK h : h = Height(s) /\ h = 2 * c + 4
    <3>1. s.has_list
      BY <1>1, Zenon
    <3>2. Height(s) = 2 * Len(s.columns) + 4
      BY <3>1, Zenon DEF Height
    <3> QED
      BY <1>1, <3>2
  <2>3. n + 1 = o + h + 1
    <3>1. n = o + 4 + 2 * c /\ o \in Nat /\ c \in Nat
      BY <1>1, Zenon
    <3> QED
      BY <2>1, <3>1
  <2>2. Kind(n) = "RPAREN" => Listed(s, o)
    BY <1>1 DEF Listed
  <2> QED
    BY <1>1, <2>1, <2>2, <2>3 DEF InsertRead
<1> QED
  BY <1>3, <1>4

LEMMA ConsumeValues ==
    ASSUME NEW s, NEW o, Sized(s, o), Room(o), NEW n, InsertRead("values", s, o, n)
    PROVE  /\ Kind(n) # "VALUES" => FirstError(n)
           /\ Kind(n) = "VALUES" => InsertRead("open", s, o, n + 1)
<1>1. PICK h \in Nat : /\ h = Height(s) /\ n = o + h + 1 /\ n + 1 = o + h + 2 /\ Listed(s, o)
                       /\ ~s.has_list => Kind(o + 4) # "LPAREN"
  <2>1. /\ n = o + Height(s) + 1 /\ Listed(s, o)
        /\ ~s.has_list => Kind(o + 4) # "LPAREN"
    BY DEF InsertRead
  <2>2. o \in Nat /\ Len(s.columns) \in Nat
    BY MaxColumnsAssumption DEF Sized
  <2>3. Height(s) \in Nat
    BY <2>2 DEF Height
  <2>4. n + 1 = o + Height(s) + 2
    BY <2>1, <2>2, <2>3
  <2> QED
    BY <2>1, <2>3, <2>4
<1>2. Kind(n) # "VALUES" => FirstError(n)
  BY <1>1, ListedError
<1>3. Kind(n) = "VALUES" => InsertRead("open", s, o, n + 1)
  BY <1>1 DEF InsertRead
<1> QED
  BY <1>2, <1>3

LEMMA ConsumeOpen ==
    ASSUME NEW s, NEW o, Sized(s, o), Room(o), NEW n, InsertRead("open", s, o, n),
           Len(s.values) = 0
    PROVE  /\ Kind(n) # "LPAREN" => FirstError(n)
           /\ Kind(n) = "LPAREN" => InsertRead("value", s, o, n + 1)
<1>1. PICK h \in Nat : /\ h = Height(s) /\ n = o + h + 2 /\ n + 1 = o + (h + 2) + 0 + 1
                       /\ Listed(s, o) /\ Kind(o + h + 1) = "VALUES"
  <2>1. n = o + Height(s) + 2 /\ Listed(s, o) /\ Kind(o + Height(s) + 1) = "VALUES"
    BY DEF InsertRead
  <2>2. o \in Nat /\ Len(s.columns) \in Nat
    BY MaxColumnsAssumption DEF Sized
  <2>3. Height(s) \in Nat
    BY <2>2 DEF Height
  <2>4. n + 1 = o + (Height(s) + 2) + 0 + 1
    BY <2>1, <2>2, <2>3
  <2> QED
    BY <2>1, <2>3, <2>4
<1>2. Kind(n) # "LPAREN" => FirstError(n)
  BY <1>1, ListedError
<1>3. Kind(n) = "LPAREN" => InsertRead("value", s, o, n + 1)
  <2>1. 2 * Len(s.values) = 0 /\ (Len(s.columns) \in Nat => 0 <= Len(s.columns))
    OBVIOUS
  <2>2. Len(s.columns) \in Nat
    BY MaxColumnsAssumption DEF Sized
  <2>3. Alternating(o + (h + 2), 0, {"NUMBER", "STRING"})
    BY DEF Alternating
  <2>4. Kind(n) = "LPAREN" => Valued(s, o, 0)
    BY <1>1, <2>3 DEF Valued
  <2> QED
    BY <1>1, <2>1, <2>2, <2>4 DEF InsertRead
<1> QED
  BY <1>2, <1>3

LEMMA ConsumeCloseValues ==
    ASSUME NEW s, NEW o, Sized(s, o), Room(o), NEW n, InsertRead("close_values", s, o, n)
    PROVE  /\ Kind(n) # "RPAREN" => FirstError(n)
           /\ Kind(n) = "RPAREN" => InsertRead("semicolon", s, o, n + 1)
<1>1. PICK v \in Nat \ {0}, h \in Nat :
        /\ v = Len(s.values) /\ h = Height(s) /\ n = o + (h + 2) + 2 * v
        /\ Valued(s, o, 2 * v - 1) /\ Kind(n) # "COMMA" /\ v <= MaxColumns /\ o \in Nat
        /\ s.has_list => v = Len(s.columns)
  <2>1. /\ n = o + (Height(s) + 2) + 2 * Len(s.values) /\ 2 * Len(s.values) # 0
        /\ Valued(s, o, 2 * Len(s.values) - 1) /\ Kind(n) # "COMMA"
        /\ s.has_list => Len(s.values) = Len(s.columns)
    BY DEF InsertRead
  <2>2. /\ Len(s.values) \in Nat /\ Len(s.values) <= MaxColumns /\ o \in Nat
        /\ Len(s.columns) \in Nat
    BY MaxColumnsAssumption DEF Sized
  <2>3. Len(s.values) # 0
    BY <2>1
  <2>4. Height(s) \in Nat
    BY <2>2 DEF Height
  <2> QED
    BY <2>1, <2>2, <2>3, <2>4
<1>2. Alternating(o + (h + 2), 2 * v - 1, {"NUMBER", "STRING"}) /\ Valued(s, o, 0)
  BY <1>1 DEF Valued, Alternating
<1>3. Kind(n) # "RPAREN" => FirstError(n)
  <2>1. ListOf(o, h + 2, Counts(s), {"NUMBER", "STRING"}, "RPAREN")
    BY <1>1, <1>2, ValuesOf
  <2>2. v \in Counts(s)
    BY <1>1, MaxColumnsAssumption, SMTT(20) DEF Counts
  <2>3. \E k \in Counts(s) : v <= k
    BY <1>1, <2>2
  <2> QED
    BY <1>1, <1>2, <2>1, <2>3, EndError
<1>4. Kind(n) = "RPAREN" => InsertRead("semicolon", s, o, n + 1)
  BY <1>1 DEF InsertRead
<1> QED
  BY <1>3, <1>4

Finished(o, n) == \E f \in Shapes : Allows(f, o, Len(f)) /\ o + Len(f) = n

LEMMA ConsumeInsertEnd ==
    ASSUME NEW s, NEW o, Sized(s, o), Room(o), NEW n, InsertRead("semicolon", s, o, n)
    PROVE  /\ Kind(n) # "SEMICOLON" => FirstError(n)
           /\ Kind(n) = "SEMICOLON" => Finished(o, n)
<1>1. PICK v \in 1 .. MaxColumns :
        /\ v = Len(s.values) /\ n = o + (Height(s) + 2) + 2 * v + 1
        /\ Valued(s, o, 2 * v - 1) /\ Kind(o + (Height(s) + 2) + 2 * v) = "RPAREN"
        /\ s.has_list => v = Len(s.columns)
  <2>1. /\ n = o + (Height(s) + 2) + 2 * Len(s.values) + 1 /\ 2 * Len(s.values) # 0
        /\ Valued(s, o, 2 * Len(s.values) - 1)
        /\ Kind(o + (Height(s) + 2) + 2 * Len(s.values)) = "RPAREN"
        /\ s.has_list => Len(s.values) = Len(s.columns)
    BY DEF InsertRead
  <2>2. Len(s.values) \in Nat /\ Len(s.values) <= MaxColumns
    BY MaxColumnsAssumption DEF Sized
  <2>3. Len(s.values) \in 1 .. MaxColumns
    BY <2>1, <2>2, MaxColumnsAssumption
  <2> QED
    BY <2>1, <2>3
<1> QED
  BY <1>1, InsertEnd DEF Finished

(* The same in a SELECT.                                                   *)
LEMMA ConsumeSelect ==
    ASSUME NEW s, NEW o, Sized(s, o), Room(o), NEW n
    PROVE  /\ SelectRead("from", s, o, n) =>
                /\ Kind(n) # "FROM" => FirstError(n)
                /\ Kind(n) = "FROM" => SelectRead("select table", s, o, n + 1)
           /\ SelectRead("select table", s, o, n) =>
                /\ Kind(n) # "IDENTIFIER" => FirstError(n)
                /\ Kind(n) = "IDENTIFIER" => SelectRead("semicolon", s, o, n + 1)
           /\ SelectRead("semicolon", s, o, n) =>
                /\ Kind(n) # "SEMICOLON" => FirstError(n)
                /\ Kind(n) = "SEMICOLON" => Finished(o, n)
<1>1. PICK e \in Nat : e = 1 + Width(s)
  <2>1. Len(s.columns) \in Nat
    BY MaxColumnsAssumption DEF Sized
  <2>2. Width(s) \in Nat \/ Width(s) = -1
    BY <2>1 DEF Width
  <2> QED
    BY <2>2
<1>2. o \in Nat /\ (Len(s.columns) = 0 => 2 * Len(s.columns) = 0)
  <2>1. o \in Nat /\ Len(s.columns) \in Nat
    BY MaxColumnsAssumption DEF Sized
  <2> QED
    BY <2>1
<1>3. ASSUME NEW place \in {"from", "select table", "semicolon"}, SelectRead(place, s, o, n)
      PROVE  TailOf(o, e)
  <2>1. /\ Chosen(s, o, Width(s)) /\ (s.all \/ 2 * Len(s.columns) # 0)
        /\ ~s.all => Kind(o + 2 + Width(s)) # "COMMA"
    BY <1>3 DEF SelectRead
  <2>2. s.all \/ Len(s.columns) # 0
    BY <1>2, <2>1, Zenon
  <2> QED
    BY <1>1, <2>1, <2>2, ChoiceOf
<1>4. ASSUME SelectRead("from", s, o, n)
      PROVE  /\ Kind(n) # "FROM" => FirstError(n)
             /\ Kind(n) = "FROM" => SelectRead("select table", s, o, n + 1)
  <2>1. n = o + e + 1 /\ n + 1 = o + e + 2
    BY <1>1, <1>2, <1>4 DEF SelectRead
  <2>2. Kind(n) # "FROM" => FirstError(n)
    BY <1>3, <1>4, <2>1, TailEnd
  <2>3. Kind(n) = "FROM" => SelectRead("select table", s, o, n + 1)
    BY <1>1, <1>4, <2>1 DEF SelectRead
  <2> QED
    BY <2>2, <2>3
<1>5. ASSUME SelectRead("select table", s, o, n)
      PROVE  /\ Kind(n) # "IDENTIFIER" => FirstError(n)
             /\ Kind(n) = "IDENTIFIER" => SelectRead("semicolon", s, o, n + 1)
  <2>1. n = o + e + 2 /\ n + 1 = o + e + 3 /\ Kind(o + e + 1) = "FROM"
    BY <1>1, <1>2, <1>5 DEF SelectRead
  <2>2. Kind(n) # "IDENTIFIER" => FirstError(n)
    BY <1>3, <1>5, <2>1, TailEnd
  <2>3. Kind(n) = "IDENTIFIER" => SelectRead("semicolon", s, o, n + 1)
    BY <1>1, <1>5, <2>1 DEF SelectRead
  <2> QED
    BY <2>2, <2>3
<1>6. ASSUME SelectRead("semicolon", s, o, n)
      PROVE  /\ Kind(n) # "SEMICOLON" => FirstError(n)
             /\ Kind(n) = "SEMICOLON" => Finished(o, n)
  <2>1. n = o + e + 3 /\ Kind(o + e + 1) = "FROM" /\ Kind(o + e + 2) = "IDENTIFIER"
    BY <1>1, <1>6 DEF SelectRead
  <2> QED
    BY <1>3, <1>6, <2>1, TailEnd DEF Finished
<1> QED
  BY <1>4, <1>5, <1>6

(* Inside a statement: what it is, where it begins, the current token and  *)
(* the number of statements before it.                                     *)
Here(s, o, n, m) ==
    /\ s = statement /\ o = Base(s) /\ n = position /\ m = Len(program)
    /\ Reading(pc, s, n, m) /\ Sized(s, o) /\ Room(o) /\ s \in Draft
    /\ tokens \in TokenLists /\ n \in DOMAIN tokens /\ tokens[n] \in Token

LEMMA RoomBehind ==
    ASSUME NEW o, NEW m, DoneCount(o, m), m < MaxStatements
    PROVE  Room(o)
BY DEF DoneCount, Room

LEMMA Inside ==
    ASSUME ParserInv, GrammarInv, pc \in InStatement
    PROVE  \E s, o, n, m : Here(s, o, n, m)
<1>1. PICK s, o, n, m : s = statement /\ o = Base(statement) /\ n = position /\ m = Len(program)
  OBVIOUS
<1>2. /\ Reading(pc, s, n, m) /\ m < MaxStatements /\ s \in Draft
      /\ tokens \in TokenLists /\ n \in DOMAIN tokens
  BY <1>1 DEF GrammarInv, ParserInv
<1>3. DoneCount(o, m) /\ tokens[n] \in Token
  BY <1>1, <1>2, TokenFacts DEF Reading
<1>4. Sized(s, o)
  <2>1. DoneCount(Base(statement), m)
    BY <1>1, <1>3
  <2>2. Sized(statement, Base(statement))
    BY <2>1, Sizes
  <2> QED
    BY <1>1, <2>2
<1>5. Room(o)
  BY <1>2, <1>3, RoomBehind
<1>6. o = Base(s)
  BY <1>1
<1> QED
  BY <1>1, <1>2, <1>3, <1>4, <1>5, <1>6 DEF Here

LEMMA ConsumeRead ==
    ASSUME NEW s, NEW o, o = Base(s), NEW n, NEW m, Sized(s, o), Room(o),
           NEW place \in {"into", "close_columns", "values", "open", "close_values", "from"},
           Reading(place, s, n, m),
           s.kind = IF place = "from" THEN "SELECT" ELSE "INSERT",
           place = "open" => Len(s.values) = 0
    PROVE  /\ Kind(n) # Needed[place] => FirstError(n)
           /\ Kind(n) = Needed[place] => Reading(Then[place], s, n + 1, m)
<1>1. DoneCount(o, m) /\ o \in Nat
  BY DEF Reading, Sized
<1>2. CASE place = "from"
  <2>1. SelectRead("from", s, o, n) /\ Needed[place] = "FROM" /\ Then[place] = "select table"
    BY <1>2, Calls DEF Reading, Needed
  <2>2. /\ Kind(n) # "FROM" => FirstError(n)
        /\ Kind(n) = "FROM" => SelectRead("select table", s, o, n + 1)
    BY <2>1, ConsumeSelect
  <2> QED
    BY <1>1, <1>2, <2>1, <2>2 DEF Reading
<1>3. CASE place # "from"
  <2>1. s.kind = "INSERT" /\ InsertRead(place, s, o, n)
    BY <1>3 DEF Reading
  <2>2. /\ Kind(n) # Needed[place] => FirstError(n)
        /\ Kind(n) = Needed[place] => InsertRead(Then[place], s, o, n + 1)
    <3>1. CASE place = "into"
      <4>1. Needed[place] = "INTO" /\ Then[place] = "insert table"
        BY <3>1, Calls DEF Needed
      <4> QED
        BY <1>1, <2>1, <3>1, <4>1, ConsumeInto
    <3>2. CASE place = "close_columns"
      <4>1. Needed[place] = "RPAREN" /\ Then[place] = "values"
        BY <3>2, Calls DEF Needed
      <4> QED
        BY <2>1, <3>2, <4>1, ConsumeCloseColumns
    <3>3. CASE place = "values"
      <4>1. Needed[place] = "VALUES" /\ Then[place] = "open"
        BY <3>3, Calls DEF Needed
      <4> QED
        BY <2>1, <3>3, <4>1, ConsumeValues
    <3>4. CASE place = "open"
      <4>1. Needed[place] = "LPAREN" /\ Then[place] = "value"
        BY <3>4, Calls DEF Needed
      <4> QED
        BY <2>1, <3>4, <4>1, ConsumeOpen
    <3>5. CASE place = "close_values"
      <4>1. Needed[place] = "RPAREN" /\ Then[place] = "semicolon"
        BY <3>5, Calls DEF Needed
      <4> QED
        BY <2>1, <3>5, <4>1, ConsumeCloseValues
    <3> QED
      BY <1>3, <3>1, <3>2, <3>3, <3>4, <3>5
  <2> QED
    BY <1>1, <2>1, <2>2 DEF Reading
<1> QED
  BY <1>2, <1>3

(* A statement is complete but for its semicolon.                          *)
LEMMA CompleteStep ==
    ASSUME UNCHANGED tokens, NEW s, NEW n, NEW m \in Nat, pc' = "semicolon", statement' = s,
           position' = n, Len(program)' = m + 1, Reading("semicolon", s, n, m)
    PROVE  GrammarInv' /\ FirstErrorReported'
<1>1. Reading("semicolon", s, n, m)'
  BY SameReading
<1>2. (Len(program) - 1)' = m
  OBVIOUS
<1>3. Reading(pc, statement, position, Len(program) - 1)'
  BY <1>1, <1>2
<1> QED
  BY <1>3 DEF GrammarInv, FirstErrorReported, InStatement, InInsert, InSelect

LEMMA NeededFacts ==
    ASSUME NEW place \in DOMAIN Needed
    PROVE  /\ Needed[place] \in TokenType \ {"EOF", "IDENTIFIER"}
           /\ Needed[place] \notin {"columns", "values", "more values", "mismatch"}
<1>1. /\ Needed["into"] = "INTO" /\ Needed["values"] = "VALUES" /\ Needed["open"] = "LPAREN"
      /\ Needed["close_columns"] = "RPAREN" /\ Needed["close_values"] = "RPAREN"
      /\ Needed["from"] = "FROM" /\ Needed["semicolon"] = "SEMICOLON"
  BY DEF Needed
<1>2. Needed[place] \in {"INTO", "VALUES", "LPAREN", "RPAREN", "FROM", "SEMICOLON"}
  BY <1>1, Calls
<1> QED
  BY <1>2 DEF TokenType, Keyword, Punctuation

LEMMA GrammarSemicolon ==
    ASSUME ParserInv, GrammarInv, Consume, pc = "semicolon"
    PROVE  GrammarInv' /\ FirstErrorReported'
<1>1. PICK s, o, n, m : /\ s = statement /\ o = Base(statement) /\ n = position
                        /\ m = Len(program) - 1
  OBVIOUS
<1>2. /\ Reading("semicolon", s, n, m) /\ tokens \in TokenLists /\ n \in DOMAIN tokens
      /\ program \in Seq(Draft) /\ Len(program) <= MaxStatements
  BY <1>1 DEF GrammarInv, ParserInv
<1>3. DoneCount(o, m) /\ tokens[n] \in Token /\ n \in Nat \ {0}
  BY <1>1, <1>2, TokenFacts DEF Reading
<1>4. Len(program) = m + 1 /\ m < MaxStatements
  <2>1. Len(program) \in Nat /\ MaxStatements \in Nat
    BY <1>2, LenProperties, ParserAssumption
  <2> QED
    BY <1>1, <1>2, <2>1
<1>5. Sized(s, o) /\ Room(o)
  <2>1. DoneCount(Base(statement), m)
    BY <1>1, <1>3
  <2>2. Sized(statement, Base(statement))
    BY <2>1, Sizes
  <2>3. Room(o)
    BY <1>3, <1>4, RoomBehind
  <2> QED
    BY <1>1, <2>2, <2>3
<1>6. /\ Kind(n) # "SEMICOLON" => FirstError(n)
      /\ Kind(n) = "SEMICOLON" => Finished(o, n)
  <2>1. CASE s.kind = "INSERT"
    <3>1. InsertRead("semicolon", s, o, n)
      BY <1>1, <1>2, <2>1 DEF Reading
    <3> QED
      BY <1>5, <3>1, ConsumeInsertEnd
  <2>2. CASE s.kind = "SELECT"
    <3>1. SelectRead("semicolon", s, o, n)
      BY <1>1, <1>2, <2>2 DEF Reading
    <3> QED
      BY <1>5, <3>1, ConsumeSelect
  <2>3. s.kind \in {"INSERT", "SELECT"}
    BY <1>2 DEF Reading
  <2> QED
    BY <2>1, <2>2, <2>3
<1>7. CurrentType = Needed[pc] <=> Kind(n) = "SEMICOLON"
  BY <1>1, <1>3, KindIs DEF CurrentType, Needed, TokenType, Punctuation
<1>8. CASE Kind(n) # "SEMICOLON"
  <2>1. FailAt("SEMICOLON", n)
    BY <1>1, <1>7, <1>8 DEF Consume, Fail, Needed
  <2> QED
    BY <1>6, <1>8, <2>1, RefusesHere
<1>9. CASE Kind(n) = "SEMICOLON"
  <2>1. /\ pc' = "statement" /\ position' = Behind(position)
        /\ UNCHANGED <<tokens, program>>
    BY <1>7, <1>9, Calls DEF Consume
  <2>2. position' = n + 1
    BY <1>1, <1>2, <1>9, <2>1, Onward
  <2>3. DoneCount(n, m + 1)
    BY <1>3, <1>6, <1>9, StatementDone DEF Finished
  <2>4. DoneCount(n, m + 1)'
    BY <2>1, <2>3, SameReading
  <2>5. (position - 1)' = n /\ Len(program)' = m + 1 /\ position' # 1
    BY <1>3, <1>4, <2>1, <2>2
  <2>6. DoneCount(position - 1, Len(program))'
    BY <2>4, <2>5
  <2> QED
    BY <2>1, <2>5, <2>6 DEF GrammarInv, FirstErrorReported, InStatement, InInsert, InSelect
<1> QED
  BY <1>8, <1>9

LEMMA GrammarConsume ==
    ASSUME ParserInv, SpellInv, GrammarInv, Consume
    PROVE  GrammarInv' /\ FirstErrorReported'
<1>1. CASE pc = "semicolon"
  BY <1>1, GrammarSemicolon
<1>2. CASE pc # "semicolon"
  <2>1. PICK place : /\ place = pc /\ place \in DOMAIN Needed
                     /\ place \in {"into", "close_columns", "values", "open", "close_values",
                                   "from"}
    BY <1>2, Calls DEF Consume
  <2>2. pc \in InStatement
    BY <2>1 DEF InStatement, InInsert, InSelect
  <2>3. PICK s, o, n, m : Here(s, o, n, m)
    BY <2>2, Inside
  <2>4. /\ s = statement /\ o = Base(s) /\ n = position /\ m = Len(program)
        /\ Reading(place, s, n, m) /\ Sized(s, o) /\ Room(o)
        /\ tokens \in TokenLists /\ n \in DOMAIN tokens /\ tokens[n] \in Token
    BY <2>1, <2>3 DEF Here
  <2>5. s.kind = (IF place = "from" THEN "SELECT" ELSE "INSERT")
    BY <2>1, <2>4 DEF ParserInv, DraftFits, InInsert, InSelect
  <2>6. place = "open" => Len(s.values) = 0
    <3>1. place = "open" => s.values = <<>>
      BY <2>1, <2>2, <2>4 DEF SpellInv, Fresh
    <3> QED
      BY <3>1, EmptySeq
  <2>7. /\ Kind(n) # Needed[place] => FirstError(n)
        /\ Kind(n) = Needed[place] => Reading(Then[place], s, n + 1, m)
    BY <2>1, <2>4, <2>5, <2>6, ConsumeRead
  <2>8. CurrentType = Needed[pc] <=> Kind(n) = Needed[place]
    BY <2>1, <2>4, KindIs, NeededFacts DEF CurrentType
  <2>9. CASE Kind(n) # Needed[place]
    <3>1. PICK message : message = Needed[place]
      OBVIOUS
    <3>2. FailAt(message, n)
      BY <2>1, <2>4, <2>8, <2>9, <3>1 DEF Consume, Fail
    <3>3. message \notin {"columns", "values", "more values", "mismatch"}
      BY <2>1, <3>1, NeededFacts
    <3> QED
      BY <2>7, <2>9, <3>2, <3>3, RefusesHere
  <2>10. CASE Kind(n) = Needed[place]
    <3>1. /\ pc' = Then[place] /\ position' = Behind(n)
          /\ program' = (IF Then[place] = "semicolon" THEN Append(program, statement) ELSE program)
          /\ UNCHANGED <<tokens, statement, error>>
      BY <2>1, <2>4, <2>8, <2>10 DEF Consume
    <3>2. position' = n + 1 /\ statement' = s
      <4>1. Kind(n) # "EOF"
        BY <2>1, <2>10, NeededFacts
      <4> QED
        BY <2>4, <3>1, <4>1, Onward
    <3>3. PICK then : then = Then[place]
      OBVIOUS
    <3>4. Reading(then, s, n + 1, m)
      BY <2>7, <2>10, <3>3
    <3>5. program \in Seq(Draft) /\ s \in Draft /\ m \in Nat
      BY <2>4, LenProperties DEF ParserInv
    <3>6. CASE then = "semicolon"
      <4>1. Len(program)' = m + 1
        <5>1. Len(Append(program, s)) = m + 1
          BY <2>4, <3>5, AppendProperties
        <5> QED
          BY <2>4, <3>1, <3>3, <3>6, <5>1
      <4> QED
        BY <3>1, <3>2, <3>3, <3>4, <3>5, <3>6, <4>1, CompleteStep
    <3>7. CASE then # "semicolon"
      <4>1. Len(program)' = m
        BY <2>4, <3>1, <3>3, <3>7
      <4>2. then \in InStatement
        BY <2>1, <3>3, <3>7, Calls DEF InStatement, InInsert, InSelect
      <4> QED
        BY <3>1, <3>2, <3>3, <3>4, <4>1, <4>2, StatementStep
    <3> QED
      BY <3>6, <3>7
  <2> QED
    BY <2>9, <2>10
<1> QED
  BY <1>1, <1>2

(* The tables, and what a SELECT asks for.                                 *)
LEMMA TableKept ==
    ASSUME NEW list \in BOOLEAN, NEW s \in Draft, s = statement, NEW t, t = TableRead(list)
    PROVE  /\ t.kind = s.kind /\ t.all = s.all /\ t.has_list = list
           /\ t.columns = s.columns /\ t.values = s.values /\ Base(t) = Base(s)
<1>1. PICK w : w = [s.where EXCEPT !.table = position]
  OBVIOUS
<1>2. t = [s EXCEPT !.table = CurrentText, !.has_list = list, !.where = w]
  BY <1>1 DEF TableRead
<1>3. s.where \in Locations
  BY DEF Draft
<1>4. w.start = s.where.start
  BY <1>1, <1>3 DEF Locations
<1> QED
  BY <1>2, <1>4 DEF Draft, Base

LEMMA NameRefused ==
    ASSUME ParserInv, NEW n, n = position, Fail(NameFault), NameFault # "none",
           Kind(n) # "IDENTIFIER" => FirstError(n)
    PROVE  GrammarInv' /\ FirstErrorReported'
<1>1. PICK message : message = NameFault
  OBVIOUS
<1>2. message \notin {"columns", "values", "more values", "mismatch"}
  BY <1>1, FaultIs
<1>3. FailAt(message, n) /\ FirstError(n)
  BY <1>1, NameIs DEF Fail
<1> QED
  BY <1>2, <1>3, RefusesHere

LEMMA GrammarInsertTable ==
    ASSUME ParserInv, SpellInv, GrammarInv, InsertTable
    PROVE  GrammarInv' /\ FirstErrorReported'
<1>1. pc = "insert table" /\ pc \in InStatement /\ pc \in InInsert
  BY DEF InsertTable, InStatement, InInsert
<1>2. PICK s, o, n, m : Here(s, o, n, m)
  BY <1>1, Inside
<1>3. /\ s = statement /\ o = Base(s) /\ n = position /\ m = Len(program)
      /\ Reading("insert table", s, n, m) /\ Sized(s, o) /\ Room(o) /\ s \in Draft
      /\ tokens \in TokenLists /\ n \in DOMAIN tokens /\ s.kind = "INSERT" /\ s.columns = <<>>
  <2>1. /\ s = statement /\ o = Base(s) /\ n = position /\ m = Len(program)
        /\ Reading("insert table", s, n, m) /\ Sized(s, o) /\ Room(o) /\ s \in Draft
        /\ tokens \in TokenLists /\ n \in DOMAIN tokens
    BY <1>1, <1>2 DEF Here
  <2>2. s.kind = "INSERT"
    BY <1>1, <2>1 DEF ParserInv, DraftFits
  <2>3. s.columns = <<>>
    BY <1>1, <2>1 DEF SpellInv, Fresh
  <2> QED
    BY <2>1, <2>2, <2>3
<1>4. /\ o \in Nat /\ n = o + 3 /\ Kind(o + 1) = "INSERT" /\ Kind(o + 2) = "INTO"
      /\ DoneCount(o, m)
  BY <1>3 DEF Reading, InsertRead, Sized
<1>5. CASE NameFault # "none"
  <2>1. Fail(NameFault)
    BY <1>5 DEF InsertTable
  <2>2. Kind(n) # "IDENTIFIER" => FirstError(n)
    BY <1>3, <1>4, HeadError
  <2> QED
    BY <1>3, <1>5, <2>1, <2>2, NameRefused
<1>6. CASE NameFault = "none"
  <2>1. Kind(n) = "IDENTIFIER"
    BY <1>3, <1>6, NameIs
  <2>2. Behind(n) = n + 1 /\ n + 1 \in DOMAIN tokens /\ tokens[n + 1] \in Token
    BY <1>3, <2>1, Onward
  <2>3. PICK list \in BOOLEAN : list = (tokens[n + 1].type = "LPAREN")
    OBVIOUS
  <2>4. list <=> Kind(n + 1) = "LPAREN"
    BY <2>2, <2>3, KindIs DEF TokenType, Punctuation
  <2>5. /\ pc' = (IF list THEN "column" ELSE "values")
        /\ position' = (IF list THEN Behind(n + 1) ELSE n + 1)
        /\ statement' = TableRead(list)
        /\ UNCHANGED <<tokens, program, error>>
    BY <1>3, <1>6, <2>2, <2>3 DEF InsertTable
  <2>6. PICK t : t = TableRead(list)
    OBVIOUS
  <2>7. /\ t.kind = "INSERT" /\ t.has_list = list /\ Base(t) = o /\ Len(t.columns) = 0
    BY <1>3, <2>6, TableKept, EmptySeq, ZenonT(40)
  <2>8. Headed(o) /\ n + 1 = o + 4
    BY <1>4, <2>1 DEF Headed
  <2>9. statement' = t /\ Len(program)' = m
    BY <1>3, <2>5, <2>6
  <2>10. CASE list
    <3>1. pc' = "column" /\ position' = n + 2 /\ Kind(o + 4) = "LPAREN"
      <4>1. Kind(n + 1) = "LPAREN" /\ Kind(n + 1) # "EOF"
        BY <2>4, <2>10
      <4>2. Behind(n + 1) = n + 1 + 1
        BY <1>3, <2>2, <4>1, Onward
      <4>3. n + 1 + 1 = n + 2
        BY <1>4
      <4> QED
        BY <2>5, <2>8, <2>10, <4>1, <4>2, <4>3
    <3>2. Named(o, 0)
      BY <2>8, <3>1 DEF Named, Alternating
    <3>3. n + 2 = o + 4 + 2 * Len(t.columns) + 1 /\ 2 * Len(t.columns) = 0
      BY <1>4, <2>7
    <3>4. InsertRead("column", t, o, n + 2)
      BY <2>7, <2>10, <3>2, <3>3 DEF InsertRead
    <3>5. Reading("column", t, n + 2, m)
      BY <1>4, <2>7, <3>4 DEF Reading
    <3>6. "column" \in InStatement
      BY DEF InStatement
    <3> QED
      BY <2>5, <2>9, <3>1, <3>5, <3>6, StatementStep
  <2>11. CASE ~list
    <3>1. pc' = "values" /\ position' = n + 1 /\ Kind(o + 4) # "LPAREN"
      BY <2>4, <2>5, <2>8, <2>11
    <3>2. Listed(t, o) /\ Height(t) = 3
      BY <2>7, <2>8, <2>11 DEF Listed, Height
    <3>3. n + 1 = o + Height(t) + 1
      BY <1>4, <3>2
    <3>4. InsertRead("values", t, o, n + 1)
      BY <3>1, <3>2, <3>3 DEF InsertRead
    <3>5. Reading("values", t, n + 1, m)
      BY <1>4, <2>7, <3>4 DEF Reading
    <3>6. "values" \in InStatement
      BY DEF InStatement, InInsert
    <3> QED
      BY <2>5, <2>9, <3>1, <3>5, <3>6, StatementStep
  <2> QED
    BY <2>10, <2>11
<1> QED
  BY <1>5, <1>6

LEMMA GrammarSelectTable ==
    ASSUME ParserInv, GrammarInv, SelectTable
    PROVE  GrammarInv' /\ FirstErrorReported'
<1>1. pc = "select table" /\ pc \in InStatement /\ pc \in InSelect
  BY DEF SelectTable, InStatement, InSelect
<1>2. PICK s, o, n, m : Here(s, o, n, m)
  BY <1>1, Inside
<1>3. /\ s = statement /\ o = Base(s) /\ n = position /\ m = Len(program)
      /\ Reading("select table", s, n, m) /\ Sized(s, o) /\ Room(o) /\ s \in Draft
      /\ tokens \in TokenLists /\ n \in DOMAIN tokens /\ s.kind = "SELECT"
      /\ program \in Seq(Draft) /\ m \in Nat
  <2>1. /\ s = statement /\ o = Base(s) /\ n = position /\ m = Len(program)
        /\ Reading("select table", s, n, m) /\ Sized(s, o) /\ Room(o) /\ s \in Draft
        /\ tokens \in TokenLists /\ n \in DOMAIN tokens
    BY <1>1, <1>2 DEF Here
  <2>2. s.kind = "SELECT" /\ program \in Seq(Draft)
    BY <1>1, <2>1 DEF ParserInv, DraftFits
  <2> QED
    BY <2>1, <2>2, LenProperties
<1>4. SelectRead("select table", s, o, n) /\ DoneCount(o, m)
  BY <1>3 DEF Reading
<1>5. /\ Kind(n) # "IDENTIFIER" => FirstError(n)
      /\ Kind(n) = "IDENTIFIER" => SelectRead("semicolon", s, o, n + 1)
  BY <1>3, <1>4, ConsumeSelect
<1>6. CASE NameFault # "none"
  <2>1. Fail(NameFault)
    BY <1>6 DEF SelectTable
  <2> QED
    BY <1>3, <1>5, <1>6, <2>1, NameRefused
<1>7. CASE NameFault = "none"
  <2>1. Kind(n) = "IDENTIFIER"
    BY <1>3, <1>7, NameIs
  <2>2. Behind(n) = n + 1
    BY <1>3, <2>1, Onward
  <2>3. PICK t : t = [s EXCEPT !.table = CurrentText]
    OBVIOUS
  <2>4. /\ pc' = "semicolon" /\ position' = n + 1 /\ statement' = t
        /\ program' = Append(program, t) /\ UNCHANGED tokens
    BY <1>3, <1>7, <2>2, <2>3 DEF SelectTable
  <2>5. /\ t \in Draft /\ t.kind = "SELECT" /\ t.all = s.all /\ t.columns = s.columns
        /\ t.where = s.where
    BY <1>3, <1>7, <2>3, IdentifierTaken DEF Draft
  <2>6. Len(program)' = m + 1
    <3>1. Len(Append(program, t)) = m + 1
      BY <1>3, <2>5, AppendProperties
    <3> QED
      BY <2>4, <3>1
  <2>7. SelectRead("semicolon", t, o, n + 1)
    <3>1. SelectRead("semicolon", s, o, n + 1)
      BY <1>5, <2>1
    <3>2. Width(t) = Width(s)
      BY <2>5 DEF Width
    <3>3. Chosen(s, o, Width(s)) => Chosen(t, o, Width(s))
      BY <2>5 DEF Chosen
    <3> QED
      BY <2>5, <3>1, <3>2, <3>3 DEF SelectRead
  <2>8. Reading("semicolon", t, n + 1, m)
    <3>1. Base(t) = o
      BY <1>3, <2>5 DEF Base
    <3> QED
      BY <1>4, <2>5, <2>7, <3>1 DEF Reading
  <2> QED
    BY <1>3, <2>4, <2>6, <2>8, CompleteStep
<1> QED
  BY <1>6, <1>7

LEMMA GrammarSelectList ==
    ASSUME ParserInv, SpellInv, GrammarInv, SelectList
    PROVE  GrammarInv' /\ FirstErrorReported'
<1>1. /\ pc = "select list" /\ pc \in InStatement /\ pc \in InSelect
      /\ UNCHANGED <<tokens, program, error>>
  BY DEF SelectList, InStatement, InSelect
<1>2. PICK s, o, n, m : Here(s, o, n, m)
  BY <1>1, Inside
<1>3. /\ s = statement /\ o = Base(s) /\ n = position /\ m = Len(program)
      /\ Reading("select list", s, n, m) /\ Sized(s, o) /\ Room(o) /\ s \in Draft
      /\ tokens \in TokenLists /\ n \in DOMAIN tokens /\ tokens[n] \in Token
      /\ s.kind = "SELECT" /\ s.columns = <<>> /\ ~s.all
  <2>1. /\ s = statement /\ o = Base(s) /\ n = position /\ m = Len(program)
        /\ Reading("select list", s, n, m) /\ Sized(s, o) /\ Room(o) /\ s \in Draft
        /\ tokens \in TokenLists /\ n \in DOMAIN tokens /\ tokens[n] \in Token
    BY <1>1, <1>2 DEF Here
  <2>2. s.kind = "SELECT"
    BY <1>1, <2>1 DEF ParserInv, DraftFits
  <2>3. s.columns = <<>> /\ ~s.all
    BY <1>1, <2>1 DEF SpellInv, Fresh
  <2> QED
    BY <2>1, <2>2, <2>3
<1>4. /\ o \in Nat /\ n = o + 2 /\ Kind(o + 1) = "SELECT" /\ DoneCount(o, m)
      /\ Len(program)' = m
  BY <1>1, <1>3 DEF Reading, SelectRead, Sized
<1>5. CurrentType = "STAR" <=> Kind(n) = "STAR"
  BY <1>3, KindIs DEF CurrentType, TokenType, Punctuation
<1>6. CASE Kind(n) = "STAR"
  <2>1. Behind(n) = n + 1
    BY <1>3, <1>6, Onward
  <2>2. PICK t : t = [s EXCEPT !.all = TRUE]
    OBVIOUS
  <2>3. pc' = "from" /\ position' = n + 1 /\ statement' = t
    BY <1>3, <1>5, <1>6, <2>1, <2>2 DEF SelectList
  <2>4. t.kind = "SELECT" /\ t.all /\ Base(t) = o
    BY <1>3, <2>2 DEF Draft, Base
  <2>5. Width(t) = 1 /\ Chosen(t, o, Width(t))
    BY <1>4, <1>6, <2>4 DEF Width, Chosen
  <2>6. n + 1 = o + (1 + Width(t)) + 1
    BY <1>4, <2>5
  <2>7. SelectRead("from", t, o, n + 1)
    BY <2>4, <2>5, <2>6 DEF SelectRead
  <2>8. Reading("from", t, n + 1, m) /\ "from" \in InStatement
    BY <1>4, <2>4, <2>7 DEF Reading, InStatement, InSelect
  <2> QED
    BY <1>1, <1>4, <2>3, <2>8, StatementStep
<1>7. CASE Kind(n) # "STAR"
  <2>1. pc' = "column" /\ position' = n /\ statement' = s
    BY <1>3, <1>5, <1>7 DEF SelectList
  <2>2. Chosen(s, o, 0)
    <3>1. Alternating(o + 1, 0, {"IDENTIFIER"})
      BY DEF Alternating
    <3> QED
      BY <1>3, <1>4, <3>1 DEF Chosen
  <2>3. n = o + 1 + 2 * Len(s.columns) + 1 /\ 2 * Len(s.columns) = 0
    <3>1. Len(s.columns) = 0
      BY <1>3, EmptySeq
    <3> QED
      BY <1>4, <3>1
  <2>4. SelectRead("column", s, o, n)
    BY <1>3, <1>4, <1>7, <2>2, <2>3 DEF SelectRead
  <2>5. Reading("column", s, n, m) /\ "column" \in InStatement
    BY <1>3, <1>4, <2>4 DEF Reading, InStatement
  <2> QED
    BY <1>1, <1>4, <2>1, <2>5, StatementStep
<1> QED
  BY <1>6, <1>7

(* A list with one element more, and with the comma behind it.             *)
LEMMA OneMoreElement ==
    ASSUME NEW p \in Nat, NEW c \in Nat, NEW S, Alternating(p, 2 * c, S),
           Kind(p + 2 * c + 1) \in S
    PROVE  /\ Alternating(p, 2 * (c + 1) - 1, S)
           /\ Kind(p + 2 * c + 2) = "COMMA" => Alternating(p, 2 * (c + 1), S)
<1>1. ASSUME NEW i \in 1 .. 2 * (c + 1) - 1
      PROVE  Kind(p + i) \in Alternate(i, S)
  <2>1. CASE i \in 1 .. 2 * c
    BY <2>1 DEF Alternating
  <2>2. CASE i = 2 * c + 1
    <3>1. i % 2 = 1 /\ p + i = p + 2 * c + 1
      BY <2>2
    <3> QED
      BY <3>1 DEF Alternate
  <2> QED
    BY <2>1, <2>2
<1>2. ASSUME Kind(p + 2 * c + 2) = "COMMA", NEW i \in 1 .. 2 * (c + 1)
      PROVE  Kind(p + i) \in Alternate(i, S)
  <2>1. CASE i \in 1 .. 2 * (c + 1) - 1
    BY <1>1, <2>1
  <2>2. CASE i = 2 * (c + 1)
    <3>1. i % 2 # 1 /\ p + i = p + 2 * c + 2
      BY <2>2
    <3> QED
      BY <1>2, <3>1 DEF Alternate
  <2> QED
    BY <2>1, <2>2
<1> QED
  BY <1>1, <1>2 DEF Alternating

LEMMA ElementPlaces ==
    ASSUME NEW o \in Nat, NEW b \in Nat, NEW c \in Nat, NEW n, n = o + b + 2 * c + 1
    PROVE  /\ o + b \in Nat /\ n + 1 = (o + b) + 2 * c + 2 /\ n = (o + b) + 2 * c + 1
           /\ n + 1 = o + b + 2 * (c + 1) /\ n + 2 = o + b + 2 * (c + 1) + 1
           /\ 2 * (c + 1) # 0
OBVIOUS

ElementTaken(o, b, c, S, n) ==
    /\ Alternating(o + b, 2 * (c + 1) - 1, S)
    /\ Kind(n + 1) = "COMMA" => Alternating(o + b, 2 * (c + 1), S)
    /\ n + 1 = o + b + 2 * (c + 1) /\ n + 2 = o + b + 2 * (c + 1) + 1
    /\ 2 * (c + 1) # 0

LEMMA ListTaken ==
    ASSUME NEW o \in Nat, NEW b \in Nat, NEW c \in Nat, NEW S, Alternating(o + b, 2 * c, S),
           NEW n, n = o + b + 2 * c + 1, Kind(n) \in S
    PROVE  ElementTaken(o, b, c, S, n)
<1>1. /\ o + b \in Nat /\ n + 1 = (o + b) + 2 * c + 2 /\ n = (o + b) + 2 * c + 1
      /\ n + 1 = o + b + 2 * (c + 1) /\ n + 2 = o + b + 2 * (c + 1) + 1
      /\ 2 * (c + 1) # 0
  BY ElementPlaces
<1>2. Kind((o + b) + 2 * c + 1) \in S
  BY <1>1
<1> QED
  BY <1>1, <1>2, OneMoreElement DEF ElementTaken

(* A comma that is taken behind the last element there may be.             *)
LEMMA FullError ==
    ASSUME NEW o, NEW b, NEW N, NEW S, NEW z, ListOf(o, b, N, S, z), Room(o), z # "COMMA",
           NEW c \in Nat \ {0}, Alternating(o + b, 2 * c, S),
           \E k \in N : c <= k, \A k \in N : k <= c,
           NEW n, n = o + b + 2 * c + 1
    PROVE  FirstError(n - 1)
<1>1. o \in Nat /\ b \in Nat
  BY DEF ListOf
<1>2. n - 1 = o + b + 2 * c
  BY <1>1
<1>3. Kind(o + b + 2 * c) = "COMMA"
  <2>1. 2 * c \in 1 .. 2 * c /\ (2 * c) % 2 # 1
    OBVIOUS
  <2>2. Kind((o + b) + 2 * c) \in Alternate(2 * c, S)
    BY <2>1 DEF Alternating
  <2>3. Alternate(2 * c, S) = {"COMMA"}
    BY <2>1 DEF Alternate
  <2> QED
    BY <2>2, <2>3
<1>4. Alternating(o + b, 2 * c - 1, S)
  <2>1. \A i \in 1 .. 2 * c - 1 : i \in 1 .. 2 * c
    OBVIOUS
  <2> QED
    BY <2>1 DEF Alternating
<1>5. FirstError(o + b + 2 * c)
  BY <1>3, <1>4, EndError
<1> QED
  BY <1>2, <1>5

LEMMA ColumnKept ==
    ASSUME NEW s \in Draft, NEW name \in Text, NEW p, NEW t, t = WithColumn(s, name, p)
    PROVE  /\ t.kind = s.kind /\ t.all = s.all /\ t.has_list = s.has_list
           /\ Base(t) = Base(s) /\ t.values = s.values
           /\ Len(s.columns) \in Nat /\ Len(t.columns) = Len(s.columns) + 1
<1>1. PICK w, names : /\ w = [s.where EXCEPT !.columns = Append(@, p)]
                      /\ names = Append(s.columns, name)
  OBVIOUS
<1>2. t = [s EXCEPT !.columns = names, !.where = w]
  BY <1>1 DEF WithColumn
<1>3. s.where \in Locations /\ s.columns \in Seq(Text)
  BY DEF Draft
<1>4. w.start = s.where.start
  BY <1>1, <1>3 DEF Locations
<1>5. Len(s.columns) \in Nat /\ Len(names) = Len(s.columns) + 1
  BY <1>1, <1>3, LenProperties, AppendProperties
<1> QED
  BY <1>2, <1>4, <1>5 DEF Draft, Base

(* The list of names that the n-th token is in, behind the b-th place.     *)
Naming(s, o, b, z, n) ==
    /\ ListOf(o, b, 1 .. MaxColumns, {"IDENTIFIER"}, z) /\ z # "COMMA"
    /\ Alternating(o + b, 2 * Len(s.columns), {"IDENTIFIER"})
    /\ n = o + b + 2 * Len(s.columns) + 1

LEMMA NamingOf ==
    ASSUME NEW s, NEW o, o = Base(s), Sized(s, o), NEW n, NEW m, Reading("column", s, n, m)
    PROVE  \E b, z : Naming(s, o, b, z, n)
<1>1. o \in Nat /\ s.kind \in {"INSERT", "SELECT"}
  BY DEF Sized, Reading
<1>2. CASE s.kind = "INSERT"
  <2>1. n = o + 4 + 2 * Len(s.columns) + 1 /\ Named(o, 2 * Len(s.columns))
    BY <1>2 DEF Reading, InsertRead
  <2>2. ListOf(o, 4, 1 .. MaxColumns, {"IDENTIFIER"}, "RPAREN")
    BY <1>1, <2>1, NamesOf DEF Named
  <2>3. Naming(s, o, 4, "RPAREN", n)
    BY <2>1, <2>2 DEF Naming, Named
  <2> QED
    BY <2>3
<1>3. CASE s.kind = "SELECT"
  <2>1. /\ n = o + 1 + 2 * Len(s.columns) + 1 /\ Chosen(s, o, 2 * Len(s.columns))
        /\ ~s.all /\ Kind(o + 2) # "STAR"
    BY <1>3 DEF Reading, SelectRead
  <2>2. Kind(o + 1) = "SELECT" /\ Alternating(o + 1, 2 * Len(s.columns), {"IDENTIFIER"})
    BY <2>1 DEF Chosen
  <2>3. ListOf(o, 1, 1 .. MaxColumns, {"IDENTIFIER"}, "FROM")
    BY <1>1, <2>1, <2>2, SelectedOf
  <2>4. Naming(s, o, 1, "FROM", n)
    BY <2>1, <2>2, <2>3 DEF Naming
  <2> QED
    BY <2>4
<1> QED
  BY <1>1, <1>2, <1>3

LEMMA NameTaken ==
    ASSUME NEW s, NEW o, o = Base(s), Sized(s, o), NEW n, NEW m, Reading("column", s, n, m),
           Kind(n) = "IDENTIFIER", NEW t, t.kind = s.kind, t.all = s.all,
           t.has_list = s.has_list, Base(t) = o, Len(t.columns) = Len(s.columns) + 1
    PROVE  /\ Kind(n + 1) = "COMMA" => Reading("column", t, n + 2, m)
           /\ Kind(n + 1) # "COMMA" =>
                Reading(IF s.kind = "INSERT" THEN "close_columns" ELSE "from", t, n + 1, m)
<1>0. o \in Nat
  BY DEF Sized
<1>1. s.kind \in {"INSERT", "SELECT"} /\ DoneCount(o, m)
  BY DEF Reading
<1>2. PICK c \in Nat : c = Len(s.columns) /\ Len(t.columns) = c + 1
  <2>1. Len(s.columns) \in Nat
    BY MaxColumnsAssumption DEF Sized
  <2> QED
    BY <2>1
<1>4. CASE s.kind = "INSERT"
  <2>1. n = o + 4 + 2 * c + 1 /\ Named(o, 2 * c) /\ s.has_list
    BY <1>2, <1>4 DEF Reading, InsertRead
  <2>2. Alternating(o + 4, 2 * c, {"IDENTIFIER"})
    BY <2>1 DEF Named
  <2>3. /\ Alternating(o + 4, 2 * (c + 1) - 1, {"IDENTIFIER"})
        /\ Kind(n + 1) = "COMMA" => Alternating(o + 4, 2 * (c + 1), {"IDENTIFIER"})
        /\ n + 1 = o + 4 + 2 * (c + 1) /\ n + 2 = o + 4 + 2 * (c + 1) + 1
        /\ 2 * (c + 1) # 0
    <3>1. /\ 4 \in Nat /\ o \in Nat /\ c \in Nat /\ Kind(n) \in {"IDENTIFIER"}
          /\ n = o + 4 + 2 * c + 1
      BY <1>0, <1>2, <2>1
    <3>2. ElementTaken(o, 4, c, {"IDENTIFIER"}, n)
      BY <2>2, <3>1, ListTaken
    <3> QED
      BY <3>2 DEF ElementTaken
  <2>4. /\ Named(o, 2 * (c + 1) - 1)
        /\ Kind(n + 1) = "COMMA" => Named(o, 2 * (c + 1))
    BY <2>1, <2>3 DEF Named
  <2>5. Kind(n + 1) = "COMMA" => InsertRead("column", t, o, n + 2)
    BY <1>2, <2>1, <2>3, <2>4 DEF InsertRead
  <2>6. Kind(n + 1) # "COMMA" => InsertRead("close_columns", t, o, n + 1)
    BY <1>2, <2>1, <2>3, <2>4 DEF InsertRead
  <2> QED
    BY <1>1, <1>4, <2>5, <2>6 DEF Reading
<1>5. CASE s.kind = "SELECT"
  <2>1. n = o + 1 + 2 * c + 1 /\ Chosen(s, o, 2 * c) /\ ~s.all /\ Kind(o + 2) # "STAR"
    BY <1>2, <1>5 DEF Reading, SelectRead
  <2>2. Kind(o + 1) = "SELECT" /\ Alternating(o + 1, 2 * c, {"IDENTIFIER"})
    BY <2>1 DEF Chosen
  <2>3. /\ Alternating(o + 1, 2 * (c + 1) - 1, {"IDENTIFIER"})
        /\ Kind(n + 1) = "COMMA" => Alternating(o + 1, 2 * (c + 1), {"IDENTIFIER"})
        /\ n + 1 = o + 1 + 2 * (c + 1) /\ n + 2 = o + 1 + 2 * (c + 1) + 1
        /\ 2 * (c + 1) # 0
    <3>1. /\ 1 \in Nat /\ o \in Nat /\ c \in Nat /\ Kind(n) \in {"IDENTIFIER"}
          /\ n = o + 1 + 2 * c + 1
      BY <1>0, <1>2, <2>1
    <3>2. ElementTaken(o, 1, c, {"IDENTIFIER"}, n)
      BY <2>2, <3>1, ListTaken
    <3> QED
      BY <3>2 DEF ElementTaken
  <2>4. /\ Chosen(t, o, 2 * (c + 1) - 1)
        /\ Kind(n + 1) = "COMMA" => Chosen(t, o, 2 * (c + 1))
    BY <2>1, <2>2, <2>3 DEF Chosen
  <2>5. PICK e \in Nat : e = 2 * (c + 1) - 1 /\ Width(t) = e /\ n + 1 = o + (1 + e) + 1
                         /\ n + 1 = o + 2 + e
    <3>1. Width(t) = 2 * (c + 1) - 1
      BY <1>2, <2>1 DEF Width
    <3>2. 2 * (c + 1) - 1 \in Nat /\ n + 1 = o + (1 + (2 * (c + 1) - 1)) + 1
          /\ n + 1 = o + 2 + (2 * (c + 1) - 1)
      BY <1>0, <2>3
    <3> QED
      BY <3>1, <3>2
  <2>6. Kind(n + 1) = "COMMA" => SelectRead("column", t, o, n + 2)
    BY <1>2, <2>1, <2>3, <2>4 DEF SelectRead
  <2>7. Kind(n + 1) # "COMMA" => SelectRead("from", t, o, n + 1)
    BY <1>2, <2>1, <2>3, <2>4, <2>5 DEF SelectRead
  <2> QED
    BY <1>1, <1>5, <2>6, <2>7 DEF Reading
<1> QED
  BY <1>1, <1>4, <1>5

LEMMA GrammarColumnName ==
    ASSUME ParserInv, GrammarInv, ColumnName
    PROVE  GrammarInv' /\ FirstErrorReported'
<1>1. pc = "column" /\ pc \in InStatement
  BY DEF ColumnName, InStatement
<1>2. PICK s, o, n, m : Here(s, o, n, m)
  BY <1>1, Inside
<1>3. /\ s = statement /\ o = Base(s) /\ n = position /\ m = Len(program)
      /\ Reading("column", s, n, m) /\ Sized(s, o) /\ Room(o) /\ s \in Draft
      /\ tokens \in TokenLists /\ n \in DOMAIN tokens
  BY <1>1, <1>2 DEF Here
<1>4. PICK b, z : Naming(s, o, b, z, n)
  BY <1>3, NamingOf
<1>5. PICK c \in Nat : c = Len(s.columns) /\ c <= MaxColumns
  <2>1. Len(s.columns) \in Nat /\ Len(s.columns) <= MaxColumns
    BY <1>3, MaxColumnsAssumption DEF Sized
  <2> QED
    BY <2>1
<1>6. /\ ListOf(o, b, 1 .. MaxColumns, {"IDENTIFIER"}, z) /\ z # "COMMA"
      /\ Alternating(o + b, 2 * c, {"IDENTIFIER"}) /\ n = o + b + 2 * c + 1
  BY <1>4, <1>5 DEF Naming
<1>7. CASE c >= MaxColumns
  <2>1. FailAt("columns", n)
    <3>1. /\ Len(statement.columns) >= MaxColumns
          /\ ~(Len(statement.columns) < MaxColumns)
      BY <1>3, <1>5, <1>7, MaxColumnsAssumption
    <3>2. Fail("columns")
      BY <3>1, Zenon DEF ColumnName
    <3> QED
      BY <1>3, <3>2 DEF Fail
  <2>2. /\ c \in Nat \ {0} /\ \E k \in 1 .. MaxColumns : c <= k
        /\ \A k \in 1 .. MaxColumns : k <= c
    BY <1>5, <1>7, MaxColumnsAssumption
  <2>3. FirstError(n - 1)
    BY <1>3, <1>6, <2>2, FullError
  <2> QED
    BY <2>1, <2>3, RefusesBefore
<1>8. CASE c < MaxColumns /\ NameFault # "none"
  <2>1. Fail(NameFault)
    <3>1. ~(Len(statement.columns) >= MaxColumns) /\ Len(statement.columns) < MaxColumns
      BY <1>3, <1>5, <1>8, MaxColumnsAssumption
    <3> QED
      BY <1>8, <3>1, Zenon DEF ColumnName
  <2>2. Kind(n) # "IDENTIFIER" => FirstError(n)
    <3>1. \E k \in 1 .. MaxColumns : c < k
      BY <1>8, MaxColumnsAssumption
    <3> QED
      BY <1>3, <1>6, <3>1, ElementError
  <2> QED
    BY <1>3, <1>8, <2>1, <2>2, NameRefused
<1>9. CASE c < MaxColumns /\ NameFault = "none"
  <2>1. Kind(n) = "IDENTIFIER"
    BY <1>3, <1>9, NameIs
  <2>2. Behind(n) = n + 1 /\ n + 1 \in DOMAIN tokens /\ tokens[n + 1] \in Token
        /\ n \in Nat
    BY <1>3, <2>1, Onward
  <2>3. CommaAt(n + 1) <=> Kind(n + 1) = "COMMA"
    BY <2>2, KindIs DEF CommaAt, TokenType, Punctuation
  <2>4. PICK t : t = WithColumn(s, CurrentText, n)
    OBVIOUS
  <2>5. /\ pc' = (CASE CommaAt(n + 1) -> "column"
                    [] ~CommaAt(n + 1) /\ s.kind = "INSERT" -> "close_columns"
                    [] ~CommaAt(n + 1) /\ s.kind = "SELECT" -> "from")
        /\ position' = (IF CommaAt(n + 1) THEN Behind(n + 1) ELSE n + 1)
        /\ statement' = t
        /\ UNCHANGED <<tokens, program, error>>
    <3>1. /\ ~(Len(statement.columns) >= MaxColumns)
          /\ ~(Len(statement.columns) < MaxColumns /\ NameFault # "none")
      BY <1>3, <1>5, <1>9, MaxColumnsAssumption
    <3>2. t = [statement EXCEPT !.columns = Append(@, CurrentText),
                                !.where.columns = Append(@, position)]
      BY <1>3, <2>4 DEF WithColumn
    <3> QED
      BY <1>3, <2>2, <3>1, <3>2, Zenon DEF ColumnName
  <2>6. /\ t.kind = s.kind /\ t.all = s.all /\ t.has_list = s.has_list /\ Base(t) = o
        /\ Len(t.columns) = Len(s.columns) + 1
    BY <1>3, <1>9, <2>4, IdentifierTaken, ColumnKept
  <2>7. /\ Kind(n + 1) = "COMMA" => Reading("column", t, n + 2, m)
        /\ Kind(n + 1) # "COMMA" =>
             Reading(IF s.kind = "INSERT" THEN "close_columns" ELSE "from", t, n + 1, m)
    BY <1>3, <2>1, <2>6, NameTaken
  <2>8. Len(program)' = m /\ s.kind \in {"INSERT", "SELECT"}
    BY <1>3, <2>5 DEF Reading
  <2>9. CASE Kind(n + 1) = "COMMA"
    <3>1. Behind(n + 1) = n + 2
      <4>1. Behind(n + 1) = n + 1 + 1
        BY <1>3, <2>2, <2>9, Onward
      <4> QED
        BY <2>2, <4>1
    <3>2. pc' = "column" /\ position' = n + 2 /\ "column" \in InStatement
      BY <2>3, <2>5, <2>9, <3>1 DEF InStatement
    <3> QED
      BY <2>5, <2>7, <2>8, <2>9, <3>2, StatementStep
  <2>10. CASE Kind(n + 1) # "COMMA"
    <3>1. PICK place : place = IF s.kind = "INSERT" THEN "close_columns" ELSE "from"
      OBVIOUS
    <3>2. pc' = place /\ position' = n + 1 /\ place \in InStatement
      BY <2>3, <2>5, <2>8, <2>10, <3>1 DEF InStatement, InInsert, InSelect
    <3>3. Reading(place, t, n + 1, m)
      BY <2>7, <2>10, <3>1
    <3> QED
      BY <2>5, <2>8, <3>2, <3>3, StatementStep
  <2> QED
    BY <2>9, <2>10
<1>10. c >= MaxColumns \/ c < MaxColumns
  BY <1>5, MaxColumnsAssumption
<1> QED
  BY <1>7, <1>8, <1>9, <1>10, Zenon

(* The values: how many there may be, and what is read with one more.      *)
Full(s, c) == (\E k \in Counts(s) : c <= k) /\ \A k \in Counts(s) : k <= c

LEMMA CountFacts ==
    ASSUME NEW s, NEW c \in Nat, c <= MaxColumns,
           s.has_list => Len(s.columns) \in 1 .. MaxColumns /\ c <= Len(s.columns)
    PROVE  /\ c >= MaxColumns => Full(s, c)
           /\ s.has_list /\ c >= Len(s.columns) => Full(s, c)
           /\ c < MaxColumns /\ ~(s.has_list /\ c >= Len(s.columns)) => \E k \in Counts(s) : c < k
<1>1. CASE s.has_list
  <2>1. PICK k \in 1 .. MaxColumns : k = Len(s.columns) /\ c <= k /\ Counts(s) = {k}
    BY <1>1 DEF Counts
  <2>2. k \in Nat /\ MaxColumns \in Nat
    BY <2>1, MaxColumnsAssumption
  <2>3. (c >= MaxColumns => c = k) /\ (c >= k => c = k) /\ (~(c >= k) => c < k)
    BY <2>1, <2>2
  <2>4. c = k => Full(s, c)
    BY <2>1, <2>2 DEF Full
  <2>5. c < k => \E i \in Counts(s) : c < i
    BY <2>1
  <2> QED
    BY <1>1, <2>1, <2>3, <2>4, <2>5
<1>2. CASE ~s.has_list
  <2>1. Counts(s) = 1 .. MaxColumns
    BY <1>2 DEF Counts
  <2>2. c >= MaxColumns => Full(s, c)
    BY <2>1, MaxColumnsAssumption DEF Full
  <2>3. c < MaxColumns => \E k \in Counts(s) : c < k
    BY <2>1, MaxColumnsAssumption
  <2> QED
    BY <1>2, <2>2, <2>3
<1> QED
  BY <1>1, <1>2

Valuing(s, o, b, c, n) ==
    /\ b = Height(s) + 2 /\ b \in Nat /\ c = Len(s.values) /\ c \in Nat /\ c <= MaxColumns
    /\ ListOf(o, b, Counts(s), {"NUMBER", "STRING"}, "RPAREN") /\ Valued(s, o, 0)
    /\ Alternating(o + b, 2 * c, {"NUMBER", "STRING"}) /\ n = o + b + 2 * c + 1
    /\ s.has_list => Len(s.columns) \in 1 .. MaxColumns /\ c <= Len(s.columns)

LEMMA ValuingOf ==
    ASSUME NEW s, NEW o, Sized(s, o), NEW n, InsertRead("value", s, o, n)
    PROVE  \E b, c : Valuing(s, o, b, c, n)
<1>1. PICK b, c : b = Height(s) + 2 /\ c = Len(s.values)
  OBVIOUS
<1>2. o \in Nat /\ c \in Nat /\ c <= MaxColumns /\ Len(s.columns) \in Nat
      /\ Len(s.columns) <= MaxColumns
  BY <1>1, MaxColumnsAssumption DEF Sized
<1>3. b \in Nat
  <2>1. Height(s) \in Nat
    BY <1>2 DEF Height
  <2> QED
    BY <1>1, <2>1
<1>4. n = o + b + 2 * c + 1 /\ Valued(s, o, 2 * c) /\ (s.has_list => c <= Len(s.columns))
  BY <1>1 DEF InsertRead
<1>5. Alternating(o + b, 2 * c, {"NUMBER", "STRING"}) /\ Listed(s, o)
  BY <1>1, <1>4 DEF Valued
<1>6. Valued(s, o, 0)
  BY <1>4 DEF Valued, Alternating
<1>7. ListOf(o, b, Counts(s), {"NUMBER", "STRING"}, "RPAREN")
  BY <1>1, <1>6, ValuesOf
<1>8. s.has_list => Len(s.columns) \in 1 .. MaxColumns
  BY <1>2, <1>5, MaxColumnsAssumption DEF Listed
<1> QED
  BY <1>1, <1>2, <1>3, <1>4, <1>5, <1>6, <1>7, <1>8 DEF Valuing

LEMMA ValueKept ==
    ASSUME NEW s \in Draft, NEW value \in Literal, NEW p, NEW t, t = WithValue(s, value, p)
    PROVE  /\ t.kind = s.kind /\ t.has_list = s.has_list /\ t.columns = s.columns
           /\ Base(t) = Base(s)
           /\ Len(s.values) \in Nat /\ Len(t.values) = Len(s.values) + 1
<1>1. PICK w, values : /\ w = [s.where EXCEPT !.values = Append(@, p)]
                       /\ values = Append(s.values, value)
  OBVIOUS
<1>2. t = [s EXCEPT !.values = values, !.where = w]
  BY <1>1 DEF WithValue
<1>3. s.where \in Locations /\ s.values \in Seq(Literal)
  BY DEF Draft
<1>4. w.start = s.where.start
  BY <1>1, <1>3 DEF Locations
<1>5. Len(s.values) \in Nat /\ Len(values) = Len(s.values) + 1
  BY <1>1, <1>3, LenProperties, AppendProperties
<1> QED
  BY <1>2, <1>4, <1>5 DEF Draft, Base

LEMMA ValueTaken ==
    ASSUME NEW s, NEW o \in Nat, NEW b, NEW c, NEW n, Valuing(s, o, b, c, n),
           Kind(n) \in {"NUMBER", "STRING"}, NEW t, t.has_list = s.has_list,
           t.columns = s.columns, Len(t.values) = c + 1
    PROVE  /\ /\ Kind(n + 1) = "COMMA" /\ (s.has_list => c + 1 <= Len(s.columns))
              => InsertRead("value", t, o, n + 2)
           /\ /\ Kind(n + 1) # "COMMA" /\ (s.has_list => c + 1 = Len(s.columns))
              => InsertRead("close_values", t, o, n + 1)
<1>1. /\ b \in Nat /\ c \in Nat /\ Alternating(o + b, 2 * c, {"NUMBER", "STRING"})
      /\ n = o + b + 2 * c + 1
  BY DEF Valuing
<1>2. ElementTaken(o, b, c, {"NUMBER", "STRING"}, n)
  BY <1>1, ListTaken
<1>3. Height(t) = Height(s) /\ b = Height(s) + 2
  BY DEF Height, Valuing
<1>4. /\ Listed(s, o) /\ Kind(o + Height(s) + 1) = "VALUES"
      /\ Kind(o + Height(s) + 2) = "LPAREN"
  BY DEF Valuing, Valued
<1>5. Listed(t, o)
  BY <1>4 DEF Listed
<1>6. /\ Valued(t, o, 2 * (c + 1) - 1)
      /\ Kind(n + 1) = "COMMA" => Valued(t, o, 2 * (c + 1))
  BY <1>2, <1>3, <1>4, <1>5 DEF ElementTaken, Valued
<1>7. /\ n + 1 = o + (Height(t) + 2) + 2 * (c + 1)
      /\ n + 2 = o + (Height(t) + 2) + 2 * (c + 1) + 1 /\ 2 * (c + 1) # 0
  BY <1>2, <1>3 DEF ElementTaken
<1>8. ASSUME Kind(n + 1) = "COMMA", s.has_list => c + 1 <= Len(s.columns)
      PROVE  InsertRead("value", t, o, n + 2)
  BY <1>6, <1>7, <1>8 DEF InsertRead
<1>9. ASSUME Kind(n + 1) # "COMMA", s.has_list => c + 1 = Len(s.columns)
      PROVE  InsertRead("close_values", t, o, n + 1)
  BY <1>6, <1>7, <1>9 DEF InsertRead
<1> QED
  BY <1>8, <1>9

LEMMA ValueErrors ==
    ASSUME NEW s, NEW o, Room(o), NEW b, NEW c, NEW n, Valuing(s, o, b, c, n)
    PROVE  /\ Full(s, c) => FirstError(n - 1)
           /\ (\E k \in Counts(s) : c < k) /\ Kind(n) \notin {"NUMBER", "STRING"}
                => FirstError(n)
           /\ /\ Kind(n) \in {"NUMBER", "STRING"} /\ Kind(n + 1) # "COMMA" /\ s.has_list
              /\ ~(c >= Len(s.columns)) /\ c + 1 # Len(s.columns)
              => FirstError(n + 1)
<1> DEFINE S == {"NUMBER", "STRING"}
<1>1. /\ b \in Nat /\ c \in Nat /\ ListOf(o, b, Counts(s), S, "RPAREN")
      /\ Alternating(o + b, 2 * c, S) /\ n = o + b + 2 * c + 1
  BY DEF Valuing
<1>2. o \in Nat /\ Counts(s) \subseteq 1 .. MaxColumns /\ b \in Nat /\ c \in Nat
  BY <1>1 DEF ListOf
<1>3. Full(s, c) => FirstError(n - 1)
  <2> SUFFICES ASSUME Full(s, c) PROVE FirstError(n - 1)
    OBVIOUS
  <2>1. (\E k \in Counts(s) : c <= k) /\ (\A k \in Counts(s) : k <= c)
    BY DEF Full
  <2>2. c \in Nat \ {0}
    <3>1. PICK k \in 1 .. MaxColumns : k <= c
      BY <1>2, <2>1
    <3> QED
      BY <1>2, <3>1, MaxColumnsAssumption
  <2> QED
    BY <1>1, <2>1, <2>2, FullError
<1>4. (\E k \in Counts(s) : c < k) /\ Kind(n) \notin S => FirstError(n)
  BY <1>1, ElementError
<1>5. ASSUME Kind(n) \in S, Kind(n + 1) # "COMMA", s.has_list, ~(c >= Len(s.columns)),
             c + 1 # Len(s.columns)
      PROVE  FirstError(n + 1)
  <2>1. PICK k \in 1 .. MaxColumns : k = Len(s.columns)
    BY <1>5 DEF Valuing
  <2>2. Counts(s) = {k}
    BY <1>5, <2>1 DEF Counts
  <2>3. k \in Nat /\ c \in Nat /\ ~(c >= k) /\ c + 1 # k
    BY <1>2, <1>5, <2>1, MaxColumnsAssumption
  <2>4. c + 1 <= k /\ c + 1 \in Nat \ {0}
    BY <2>3
  <2>5. ElementTaken(o, b, c, S, n)
    BY <1>1, <1>2, <1>5, ListTaken
  <2>6. Alternating(o + b, 2 * (c + 1) - 1, S) /\ n + 1 = o + b + 2 * (c + 1)
    BY <2>5 DEF ElementTaken
  <2>7. PICK m : m = c + 1
    OBVIOUS
  <2>8. /\ m \in Nat \ {0} /\ Alternating(o + b, 2 * m - 1, S) /\ n + 1 = o + b + 2 * m
        /\ (\E j \in Counts(s) : m <= j) /\ m \notin Counts(s)
        /\ Kind(o + b + 2 * m) # "COMMA"
    BY <1>5, <2>2, <2>3, <2>4, <2>6, <2>7
  <2>9. FirstError(o + b + 2 * m)
    BY <1>1, <2>8, EndError
  <2> QED
    BY <2>8, <2>9
<1> QED
  BY <1>3, <1>4, <1>5

LEMMA GrammarValue ==
    ASSUME ParserInv, GrammarInv, Value
    PROVE  GrammarInv' /\ FirstErrorReported'
<1>1. pc = "value" /\ pc \in InStatement /\ pc \in InInsert
  BY DEF Value, InStatement, InInsert
<1>2. PICK s, o, n, m : Here(s, o, n, m)
  BY <1>1, Inside
<1>3. /\ s = statement /\ o = Base(s) /\ n = position /\ m = Len(program)
      /\ Reading("value", s, n, m) /\ Sized(s, o) /\ Room(o) /\ s \in Draft
      /\ tokens \in TokenLists /\ n \in DOMAIN tokens /\ tokens[n] \in Token
      /\ s.kind = "INSERT"
  <2>1. /\ s = statement /\ o = Base(s) /\ n = position /\ m = Len(program)
        /\ Reading("value", s, n, m) /\ Sized(s, o) /\ Room(o) /\ s \in Draft
        /\ tokens \in TokenLists /\ n \in DOMAIN tokens /\ tokens[n] \in Token
    BY <1>1, <1>2 DEF Here
  <2>2. s.kind = "INSERT"
    BY <1>1, <2>1 DEF ParserInv, DraftFits
  <2> QED
    BY <2>1, <2>2
<1>4. InsertRead("value", s, o, n) /\ DoneCount(o, m) /\ o \in Nat
  BY <1>3 DEF Reading, Sized
<1>5. PICK b, c : Valuing(s, o, b, c, n)
  BY <1>3, <1>4, ValuingOf
<1>6. /\ c = Len(s.values) /\ c \in Nat /\ c <= MaxColumns
      /\ s.has_list => Len(s.columns) \in 1 .. MaxColumns /\ c <= Len(s.columns)
  BY <1>5 DEF Valuing
<1>7. PICK enough \in BOOLEAN : enough = (s.has_list /\ c >= Len(s.columns))
  OBVIOUS
<1>8. /\ c >= MaxColumns => Full(s, c)
      /\ enough => Full(s, c)
      /\ c < MaxColumns /\ ~enough => \E k \in Counts(s) : c < k
  BY <1>6, <1>7, CountFacts
<1>9. /\ Full(s, c) => FirstError(n - 1)
      /\ (\E k \in Counts(s) : c < k) /\ Kind(n) \notin {"NUMBER", "STRING"} => FirstError(n)
      /\ /\ Kind(n) \in {"NUMBER", "STRING"} /\ Kind(n + 1) # "COMMA" /\ s.has_list
         /\ ~(c >= Len(s.columns)) /\ c + 1 # Len(s.columns)
         => FirstError(n + 1)
  BY <1>3, <1>5, ValueErrors
<1>10. /\ Len(statement.values) = c /\ (Enough(c) <=> enough)
       /\ TooFew(c + 1) <=> s.has_list /\ c + 1 # Len(s.columns)
  BY <1>3, <1>6, <1>7 DEF Enough, TooFew
<1>11. CurrentType \in DOMAIN LiteralType <=> Kind(n) \in {"NUMBER", "STRING"}
  <2>1. DOMAIN LiteralType = {"NUMBER", "STRING"} /\ CurrentType = tokens[n].type
    BY <1>3 DEF LiteralType, CurrentType
  <2>2. /\ Kind(n) = "NUMBER" <=> tokens[n].type = "NUMBER"
        /\ Kind(n) = "STRING" <=> tokens[n].type = "STRING"
    BY <1>3, KindIs DEF TokenType
  <2> QED
    BY <2>1, <2>2
<1>12. CASE c >= MaxColumns
  <2>1. FailAt("values", n)
    <3>1. ~(c < MaxColumns)
      BY <1>6, <1>12, MaxColumnsAssumption
    <3>2. Fail("values")
      BY <1>10, <1>12, <3>1, Zenon DEF Value
    <3> QED
      BY <1>3, <3>2 DEF Fail
  <2> QED
    BY <1>8, <1>9, <1>12, <2>1, RefusesBefore
<1>13. CASE ~(c >= MaxColumns) /\ c < MaxColumns /\ enough
  <2>1. FailAt("more values", n)
    <3>1. Fail("more values")
      BY <1>10, <1>13, Zenon DEF Value
    <3> QED
      BY <1>3, <3>1 DEF Fail
  <2> QED
    BY <1>8, <1>9, <1>13, <2>1, RefusesBefore
<1>14. CASE /\ ~(c >= MaxColumns) /\ c < MaxColumns /\ ~enough
            /\ Kind(n) \notin {"NUMBER", "STRING"}
  <2>1. FailAt("literal", n)
    <3>1. Fail("literal")
      BY <1>10, <1>11, <1>14, Zenon DEF Value
    <3> QED
      BY <1>3, <3>1 DEF Fail
  <2> QED
    BY <1>8, <1>9, <1>14, <2>1, RefusesHere
<1>15. CASE /\ ~(c >= MaxColumns) /\ c < MaxColumns /\ ~enough
            /\ Kind(n) \in {"NUMBER", "STRING"}
  <2>1. /\ Behind(position) = n + 1 /\ n + 1 \in DOMAIN tokens /\ tokens[n + 1] \in Token
        /\ n \in Nat
    BY <1>3, <1>15, Onward
  <2>2. CommaAt(n + 1) <=> Kind(n + 1) = "COMMA"
    BY <2>1, KindIs DEF CommaAt, TokenType, Punctuation
  <2>3. CASE Kind(n + 1) # "COMMA" /\ s.has_list /\ c + 1 # Len(s.columns)
    <3>1. FailAt("mismatch", n + 1 - 1)
      <4>1. /\ ~(Len(statement.values) >= MaxColumns) /\ Len(statement.values) < MaxColumns
            /\ ~Enough(Len(statement.values)) /\ CurrentType \in DOMAIN LiteralType
            /\ ~CommaAt(Behind(position)) /\ TooFew(Len(statement.values) + 1)
        BY <1>10, <1>11, <1>15, <2>1, <2>2, <2>3
      <4>2. FailAt("mismatch", Behind(position) - 1)
        BY <4>1, Zenon DEF Value
      <4> QED
        BY <2>1, <4>2
    <3>2. n + 1 - 1 = n
      BY <2>1
    <3>3. FailAt("mismatch", n)
      BY <3>1, <3>2
    <3> QED
      BY <1>7, <1>9, <1>15, <2>3, <3>3, RefusesBehind
  <2>4. CASE ~(Kind(n + 1) # "COMMA" /\ s.has_list /\ c + 1 # Len(s.columns))
    <3>1. PICK value, t : /\ value = [text |-> CurrentText, type |-> LiteralType[CurrentType]]
                          /\ t = WithValue(s, value, n)
      OBVIOUS
    <3>2. /\ pc' = (IF CommaAt(n + 1) THEN "value" ELSE "close_values")
          /\ position' = (IF CommaAt(n + 1) THEN Behind(n + 1) ELSE n + 1)
          /\ statement' = t
          /\ UNCHANGED <<tokens, program, error>>
      <4>1. t = [statement EXCEPT
                    !.values = Append(@, [text |-> CurrentText,
                                          type |-> LiteralType[CurrentType]]),
                    !.where.values = Append(@, position)]
        BY <1>3, <3>1 DEF WithValue
      <4> QED
        BY <1>10, <1>11, <1>15, <2>1, <2>2, <2>4, <4>1, Zenon DEF Value
    <3>3. value \in Literal
      <4>1. CurrentText \in Text /\ CurrentType \in {"NUMBER", "STRING"}
        <5>1. DOMAIN LiteralType = {"NUMBER", "STRING"}
          BY DEF LiteralType
        <5> QED
          BY <1>3, <1>11, <1>15, <5>1 DEF CurrentText, Token
      <4>2. LiteralType[CurrentType] = IF CurrentType = "NUMBER" THEN "INT" ELSE "STRING"
        BY <4>1 DEF LiteralType
      <4> QED
        BY <3>1, <4>1, <4>2 DEF Literal, DataType
    <3>4. /\ t.kind = "INSERT" /\ t.has_list = s.has_list /\ t.columns = s.columns
          /\ Base(t) = o /\ Len(t.values) = c + 1
      BY <1>3, <1>6, <3>1, <3>3, ValueKept
    <3>5. /\ /\ Kind(n + 1) = "COMMA" /\ (s.has_list => c + 1 <= Len(s.columns))
             => InsertRead("value", t, o, n + 2)
          /\ /\ Kind(n + 1) # "COMMA" /\ (s.has_list => c + 1 = Len(s.columns))
             => InsertRead("close_values", t, o, n + 1)
      BY <1>4, <1>5, <1>15, <3>4, ValueTaken
    <3>6. Len(program)' = m
      BY <1>3, <3>2
    <3>7. CASE Kind(n + 1) = "COMMA"
      <4>1. Behind(n + 1) = n + 2
        <5>1. Behind(n + 1) = n + 1 + 1
          BY <1>3, <2>1, <3>7, Onward
        <5> QED
          BY <2>1, <5>1
      <4>2. pc' = "value" /\ position' = n + 2
        BY <2>2, <3>2, <3>7, <4>1
      <4>3. s.has_list => c + 1 <= Len(s.columns)
        <5> SUFFICES ASSUME s.has_list PROVE c + 1 <= Len(s.columns)
          OBVIOUS
        <5>1. PICK k \in 1 .. MaxColumns : k = Len(s.columns)
          BY <1>6
        <5>2. ~(c >= k) /\ c \in Nat
          BY <1>6, <1>7, <1>15, <5>1, Zenon
        <5>3. k \in Nat
          BY <5>1, MaxColumnsAssumption
        <5>4. c + 1 <= k
          BY <5>2, <5>3
        <5> QED
          BY <5>1, <5>4
      <4>4. Reading("value", t, n + 2, m)
        BY <1>4, <3>4, <3>5, <3>7, <4>3 DEF Reading
      <4>5. "value" \in InStatement
        BY DEF InStatement, InInsert
      <4> QED
        BY <3>2, <3>6, <4>2, <4>4, <4>5, StatementStep
    <3>8. CASE Kind(n + 1) # "COMMA"
      <4>1. pc' = "close_values" /\ position' = n + 1
        BY <2>2, <3>2, <3>8
      <4>2. Reading("close_values", t, n + 1, m)
        BY <1>4, <2>4, <3>4, <3>5, <3>8 DEF Reading
      <4>3. "close_values" \in InStatement
        BY DEF InStatement, InInsert
      <4> QED
        BY <3>2, <3>6, <4>1, <4>2, <4>3, StatementStep
    <3> QED
      BY <3>7, <3>8
  <2> QED
    BY <2>3, <2>4
<1>16. c >= MaxColumns \/ (~(c >= MaxColumns) /\ c < MaxColumns)
  BY <1>6, MaxColumnsAssumption
<1> QED
  BY <1>12, <1>13, <1>14, <1>15, <1>16, Zenon

LEMMA GrammarStutter ==
    ASSUME GrammarInv, FirstErrorReported, UNCHANGED vars
    PROVE  GrammarInv' /\ FirstErrorReported'
<1>1. UNCHANGED <<tokens, pc, position, statement, program, error>>
  BY DEF vars
<1>2. PICK l, o, b, k : l = Len(tokens) /\ o = position - 1 /\ b = FirstBad /\ k = Len(program)
  OBVIOUS
<1>3. \A n : Kind(n)' = Kind(n) /\ TypesUpto(n)' = TypesUpto(n)
  BY <1>1, SameTokens
<1>4. (DoneCount(o, k)' <=> DoneCount(o, k)) /\ Viable' = Viable /\ Sentences' = Sentences
  BY <1>1, SameReading DEF Viable, Sentences, Legal, Inserts, Selects
<1>5. \A place, s, n, m : Reading(place, s, n, m)' <=> Reading(place, s, n, m)
  BY <1>1, SameReading
<1>6. /\ Len(tokens)' = l /\ (position - 1)' = o /\ FirstBad' = b /\ Len(program)' = k
      /\ pc' = pc /\ position' = position /\ statement' = statement /\ program' = program
  BY <1>1, <1>2 DEF FirstBad
<1>7. GrammarInv'
  BY <1>2, <1>3, <1>4, <1>5, <1>6 DEF GrammarInv
<1>8. FirstErrorReported'
  BY <1>2, <1>3, <1>4, <1>6 DEF FirstErrorReported
<1> QED
  BY <1>7, <1>8

LEMMA GrammarNext ==
    ParserInv /\ SpellInv /\ GrammarInv /\ FirstErrorReported /\ [Next]_vars
      => GrammarInv' /\ FirstErrorReported'
BY GrammarStart, GrammarNextStatement, GrammarConsume, GrammarInsertTable, GrammarSelectTable,
   GrammarSelectList, GrammarColumnName, GrammarValue, GrammarStutter, Zenon DEF Next

(* Every legal program is parsed, and any other list of tokens is refused  *)
(* at the first token that no legal program has there, whatever the limits *)
(* of columns and statements are: what parse_program has read of it so far *)
(* always begins some legal program.                                       *)
THEOREM FirstErrorCorrect == Spec => []FirstErrorReported
<1>1. Spec => []SpellInv
  BY SpellInit, SpellNext, Invariant, PTL DEF Spec
<1>2. Spec => [](GrammarInv /\ FirstErrorReported)
  BY GrammarInit, GrammarNext, Invariant, <1>1, PTL DEF Spec
<1> QED
  BY <1>2, PTL
=============================================================================
