------------------------------- MODULE Parser -------------------------------
(***************************************************************************)
(* parse_program of parser.c, a recursive descent, as one machine: pc says *)
(* what the function that is running expects next, one step per statement, *)
(* keyword, name or value.  It takes the tokens of Tokenizer and gives the *)
(* statements that the operators of Executor run.                          *)
(***************************************************************************)
EXTENDS Executor, SequencesExt

CONSTANTS MaxNameLen,      \* SQLPROC_MAX_NAME_LEN
          MaxStatements,   \* SQLPROC_MAX_STATEMENTS
          TokenLists       \* what the tokenizer may hand over

Keyword == {"INSERT", "INTO", "VALUES", "SELECT", "FROM"}
Punctuation == {"COMMA", "SEMICOLON", "LPAREN", "RPAREN", "STAR"}
TokenType == Keyword \cup Punctuation \cup {"EOF", "IDENTIFIER", "NUMBER", "STRING"}

(* tokenize_sql ends a list with its only end marker.                      *)
ASSUME ParserAssumption ==
    /\ MaxNameLen \in Nat /\ MaxStatements \in Nat \ {0}
    /\ TokenLists \subseteq Seq([type : TokenType, text : Text])
    /\ \A list \in TokenLists :
         /\ list # <<>>
         /\ \A i \in DOMAIN list : list[i].type = "EOF" <=> i = Len(list)

VARIABLES tokens,
          pc, position,    \* what is expected, and the index of current_token
          statement,       \* the statement that is being filled in
          program,         \* the statements that are complete
          error            \* which check failed, and the token it is reported at

vars == <<tokens, pc, position, statement, program, error>>

(* A zeroed statement.  "where" keeps the locations: the tokens that the   *)
(* table, the columns and the values were read from.                       *)
Zeroed == [kind |-> "none", all |-> FALSE, has_list |-> FALSE, table |-> <<>>,
           columns |-> <<>>, values |-> <<>>,
           where |-> [start |-> 0, table |-> 0, columns |-> <<>>, values |-> <<>>]]
StatementOf(s) ==
    IF s.kind = "INSERT"
    THEN [kind |-> "INSERT", has_list |-> s.has_list, columns |-> s.columns, values |-> s.values]
    ELSE [kind |-> "SELECT", all |-> s.all, columns |-> s.columns]

Init ==
    /\ tokens \in TokenLists
    /\ pc = "start" /\ position = 1
    /\ statement = Zeroed /\ program = <<>>
    /\ error = [message |-> "none", at |-> 0]

FailAt(message, n) == /\ pc' = "refused"
                      /\ error' = [message |-> message, at |-> n]
                      /\ UNCHANGED <<tokens, position, statement, program>>
Fail(message) == FailAt(message, position)

CurrentType == tokens[position].type
CurrentText == tokens[position].text
(* advance_token, from n: the end marker is never passed.                  *)
Behind(n) == IF n < Len(tokens) THEN n + 1 ELSE n
CommaAt(n) == tokens[n].type = "COMMA"

(* parse_identifier refuses a token that is no name, or too long a one.    *)
NameFault == CASE CurrentType # "IDENTIFIER" -> "identifier"
               [] CurrentType = "IDENTIFIER" /\ Len(CurrentText) >= MaxNameLen -> "name"
               [] OTHER -> "none"

-----------------------------------------------------------------------------
Start ==
    /\ pc = "start"
    /\ IF CurrentType = "EOF"
       THEN Fail("empty")
       ELSE pc' = "statement" /\ UNCHANGED <<tokens, position, statement, program, error>>

Begun(kind) == [Zeroed EXCEPT !.kind = kind, !.where.start = position]

NextStatement ==
    /\ pc = "statement"
    /\ CASE CurrentType = "EOF"
              -> pc' = "parsed" /\ UNCHANGED <<tokens, position, statement, program, error>>
         [] CurrentType # "EOF" /\ Len(program) >= MaxStatements -> Fail("statements")
         [] CurrentType \in {"INSERT", "SELECT"} /\ Len(program) < MaxStatements
              -> /\ pc' = IF CurrentType = "INSERT" THEN "into" ELSE "select list"
                 /\ position' = Behind(position)
                 /\ statement' = Begun(CurrentType)
                 /\ UNCHANGED <<tokens, program, error>>
         [] OTHER -> Fail("statement")

(* The calls of consume_token: the token that is needed, and what comes    *)
(* then.  A statement is counted before its semicolon is looked for.       *)
Needed == [into |-> "INTO", values |-> "VALUES", open |-> "LPAREN",
           close_columns |-> "RPAREN", close_values |-> "RPAREN",
           from |-> "FROM", semicolon |-> "SEMICOLON"]
Then == [into |-> "insert table", values |-> "open", open |-> "value",
         close_columns |-> "values", close_values |-> "semicolon",
         from |-> "select table", semicolon |-> "statement"]

Consume ==
    /\ pc \in DOMAIN Needed
    /\ IF CurrentType # Needed[pc]
       THEN Fail(Needed[pc])
       ELSE /\ pc' = Then[pc]
            /\ position' = Behind(position)
            /\ program' = IF Then[pc] = "semicolon" THEN Append(program, statement) ELSE program
            /\ UNCHANGED <<tokens, statement, error>>

(* Mutants: the location is taken when the token is gone; that there is a  *)
(* list of columns is not noted.                                           *)
TableRead_Behind(list) ==
    [statement EXCEPT !.table = CurrentText, !.has_list = list, !.where.table = Behind(position)]
TableRead_NoList(list) ==
    [statement EXCEPT !.table = CurrentText, !.where.table = position]
TableRead(list) ==
    [statement EXCEPT !.table = CurrentText, !.has_list = list, !.where.table = position]

InsertTable ==
    /\ pc = "insert table"
    /\ LET next == Behind(position)
           list == tokens[next].type = "LPAREN"
       IN  IF NameFault # "none"
           THEN Fail(NameFault)
           ELSE /\ pc' = IF list THEN "column" ELSE "values"
                /\ position' = IF list THEN Behind(next) ELSE next
                /\ statement' = TableRead(list)
                /\ UNCHANGED <<tokens, program, error>>

SelectTable ==
    /\ pc = "select table"
    /\ IF NameFault # "none"
       THEN Fail(NameFault)
       ELSE /\ pc' = "semicolon"
            /\ position' = Behind(position)
            /\ statement' = [statement EXCEPT !.table = CurrentText]
            /\ program' = Append(program, statement')
            /\ UNCHANGED <<tokens, error>>

SelectList ==
    /\ pc = "select list"
    /\ IF CurrentType = "STAR"
       THEN /\ pc' = "from"
            /\ position' = Behind(position)
            /\ statement' = [statement EXCEPT !.all = TRUE]
       ELSE pc' = "column" /\ UNCHANGED <<position, statement>>
    /\ UNCHANGED <<tokens, program, error>>

(* One turn of the loops over the columns of an INSERT and of a SELECT.    *)
ColumnName ==
    /\ pc = "column"
    /\ LET next == Behind(position)
       IN  CASE Len(statement.columns) >= MaxColumns -> Fail("columns")
             [] Len(statement.columns) < MaxColumns /\ NameFault # "none" -> Fail(NameFault)
             [] OTHER
                  -> /\ pc' = CASE CommaAt(next) -> "column"
                                [] ~CommaAt(next) /\ statement.kind = "INSERT" -> "close_columns"
                                [] ~CommaAt(next) /\ statement.kind = "SELECT" -> "from"
                     /\ position' = IF CommaAt(next) THEN Behind(next) ELSE next
                     /\ statement' =
                          [statement EXCEPT !.columns = Append(@, CurrentText),
                                            !.where.columns = Append(@, position)]
                     /\ UNCHANGED <<tokens, program, error>>

(* One turn of the loop of parse_value_list, and the check behind it.      *)
LiteralType == [t \in {"NUMBER", "STRING"} |-> IF t = "NUMBER" THEN "INT" ELSE "STRING"]
(* Mutant: a value more than there are columns is not refused before it is *)
(* read.                                                                   *)
Enough_Never(count) == FALSE
Enough(count) == statement.has_list /\ count >= Len(statement.columns)
(* Mutant: a list may be short.                                            *)
TooFew_Never(count) == FALSE
TooFew(count) == statement.has_list /\ count # Len(statement.columns)

Value ==
    /\ pc = "value"
    /\ LET count == Len(statement.values)
           next == Behind(position)
       IN  CASE count >= MaxColumns -> Fail("values")
             [] count < MaxColumns /\ Enough(count) -> Fail("more values")
             [] count < MaxColumns /\ ~Enough(count) /\ CurrentType \notin DOMAIN LiteralType
                  -> Fail("literal")
             [] count < MaxColumns /\ ~Enough(count) /\ CurrentType \in DOMAIN LiteralType
                  /\ ~CommaAt(next) /\ TooFew(count + 1) -> FailAt("mismatch", next - 1)
             [] OTHER
                  -> /\ pc' = IF CommaAt(next) THEN "value" ELSE "close_values"
                     /\ position' = IF CommaAt(next) THEN Behind(next) ELSE next
                     /\ statement' =
                          [statement EXCEPT
                              !.values = Append(@, [text |-> CurrentText,
                                                    type |-> LiteralType[CurrentType]]),
                              !.where.values = Append(@, position)]
                     /\ UNCHANGED <<tokens, program, error>>

Next == Start \/ NextStatement \/ Consume \/ InsertTable \/ SelectTable \/ SelectList
          \/ ColumnName \/ Value

Spec == Init /\ [][Next]_vars

-----------------------------------------------------------------------------
(* What the executor relies on: no array of a statement or of the program  *)
(* is written behind its end, every name fits its place, and each          *)
(* statement is one that build_insert_row_values or the SELECT takes, so   *)
(* with a column list there are as many values as names.                   *)
TypeOK ==
    /\ pc \in DOMAIN Needed \cup {"start", "statement", "insert table", "select table",
                                  "select list", "column", "value", "parsed", "refused"}
    /\ position \in DOMAIN tokens
    /\ Len(statement.columns) <= MaxColumns /\ Len(statement.values) <= MaxColumns
    /\ Len(program) <= MaxStatements
    /\ \A n \in DOMAIN program :
         LET s == program[n] IN
         /\ StatementOf(s) \in Statement
         /\ s.kind = "INSERT" => s.values # <<>>
         /\ s.kind = "SELECT" /\ ~s.all => s.columns # <<>>
         /\ \A name \in {s.table} \cup {s.columns[i] : i \in DOMAIN s.columns} :
              Len(name) < MaxNameLen
    /\ error.at \in 0 .. Len(tokens)

(* The tokens that a statement stands for; a keyword or a mark is spelled  *)
(* in one way, so its text says nothing.                                   *)
Mark(type) == [type |-> type, text |-> <<>>]
Spelled(token) ==
    IF token.type \in {"IDENTIFIER", "NUMBER", "STRING"} THEN token ELSE Mark(token.type)
Name(text) == [type |-> "IDENTIFIER", text |-> text]
Constant(value) ==
    [type |-> IF value.type = "INT" THEN "NUMBER" ELSE "STRING", text |-> value.text]
CommaList(list) ==
    [k \in 1 .. 2 * Len(list) - 1 |-> IF k % 2 = 1 THEN list[(k + 1) \div 2] ELSE Mark("COMMA")]
Parenthesized(list) == <<Mark("LPAREN")>> \o CommaList(list) \o <<Mark("RPAREN")>>

Written(s) ==
    LET names  == [i \in DOMAIN s.columns |-> Name(s.columns[i])]
        values == [i \in DOMAIN s.values |-> Constant(s.values[i])]
    IN  IF s.kind = "INSERT"
        THEN <<Mark("INSERT"), Mark("INTO"), Name(s.table)>>
               \o (IF s.has_list THEN Parenthesized(names) ELSE <<>>)
               \o <<Mark("VALUES")>> \o Parenthesized(values) \o <<Mark("SEMICOLON")>>
        ELSE <<Mark("SELECT")>> \o (IF s.all THEN <<Mark("STAR")>> ELSE CommaList(names))
               \o <<Mark("FROM"), Name(s.table), Mark("SEMICOLON")>>
WrittenProgram(p) == FlattenSeq([n \in DOMAIN p |-> Written(p[n])])

(* Nothing is skipped, invented, swapped or carried over from an earlier   *)
(* statement: whenever a statement is complete, the program written out is *)
(* what was read, token by token, and at the end it is the whole list.     *)
ProgramSpellsTokens ==
    LET read == IF pc = "parsed" THEN Len(tokens) - 1 ELSE position - 1 IN
    pc \in {"statement", "parsed"} =>
        WrittenProgram(program) = [n \in 1 .. read |-> Spelled(tokens[n])]

(* The executor reports an unknown or doubled column, and a value of the   *)
(* wrong type, at the location kept with it: the token it was read from.   *)
LocationsPoint ==
    \A n \in DOMAIN program :
        LET s == program[n] IN
        /\ tokens[s.where.start].type = s.kind
        /\ s.kind = "INSERT" => tokens[s.where.table] = Name(s.table)
        /\ [i \in DOMAIN s.columns |-> tokens[s.where.columns[i]]]
             = [i \in DOMAIN s.columns |-> Name(s.columns[i])]
        /\ [i \in DOMAIN s.values |-> tokens[s.where.values[i]]]
             = [i \in DOMAIN s.values |-> Constant(s.values[i])]

-----------------------------------------------------------------------------
(* The grammar, as the set of its sentences: the types of the tokens of    *)
(* every program with no more columns, values and statements than allowed. *)
Types(list) == [k \in DOMAIN list |-> list[k].type]
TypesInList(list) == Types(CommaList([k \in DOMAIN list |-> Mark(list[k])]))
OneTo(n, S) == UNION {[1 .. k -> S] : k \in 1 .. n}

Inserts ==
    {<<"INSERT", "INTO", "IDENTIFIER", "VALUES", "LPAREN">> \o TypesInList(v) \o <<"RPAREN">> :
        v \in OneTo(MaxColumns, {"NUMBER", "STRING"})}
      \cup UNION {
        {<<"INSERT", "INTO", "IDENTIFIER", "LPAREN">> \o TypesInList([i \in 1 .. n |-> "IDENTIFIER"])
           \o <<"RPAREN", "VALUES", "LPAREN">> \o TypesInList(v) \o <<"RPAREN">> :
            v \in [1 .. n -> {"NUMBER", "STRING"}]} : n \in 1 .. MaxColumns}
Selects ==
    {<<"SELECT">> \o list \o <<"FROM", "IDENTIFIER">> :
        list \in {<<"STAR">>} \cup {TypesInList(c) : c \in OneTo(MaxColumns, {"IDENTIFIER"})}}
Legal == {Append(s, "SEMICOLON") : s \in Inserts \cup Selects}
Sentences == {FlattenSeq(p) \o <<"EOF">> : p \in OneTo(MaxStatements, Legal)}
Viable == UNION {{SubSeq(s, 1, n) : n \in 0 .. Len(s)} : s \in Sentences}

(* A name too long for its place is a token that no sentence has.          *)
TypeOf(token) ==
    IF token.type = "IDENTIFIER" /\ Len(token.text) >= MaxNameLen THEN "LONG" ELSE token.type
TypesUpto(n) == [k \in 1 .. n |-> TypeOf(tokens[k])]

(* The first token that no legal program can have there: the token the     *)
(* error is reported at, but one before it where there are too many of a   *)
(* list, for the comma is taken first, and one behind where a list is      *)
(* short, for the last value of it is shown.                               *)
FirstBad == CASE error.message \in {"columns", "values", "more values"} -> error.at - 1
              [] error.message = "mismatch" -> error.at + 1
              [] OTHER -> error.at

(* Legal programs are parsed, all of them, and the others are refused at   *)
(* the first token that cannot be: what stands before it begins some legal *)
(* program, and no legal program goes on with it.                          *)
FirstErrorReported ==
    /\ pc = "parsed" => TypesUpto(Len(tokens)) \in Sentences
    /\ pc = "refused" =>
         /\ TypesUpto(FirstBad - 1) \in Viable
         /\ TypesUpto(FirstBad) \notin Viable
=============================================================================
