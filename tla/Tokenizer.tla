----------------------------- MODULE Tokenizer ------------------------------
(***************************************************************************)
(* tokenize_sql of tokenizer.c, one step per turn of its loop: a text is   *)
(* cut into a TokenList from left to right, each token with the line and   *)
(* the column it starts at.  App gives it the text.                        *)
(***************************************************************************)
EXTENDS Integers, Sequences, FiniteSets, SequencesExt

CONSTANTS Letter, Digit,  \* isalpha, isdigit
          Lower,          \* tolower
          Keywords,       \* the keywords, in lower case, and their token types
          MaxTokens,      \* SQLPROC_MAX_TOKENS
          MaxValueLen     \* SQLPROC_MAX_VALUE_LEN

Quote == "'"
Blank == {" ", "\t", "\r"}
LineEnds == {"\n", "\r"}
WordStart == Letter \cup {"_"}
WordPart == WordStart \cup Digit
Symbols == [ch \in {",", ";", "(", ")", "*"} |->
               CASE ch = "," -> "COMMA" [] ch = ";" -> "SEMICOLON" [] ch = "(" -> "LPAREN"
                 [] ch = ")" -> "RPAREN" [] ch = "*" -> "STAR"]
OtherType == {"EOF", "IDENTIFIER", "NUMBER", "STRING"} \cup {Symbols[ch] : ch \in DOMAIN Symbols}
TokenType == OtherType \cup {Keywords[word] : word \in DOMAIN Keywords}

ASSUME TokenizerAssumption ==
    /\ WordPart \subseteq STRING
    /\ Lower \in [WordPart -> WordPart]
    /\ \A ch \in WordPart : Lower[Lower[ch]] = Lower[ch]
    /\ \A ch \in WordStart : Lower[ch] \in WordStart
    /\ DOMAIN Keywords \subseteq Seq(WordPart)
    /\ \A word \in DOMAIN Keywords : Keywords[word] \notin OtherType
    /\ (Letter \cap Digit) = {}
    /\ WordPart \cap (Blank \cup LineEnds \cup {Quote, "-"} \cup DOMAIN Symbols) = {}
    /\ MaxTokens \in Nat \ {0}
    /\ MaxValueLen \in Nat \ {0, 1}  \* a mark and its NUL fit

VARIABLES pc,
          text,             \* sql_text, up to its terminating NUL
          index,            \* the next character, from 1
          line, column,     \* where that character stands
          tokens, error

scan == <<pc, text, index, line, column, tokens, error>>

NoError == [message |-> "none", line |-> 0, column |-> 0]

FailAt(message, n, k) == /\ pc' = "refused"
                         /\ error' = [message |-> message, line |-> n, column |-> k]
                         /\ UNCHANGED <<text, index, line, column, tokens>>
Fail(message) == FailAt(message, line, column)

(* The longest piece of the text from k on that is made of these.          *)
Stretch(k, characters) ==
    LET rest == SubSeq(text, k, Len(text))
        stop == SelectInSeq(rest, LAMBDA ch : ch \notin characters)
    IN  IF stop = 0 THEN rest ELSE SubSeq(rest, 1, stop - 1)

LowerText(word) == [k \in DOMAIN word |-> Lower[word[k]]]

(* How far a token moves the column: by its text, and by the quotes of a   *)
(* string.  Mutant: the quotes are forgotten.                              *)
Width_NoQuotes(type, spelling) == Len(spelling)
Width(type, spelling) == Len(spelling) + (IF type = "STRING" THEN 2 ELSE 0)

Appended(type, spelling, taken, next) ==
    /\ tokens' = Append(tokens, [type |-> type, text |-> spelling,
                                 line |-> line, column |-> column])
    /\ index' = index + taken
    /\ column' = column + Width(type, spelling)
    /\ pc' = next
    /\ UNCHANGED <<text, line, error>>
(* append_token, with the index and the column behind the token.           *)
(* Mutant: the last token is written behind the array.                     *)
AppendToken_OneTooMany(type, spelling, taken, next) ==
    IF Len(tokens) > MaxTokens THEN Fail("tokens") ELSE Appended(type, spelling, taken, next)
AppendToken(type, spelling, taken, next) ==
    IF Len(tokens) >= MaxTokens THEN Fail("tokens") ELSE Appended(type, spelling, taken, next)

-----------------------------------------------------------------------------
At(characters) == pc = "scan" /\ index \in DOMAIN text /\ text[index] \in characters

SkipBlank ==
    /\ At(Blank)
    /\ index' = index + 1 /\ column' = column + 1
    /\ UNCHANGED <<pc, text, line, tokens, error>>

NewLine ==
    /\ At({"\n"})
    /\ index' = index + 1 /\ line' = line + 1 /\ column' = 1
    /\ UNCHANGED <<pc, text, tokens, error>>

(* A keyword keeps its spelling, an identifier is put into lower case.     *)
(* Mutant: the keywords are looked up as they are written.                 *)
ReadWord_AsWritten ==
    /\ At(WordStart)
    /\ LET word == Stretch(index, WordPart)
       IN  CASE Len(word) >= MaxValueLen -> Fail("word")
             [] Len(word) < MaxValueLen /\ word \in DOMAIN Keywords
                  -> AppendToken(Keywords[word], word, Len(word), "scan")
             [] OTHER -> AppendToken("IDENTIFIER", LowerText(word), Len(word), "scan")
ReadWord ==
    /\ At(WordStart)
    /\ LET word == Stretch(index, WordPart)
           lower == LowerText(word)
       IN  CASE Len(word) >= MaxValueLen -> Fail("word")
             [] Len(word) < MaxValueLen /\ lower \in DOMAIN Keywords
                  -> AppendToken(Keywords[lower], word, Len(word), "scan")
             [] OTHER -> AppendToken("IDENTIFIER", lower, Len(word), "scan")

(* A minus belongs to a number only right before a digit.                  *)
AtNumber == At(Digit) \/ (At({"-"}) /\ index + 1 \in DOMAIN text /\ text[index + 1] \in Digit)

ReadNumber ==
    /\ AtNumber
    /\ LET number == <<text[index]>> \o Stretch(index + 1, Digit)
       IN  IF Len(number) >= MaxValueLen
           THEN Fail("number")
           ELSE AppendToken("NUMBER", number, Len(number), "scan")

(* Mutant: the line end is looked for behind the quote, its column counted *)
(* from it.                                                                *)
ReadString_FromContent ==
    /\ At({Quote})
    /\ LET rest == SubSeq(text, index + 1, Len(text))
           stop == SelectInSeq(rest, LAMBDA ch : ch \in LineEnds \cup {Quote})
           content == IF stop = 0 THEN rest ELSE SubSeq(rest, 1, stop - 1)
       IN  CASE Len(content) >= MaxValueLen -> Fail("string")
             [] Len(content) < MaxValueLen /\ stop = 0 -> Fail("unclosed")
             [] Len(content) < MaxValueLen /\ stop # 0 /\ rest[stop] \in LineEnds
                  -> FailAt("newline", line, column + Len(content))
             [] OTHER -> AppendToken("STRING", content, Len(content) + 2, "scan")
(* A string ends at the next quote, there is no way to write a quote in    *)
(* it; of a string that is too long the line end behind it is not seen.    *)
ReadString ==
    /\ At({Quote})
    /\ LET rest == SubSeq(text, index + 1, Len(text))
           stop == SelectInSeq(rest, LAMBDA ch : ch \in LineEnds \cup {Quote})
           content == IF stop = 0 THEN rest ELSE SubSeq(rest, 1, stop - 1)
       IN  CASE Len(content) >= MaxValueLen -> Fail("string")
             [] Len(content) < MaxValueLen /\ stop = 0 -> Fail("unclosed")
             [] Len(content) < MaxValueLen /\ stop # 0 /\ rest[stop] \in LineEnds
                  -> FailAt("newline", line, column + Len(content) + 1)
             [] OTHER -> AppendToken("STRING", content, Len(content) + 2, "scan")

ReadSymbol ==
    /\ pc = "scan" /\ index <= Len(text)
    /\ ~At(Blank \cup {"\n", Quote} \cup WordStart) /\ ~AtNumber
    /\ LET ch == text[index]
       IN  IF ch \in DOMAIN Symbols
           THEN AppendToken(Symbols[ch], <<ch>>, 1, "scan")
           ELSE Fail("symbol")

(* The end marker takes a place among the tokens like any other.           *)
EndOfText == pc = "scan" /\ index > Len(text) /\ AppendToken("EOF", <<>>, 0, "tokens")

Tokenize ==
    SkipBlank \/ NewLine \/ ReadWord \/ ReadNumber \/ ReadString \/ ReadSymbol \/ EndOfText

-----------------------------------------------------------------------------
(* The place of the k-th character of a text, from the text alone.         *)
LineEndsBefore(s, k) == {n \in 1 .. k - 1 : s[n] = "\n"}
LocatedAt(s, k, there) ==
    /\ there.line = 1 + Cardinality(LineEndsBefore(s, k))
    /\ \E n \in {0} \cup LineEndsBefore(s, k) :
         /\ there.column = k - n
         /\ \A m \in LineEndsBefore(s, k) : m <= n
Place(s, there) == CHOOSE k \in 1 .. Len(s) + 1 : LocatedAt(s, k, there)

(* The text of a token that starts with the k-th character.                *)
Extent(k, token) ==
    k .. k + Len(token.text) + (IF token.type = "STRING" THEN 1 ELSE -1)
Written(s, k, token) ==
    LET there == SubSeq(s, k, k + Len(token.text) - 1) IN
    CASE token.type = "STRING"
           -> /\ SubSeq(s, k + 1, k + Len(token.text)) = token.text
              /\ {k, k + Len(token.text) + 1} \subseteq {n \in DOMAIN s : s[n] = Quote}
      [] token.type = "IDENTIFIER" -> token.text = LowerText(there)
      [] OTHER -> token.text = there

(* A parser error, and many of the executor's, is reported at the place    *)
(* its token carries.  Every token stands in the text where it says it     *)
(* does, the tokens follow each other in the text, and everything read so  *)
(* far that belongs to no token is blank: no character is lost or used     *)
(* twice.                                                                  *)
TokensCoverText ==
    LET place == [i \in DOMAIN tokens |-> Place(text, tokens[i])]
        extent == [i \in DOMAIN tokens |-> Extent(place[i], tokens[i])]
    IN  /\ \A i \in DOMAIN tokens :
             /\ LocatedAt(text, place[i], tokens[i])
             /\ Written(text, place[i], tokens[i])
             /\ extent[i] \subseteq 1 .. index - 1
             /\ i > 1 => place[i] > place[i - 1] /\ extent[i] \cap extent[i - 1] = {}
        /\ \A k \in 1 .. index - 1 :
             text[k] \in Blank \cup {"\n"} \/ \E i \in DOMAIN tokens : k \in extent[i]

(* What the type of a token that starts with the k-th character says.      *)
WordType == {"IDENTIFIER"} \cup {Keywords[word] : word \in DOMAIN Keywords}
Typed(s, k, token) ==
    LET next == k + Len(token.text) IN
    CASE token.type \in WordType
           -> /\ token.text[1] \in WordStart /\ ToSet(token.text) \subseteq WordPart
              /\ next \in DOMAIN s => s[next] \notin WordPart
              /\ token.type = (IF LowerText(token.text) \in DOMAIN Keywords
                               THEN Keywords[LowerText(token.text)]
                               ELSE "IDENTIFIER")
      [] token.type = "NUMBER"
           -> /\ ToSet(token.text) \subseteq Digit \cup {"-"}
              /\ ToSet(Tail(token.text)) \subseteq Digit
              /\ token.text # <<"-">>
              /\ next \in DOMAIN s => s[next] \notin Digit
      [] token.type = "STRING" -> ToSet(token.text) \cap (LineEnds \cup {Quote}) = {}
      [] token.type = "EOF" -> k = Len(s) + 1
      [] OTHER -> token.text \in {<<ch>> : ch \in DOMAIN Symbols}

(* The parser trusts the types.  A word is a keyword exactly if it is one  *)
(* of theirs in any spelling, a number is a number to its last digit, and  *)
(* a token is never the first part of a longer word or number.             *)
TypesFromText == \A i \in DOMAIN tokens : Typed(text, Place(text, tokens[i]), tokens[i])

(* What is wrong at the k-th character, when the scan has come to index.   *)
Wrong(message, k) ==
    LET several(S) == \A n \in 0 .. MaxValueLen - 1 : k + n \in DOMAIN text /\ text[k + n] \in S
    IN  /\ message # "newline" => k = index
        /\ CASE message = "word"   -> text[k] \in WordStart /\ several(WordPart)
             [] message = "number" -> several(Digit \cup {"-"})
             [] message = "string" ->
                  \A n \in k + 1 .. k + MaxValueLen :
                      n \in DOMAIN text /\ text[n] \notin LineEnds \cup {Quote}
             [] message = "newline" ->
                  /\ text[k] \in LineEnds /\ text[index] = Quote
                  /\ \A n \in index + 1 .. k - 1 : text[n] \notin LineEnds \cup {Quote}
             [] message = "unclosed" ->
                  /\ text[k] = Quote
                  /\ \A n \in k + 1 .. Len(text) : text[n] \notin LineEnds \cup {Quote}
             [] message = "symbol" ->
                  /\ text[k] \notin WordPart \cup DOMAIN Symbols \cup Blank \cup {"\n", Quote}
                  /\ text[k] = "-" /\ k < Len(text) => text[k + 1] \notin Digit
             [] message = "tokens" ->
                  /\ Len(tokens) = MaxTokens
                  /\ k \in DOMAIN text => text[k] \notin Blank \cup {"\n"}

(* An error names the first thing in the text that cannot be taken: all    *)
(* before it is covered by tokens, and what is wrong is at the place given.*)
ErrorIsThere ==
    pc = "refused" /\ error.line > 0 =>
        LET k == Place(text, error) IN LocatedAt(text, k, error) /\ Wrong(error.message, k)
=============================================================================
