------------------------------ MODULE CsvLine -------------------------------
(***************************************************************************)
(* One line of a CSV file, byte by byte: what fgets, validate_line_length  *)
(* and parse_csv_line, with its arrays and its look ahead, make of a line  *)
(* that write_csv_row, the header code of ensure_data_file or another      *)
(* program has written.                                                    *)
(***************************************************************************)
EXTENDS CsvText

CONSTANTS Piece,           \* the characters of the instance
          MaxColumns,      \* SQLPROC_MAX_COLUMNS
          MaxValueLen,     \* SQLPROC_MAX_VALUE_LEN
          LineMax,         \* STORAGE_MAX_ROW_LEN - 1: the most fgets returns
          RowSources,      \* rows that INSERT writes
          HeaderSources,   \* column names that ensure_data_file writes
          ForeignLines     \* lines of files made by other programs

Text == Seq(Piece)

(* No string literal holds a line end, no schema file a name with one or   *)
(* with a comma.                                                           *)
ASSUME LineAssumption ==
    /\ {Comma, Quote} \cup LineEnds \subseteq Piece
    /\ MaxColumns \in Nat \ {0} /\ MaxValueLen \in Nat \ {0} /\ LineMax \in Nat \ {0}
    /\ RowSources \subseteq Seq(Seq(Piece \ LineEnds))
    /\ HeaderSources \subseteq Seq(Seq(Piece \ (LineEnds \cup {Comma})))
    /\ ForeignLines \subseteq Text \ {<<>>}

-----------------------------------------------------------------------------
VARIABLES source,          \* ghost: what was written, and how
          line,            \* the bytes of the file from this line on
          pc,
          i,               \* the index into the line, one more than the code's
          in_quotes,
          cells, text      \* the cells that are complete, and the one begun

vars == <<source, line, pc, i, in_quotes, cells, text>>

Rows == [kind : {"row"}, cells : RowSources]
Headers == [kind : {"header"}, cells : HeaderSources]
Foreign == [kind |-> "foreign", cells |-> <<>>]

Init ==
    /\ \/ source \in Rows /\ line = WriteRow(source.cells)
       \/ source \in Headers /\ line = HeaderBytes(source.cells)
       \/ source = Foreign /\ line \in ForeignLines
    /\ pc = "fetch" /\ i = 1 /\ in_quotes = FALSE /\ cells = <<>> /\ text = <<>>

Stop(result) == pc' = result /\ UNCHANGED <<source, line, i, in_quotes, cells, text>>

(* fgets and validate_line_length: fgets returns a full buffer that does   *)
(* not end the line, and has not looked further.                           *)
FetchLine ==
    /\ pc = "fetch"
    /\ LET upto == SelectInSeq(line, LAMBDA ch : ch = Newline)
           got == IF upto = 0 THEN Len(line) ELSE upto
       IN  IF got > LineMax \/ (got = LineMax /\ line[got] # Newline)
           THEN Stop("refused")
           ELSE /\ line' = SubSeq(line, 1, got)
                /\ pc' = "reading"
                /\ UNCHANGED <<source, i, in_quotes, cells, text>>

AtEnd == i \in DOMAIN line => line[i] \in LineEnds
Room == Len(text) < MaxValueLen - 1

(* Every turn of the loop of parse_csv_line starts with this check.        *)
NoMoreColumns ==
    /\ pc = "reading" /\ ~AtEnd
    /\ Len(cells) >= MaxColumns
    /\ Stop("refused")

Reading == pc = "reading" /\ ~AtEnd /\ Len(cells) < MaxColumns
Take(ch, n) ==
    IF Room THEN /\ text' = Append(text, ch)
                 /\ i' = i + n
                 /\ UNCHANGED <<source, line, pc, in_quotes, cells>>
    ELSE Stop("refused")

EscapedQuoteAhead ==
    in_quotes /\ line[i] = Quote /\ i + 1 <= Len(line) /\ line[i + 1] = Quote

(* Mutant: the second quote of a pair is not skipped.                      *)
ReadEscapedQuote_KeepsSecond == Reading /\ EscapedQuoteAhead /\ Take(Quote, 1)
ReadEscapedQuote == Reading /\ EscapedQuoteAhead /\ Take(Quote, 2)

ReadQuote ==
    /\ Reading /\ line[i] = Quote /\ ~EscapedQuoteAhead
    /\ in_quotes' = ~in_quotes
    /\ i' = i + 1
    /\ UNCHANGED <<source, line, pc, cells, text>>

(* Mutant: a comma ends the cell inside quotes too.                        *)
ReadComma_Anywhere ==
    /\ Reading /\ line[i] = Comma
    /\ cells' = Append(cells, text)
    /\ text' = <<>>
    /\ i' = i + 1
    /\ UNCHANGED <<source, line, pc, in_quotes>>
ReadComma ==
    /\ Reading /\ line[i] = Comma /\ ~in_quotes
    /\ cells' = Append(cells, text)
    /\ text' = <<>>
    /\ i' = i + 1
    /\ UNCHANGED <<source, line, pc, in_quotes>>

(* Mutant: a cell may fill its array, and its end be written behind it.    *)
ReadCharacter_NoRoomForEnd ==
    /\ Reading /\ line[i] # Quote /\ ~(line[i] = Comma /\ ~in_quotes)
    /\ IF Len(text) < MaxValueLen
       THEN text' = Append(text, line[i]) /\ i' = i + 1
            /\ UNCHANGED <<source, line, pc, in_quotes, cells>>
       ELSE Stop("refused")
ReadCharacter ==
    /\ Reading /\ line[i] # Quote /\ ~(line[i] = Comma /\ ~in_quotes)
    /\ Take(line[i], 1)

(* Behind the loop: a comma may have ended the last cell there is room for.*)
EndOfLine ==
    /\ pc = "reading" /\ AtEnd
    /\ IF Len(cells) >= MaxColumns
       THEN Stop("refused")
       ELSE /\ cells' = Append(cells, text)
            /\ text' = <<>>
            /\ pc' = "read"
            /\ UNCHANGED <<source, line, i, in_quotes>>

Next == \/ FetchLine \/ NoMoreColumns \/ ReadEscapedQuote \/ ReadQuote
        \/ ReadComma \/ ReadCharacter \/ EndOfLine

Spec == Init /\ [][Next]_vars

-----------------------------------------------------------------------------
(* Whatever the line, parse_csv_line writes inside its arrays: no cell     *)
(* beyond the last, none longer than its array with the end of string, and *)
(* nothing in a cell but quotes and what the line holds.                   *)
Characters == {Quote} \cup {line[k] : k \in DOMAIN line}
Cell == {t \in Seq(Characters) : Len(t) < MaxValueLen}
TypeOK ==
    /\ pc \in {"fetch", "reading", "read", "refused"}
    /\ i \in Nat \ {0}
    /\ in_quotes \in BOOLEAN
    /\ cells \in {s \in Seq(Cell) : Len(s) <= MaxColumns}
    /\ text \in Cell

Fits(cs) == Len(cs) \in 1 .. MaxColumns /\ \A k \in DOMAIN cs : Len(cs[k]) < MaxValueLen
Over == {"read", "refused"}

(* A row that INSERT wrote is read back as the cells it was made of,       *)
(* whatever quotes and commas they hold, unless its line is longer than    *)
(* the buffer of SELECT; no other row is refused.                          *)
RowsReadBack ==
    pc \in Over /\ source.kind = "row" /\ Fits(source.cells) =>
        IF Len(WriteRow(source.cells)) <= LineMax
        THEN pc = "read" /\ cells = source.cells
        ELSE pc = "refused"

(* With its arrays and its look ahead parse_csv_line reads the cells that  *)
(* Storage works with: a line is refused exactly if it fills the buffer    *)
(* without an end, has too many cells or a cell too long for its array,    *)
(* and the limits change nothing in the cells of one that is not.          *)
FillsBuffer == Len(line) >= LineMax /\ \A k \in 1 .. LineMax : line[k] # Newline
CellsAsInStorage ==
    pc \in Over =>
        /\ pc = "read" <=> ~FillsBuffer /\ Fits(CellsOf(line))
        /\ pc = "read" => cells = CellsOf(line)

(* The header that the first INSERT writes is the one the second finds     *)
(* exactly if no column name holds a quote: the header is not quoted, and  *)
(* a table with such a column can never be used again.                     *)
HeadersReadBack ==
    pc \in Over /\ source.kind = "header" /\ Fits(source.cells)
                /\ Len(HeaderBytes(source.cells)) <= LineMax =>
        (pc = "read" /\ cells = source.cells
            <=> \A k \in DOMAIN source.cells : ~Has(source.cells[k], {Quote}))

(* The reader has no notion of a cell that is quoted as a whole: a comma   *)
(* separates cells if and only if an even number of quotes stands before   *)
(* it, and apart from quotes every character before the first line end     *)
(* belongs to the cell it stands in.                                       *)
Quotes(n) == Cardinality({k \in 1 .. n : line[k] = Quote})
Separators == {k \in 1 .. i - 1 : line[k] = Comma /\ Quotes(k) % 2 = 0}
Unquoted(t) == FlattenSeq([k \in DOMAIN t |-> IF t[k] = Quote THEN <<>> ELSE <<t[k]>>])
Begun == IF pc = "read" THEN cells ELSE Append(cells, text)
CellsAreBetweenSeparators ==
    pc # "fetch" =>
        LET starts == {0} \cup Separators
            ends == Separators \cup {i}
        IN  /\ Len(Begun) = Cardinality(starts)
            /\ \A e \in starts, f \in ends :
                  e < f /\ (\A d \in ends : d <= e \/ f <= d) =>
                     Unquoted(Begun[Cardinality({d \in starts : d <= e})])
                        = Unquoted(SubSeq(line, e + 1, f - 1))
            /\ in_quotes <=> Quotes(i - 1) % 2 = 1
=============================================================================
