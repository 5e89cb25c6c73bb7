------------------------------ MODULE CsvText -------------------------------
(***************************************************************************)
(* The bytes of a line of the CSV file: how storage.c makes them of cells, *)
(* and which cells it reads in them.  CsvLine models the reader with its   *)
(* arrays and limits, byte by byte; Storage, which writes and cuts lines,  *)
(* uses the operators of this module.                                      *)
(***************************************************************************)
EXTENDS Integers, Sequences, SequencesExt

Comma == ","
Quote == "\""
Newline == "\n"
Return == "\r"
LineEnds == {Newline, Return}

-----------------------------------------------------------------------------
(* Writing                                                                 *)
-----------------------------------------------------------------------------
Has(text, characters) == \E k \in DOMAIN text : text[k] \in characters

Doubled(text) == FlattenSeq([k \in DOMAIN text |->
                                IF text[k] = Quote THEN <<Quote, Quote>> ELSE <<text[k]>>])
(* Mutant: a quote in the text does not call for quotes around it.         *)
WriteField_CommaOnly(text) ==
    IF Has(text, {Comma}) THEN <<Quote>> \o Doubled(text) \o <<Quote>> ELSE text
WriteField(text) ==
    IF Has(text, {Comma, Quote, Newline}) THEN <<Quote>> \o Doubled(text) \o <<Quote>> ELSE text

Joined(fields) ==
    FlattenSeq([k \in DOMAIN fields |-> IF k = 1 THEN fields[k] ELSE <<Comma>> \o fields[k]])
WriteRow(cells) == Joined([k \in DOMAIN cells |-> WriteField(cells[k])]) \o <<Newline>>

(* Mutant: the header is written like a row.                               *)
HeaderBytes_Quoted(names) == WriteRow(names)
HeaderBytes(names) == Joined(names) \o <<Newline>>

-----------------------------------------------------------------------------
(* Reading: parse_csv_line, its limits left aside, as a machine that looks *)
(* at one byte after the other.  Where the code looks ahead for a second   *)
(* quote, the machine remembers the first: "closed" is right behind a      *)
(* quote that ends a quoted part unless another one follows.  "over" is    *)
(* behind a line end, where the loop has stopped.                          *)
-----------------------------------------------------------------------------
Modes == {"plain", "quoted", "closed", "over"}

NextMode(mode, ch) ==
    CASE mode = "over" \/ ch \in LineEnds -> "over"
      [] mode # "over" /\ ch = Quote -> IF mode = "quoted" THEN "closed" ELSE "quoted"
      [] OTHER -> IF mode = "quoted" THEN "quoted" ELSE "plain"

Separates(mode, ch) == mode \in {"plain", "closed"} /\ ch = Comma
Belongs(mode, ch) ==
    /\ mode # "over" /\ ch \notin LineEnds
    /\ ch = Quote => mode = "closed"
    /\ ~Separates(mode, ch)

Grown(cells, ch) == [cells EXCEPT ![Len(cells)] = Append(@, ch)]

ReadByte(state, ch) ==
    [mode |-> NextMode(state.mode, ch),
     cells |-> CASE Separates(state.mode, ch) -> Append(state.cells, <<>>)
                 [] Belongs(state.mode, ch) -> Grown(state.cells, ch)
                 [] OTHER -> state.cells]

(* The state behind each number of the bytes.  EXCEPT and @ make TLC       *)
(* evaluate the state before the last byte once, and not at each use.      *)
Scan(state, bytes) ==
    LET at[n \in 0 .. Len(bytes)] ==
          IF n = 0 THEN state ELSE [<<at[n - 1]>> EXCEPT ![1] = ReadByte(@, bytes[n])][1]
    IN  at
After(state, bytes) == Scan(state, bytes)[Len(bytes)]

LineStart == [mode |-> "plain", cells |-> << <<>> >>]
CellsOf(line) == After(LineStart, line).cells

(* The bytes end inside quotes.                                            *)
Unclosed(bytes) == After(LineStart, bytes).mode = "quoted"
=============================================================================
