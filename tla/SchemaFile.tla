----------------------------- MODULE SchemaFile -----------------------------
(***************************************************************************)
(* load_table_schema of schema.c, one step per turn of its loop: the first *)
(* line of a schema file, cut to the buffer of fgets, entry by entry into  *)
(* a TableSchema.  BeginStatement of Storage takes the result in one step. *)
(***************************************************************************)
EXTENDS Executor, SequencesExt

CONSTANTS Lower,         \* tolower
          TypeNames,     \* the names of the types, in lower case, and the types:
                         \* as "int" and "string", none of them begins another
          MaxNameLen,    \* SQLPROC_MAX_NAME_LEN
          LineMax,       \* sizeof(line) - 1: the most fgets returns
          SchemaFiles    \* what the schema file may hold; NoFile: nothing there

Comma == ","
Colon == ":"
LineEnds == {"\n", "\r"}
NoFile == [exists |-> FALSE, text |-> <<>>]

ASSUME SchemaAssumption ==
    /\ Lower \in [Piece -> Piece]
    /\ DOMAIN TypeNames \subseteq Text /\ \A t \in DOMAIN TypeNames : TypeNames[t] \in DataType
    /\ \A s, t \in DOMAIN TypeNames : IsPrefix(s, t) => s = t
    /\ \A ch \in {Comma, Colon} : ch \in Piece => Lower[ch] = ch
    /\ MaxNameLen \in Nat \ {0} /\ LineMax \in Nat
    /\ SchemaFiles \subseteq [exists : {TRUE}, text : Text] \cup {NoFile}

VARIABLES file,          \* the schema file when it is opened
          pc,
          line, cursor,  \* the line read, and the index of the next entry
          columns,       \* the columns of the schema so far
          error          \* which check failed

vars == <<file, pc, line, cursor, columns, error>>

Init ==
    /\ file \in SchemaFiles
    /\ pc = "open"
    /\ line = <<>> /\ cursor = 1 /\ columns = <<>>
    /\ error = "none"

Fail(message) == /\ pc' = "refused"
                 /\ error' = message
                 /\ UNCHANGED <<file, line, cursor, columns>>

-----------------------------------------------------------------------------
(* The text up to the first of these characters.                           *)
Upto(text, characters) ==
    LET at == SelectInSeq(text, LAMBDA ch : ch \in characters)
    IN  IF at = 0 THEN text ELSE SubSeq(text, 1, at - 1)

(* Mutant: the buffer holds any line.                                      *)
LineRead_Whole(text) == Upto(text, LineEnds)
(* Mutant: fgets is called until the line ends, each call over the last.   *)
LineRead_LastPart(text) ==
    LET all == Upto(text, {"\n"})
    IN  Upto(SubSeq(all, 1 + LineMax * (Len(all) \div (LineMax + 1)), Len(all)), LineEnds)
(* fgets stops behind the newline or when the buffer is full, and the line *)
(* is cut at its first line end: nobody looks for what is left of it.      *)
LineRead(text) ==
    Upto(SubSeq(text, 1, IF Len(text) < LineMax THEN Len(text) ELSE LineMax), LineEnds)

LowerText(text) == [k \in DOMAIN text |-> Lower[text[k]]]

(* One entry "name:type"; the type is what follows the first colon.        *)
HasColon(entry) == Colon \in ToSet(entry)
NamePart(entry) == Upto(entry, {Colon})
TypePart(entry) == SubSeq(entry, Len(NamePart(entry)) + 2, Len(entry))

(* Mutant: the name is taken as it is written.                             *)
ColumnOf_KeepsCase(entry) ==
    [name |-> NamePart(entry), type |-> TypeNames[LowerText(TypePart(entry))]]
ColumnOf(entry) ==
    [name |-> LowerText(NamePart(entry)), type |-> TypeNames[LowerText(TypePart(entry))]]

(* Mutant: the length of the name is not checked.                          *)
EntryFault_AnyLength(entry) ==
    CASE ~HasColon(entry) -> "format"
      [] HasColon(entry) /\ NamePart(entry) = <<>> -> "empty"
      [] HasColon(entry) /\ NamePart(entry) # <<>>
            /\ LowerText(TypePart(entry)) \notin DOMAIN TypeNames -> "type"
      [] OTHER -> "none"
EntryFault(entry) ==
    CASE ~HasColon(entry) -> "format"
      [] HasColon(entry) /\ Len(NamePart(entry)) >= MaxNameLen -> "long"
      [] HasColon(entry) /\ NamePart(entry) = <<>> -> "empty"
      [] HasColon(entry) /\ Len(NamePart(entry)) \in 1 .. MaxNameLen - 1
            /\ LowerText(TypePart(entry)) \notin DOMAIN TypeNames -> "type"
      [] OTHER -> "none"

-----------------------------------------------------------------------------
OpenSchema ==
    /\ pc = "open"
    /\ CASE ~file.exists -> Fail("absent")
         [] file.exists /\ file.text = <<>> -> Fail("no line")
         [] OTHER -> /\ pc' = "entries"
                     /\ line' = LineRead(file.text)
                     /\ UNCHANGED <<file, cursor, columns, error>>

Rest == SubSeq(line, cursor, Len(line))

(* Mutant: the number of columns is not checked.                           *)
ReadEntry_AnyNumber ==
    /\ pc = "entries" /\ cursor <= Len(line)
    /\ LET entry == Upto(Rest, {Comma}) IN
       IF EntryFault(entry) # "none"
       THEN Fail(EntryFault(entry))
       ELSE /\ columns' = Append(columns, ColumnOf(entry))
            /\ cursor' = cursor + Len(entry) + 1
            /\ UNCHANGED <<file, pc, line, error>>
ReadEntry ==
    /\ pc = "entries" /\ cursor <= Len(line)
    /\ LET entry == Upto(Rest, {Comma}) IN
       CASE Len(columns) >= MaxColumns -> Fail("columns")
         [] Len(columns) < MaxColumns /\ EntryFault(entry) # "none" -> Fail(EntryFault(entry))
         [] OTHER -> /\ columns' = Append(columns, ColumnOf(entry))
                     /\ cursor' = cursor + Len(entry) + 1
                     /\ UNCHANGED <<file, pc, line, error>>

EndOfEntries ==
    /\ pc = "entries" /\ cursor > Len(line)
    /\ IF columns = <<>>
       THEN Fail("none given")
       ELSE pc' = "loaded" /\ UNCHANGED <<file, line, cursor, columns, error>>

Next == OpenSchema \/ ReadEntry \/ EndOfEntries

Spec == Init /\ [][Next]_vars

-----------------------------------------------------------------------------
(* What Storage assumes of a schema that is loaded: as many columns as     *)
(* there are places, each with a name that fits its array.                 *)
TypeOK ==
    /\ file \in [exists : BOOLEAN, text : Text]
    /\ pc \in {"open", "entries", "loaded", "refused"}
    /\ line \in Text /\ cursor \in Nat \ {0}
    /\ columns \in TableSchema
    /\ \A c \in DOMAIN columns : Len(columns[c].name) \in 1 .. MaxNameLen - 1
    /\ pc = "loaded" => columns # <<>>
    /\ error \in {"none", "absent", "no line", "columns", "format", "long", "empty", "type",
                  "none given"}

(* The columns that a line declares: an entry begins with the line and     *)
(* behind each comma; a comma behind the last entry is allowed, for the    *)
(* loop ends with the text.  The entries are numbered from left to right.  *)
EntryStarts(text) == {k \in DOMAIN text : k = 1 \/ text[k - 1] = Comma}
EntryAt(text, k) == Upto(SubSeq(text, k, Len(text)), {Comma})
Number(text, k) == Cardinality({j \in EntryStarts(text) : j <= k})
DeclaredAt(text, k) ==
    LET entry == EntryAt(text, k) IN
    [name |-> LowerText(NamePart(entry)), type |-> TypeNames[LowerText(TypePart(entry))]]
WellFormed(text) ==
    /\ Cardinality(EntryStarts(text)) \in 1 .. MaxColumns
    /\ \A k \in EntryStarts(text) : EntryFault(EntryAt(text, k)) = "none"

(* A schema is loaded exactly if the line in the buffer is well formed,    *)
(* with the columns declared there, and what is refused is refused for the *)
(* first entry that is at fault.                                           *)
LoadsTheLine ==
    /\ pc = "loaded" =>
         /\ WellFormed(line)
         /\ Len(columns) = Cardinality(EntryStarts(line))
         /\ \A k \in EntryStarts(line) : columns[Number(line, k)] = DeclaredAt(line, k)
    /\ pc = "refused" /\ file.exists /\ file.text # <<>> =>
         LET n == Len(columns) + 1 IN
         /\ ~WellFormed(line)
         /\ \A k \in EntryStarts(line) :
              Number(line, k) < n => EntryFault(EntryAt(line, k)) = "none"
         /\ error \notin {"columns", "none given"} =>
              \E k \in EntryStarts(line) :
                 Number(line, k) = n /\ error = EntryFault(EntryAt(line, k))

(* A line too long for the buffer is cut without a word.  If the whole     *)
(* line was good, what is loaded of it is at least no other table: its     *)
(* columns are the first of those declared, under their names and types.   *)
CutIsPrefix ==
    LET whole == Upto(file.text, LineEnds) IN
    pc = "loaded" /\ WellFormed(whole) =>
        /\ Len(columns) <= Cardinality(EntryStarts(whole))
        /\ \A k \in EntryStarts(whole) :
             Number(whole, k) <= Len(columns) =>
                 columns[Number(whole, k)] = DeclaredAt(whole, k)

(* Storage writes the names as the header of the data file and reads it    *)
(* back with a buffer of the same size: a schema that was loaded has a     *)
(* header, with its newline, that fits, for every column took at least two *)
(* characters more in the schema file.                                     *)
Header(list) == FlattenSeq([c \in DOMAIN list |-> list[c].name \o <<Comma>>])
HeaderFits == pc = "loaded" => Len(Header(columns)) <= LineMax

(* The documents: what does not fit the limits is an error.  A schema that *)
(* is loaded has all the columns its file declares.                        *)
NothingCut ==
    LET whole == Upto(file.text, LineEnds) IN
    pc = "loaded" /\ WellFormed(whole) => Len(columns) = Cardinality(EntryStarts(whole))
=============================================================================
