---------------------------- MODULE StorageProps ----------------------------
(***************************************************************************)
(* What the runs of Storage must keep true.                                *)
(***************************************************************************)
EXTENDS Storage

TypeOK ==
    /\ exists \in BOOLEAN
    /\ lines \in Lines
    /\ schema \in Schemas
    /\ pc \in [Process -> Stopped \cup Running]
    /\ program \in [Process -> Programs \cup {<<>>}]
    /\ item \in [Process -> Nat \ {0}]
    /\ sch \in [Process -> TableSchema]
    /\ pos \in [Process -> Nat]
    /\ out \in [Process -> Seq(Seq(Text))]
    /\ runs \in [Process -> 0 .. MaxRuns]
    /\ log \in Seq(Seq(Text))

(* An instance on which storage.c can be relied on: files that open are    *)
(* the ones that exist, what is flushed is written whole, every data file  *)
(* has whole lines of one width, a file is created by nobody else, and no  *)
(* column name holds a quote (which the header would not give back).       *)
Width(ls) == Len(CellsOf(ls[1]))
WellFormed(ls) == \A k \in DOMAIN ls : Whole(ls[k]) /\ Len(CellsOf(ls[k])) = Width(ls)
NamesUnquoted == \A s \in Schemas : \A c \in DOMAIN s : ~Has(s[c].name, {Quote})
Dependable ==
    /\ Faults \subseteq {"bad_read", "no_write", "kill", "edit_schema"}
    /\ \A f \in InitFiles : WellFormed(f.lines)
    /\ \/ \A p, q \in Process : p = q
       \/ \A f \in InitFiles : f.exists
    /\ NamesUnquoted

-----------------------------------------------------------------------------
(* Dependable instances                                                    *)
-----------------------------------------------------------------------------
(* Whatever runs overlap, fail, are killed or have their schema edited     *)
(* under them, every line of the data file is whole and has as many cells  *)
(* as the header: the check of ensure_data_file, made before the row is    *)
(* written and from a copy of the schema, still holds when it is written.  *)
RowsMatchHeader == WellFormed(lines)

(* The rows of the file are the rows it started with and those of the      *)
(* INSERTs that reported success, each once, in the order they did.        *)
StoredIsLog == Rows(lines) = log

(* A SELECT on its way has printed the header and the chosen cells of the  *)
(* first rows owed, none skipped, repeated or mixed with another's.        *)
ReadIsPrefix ==
    \A p \in Process : pc[p] = "rows" =>
        /\ pos[p] \in 1 .. Len(log) + 1
        /\ out[p] = <<Project(Names(sch[p]), Selected(p))>>
                      \o [k \in 1 .. pos[p] - 1 |-> Project(log[k], Selected(p))]

(* No step of any run removes or changes a line that is in the file.       *)
AppendOnly == [][IsPrefix(lines, lines')]_vars

(* The table of Table.tla: the header's names, the rows below it, how many *)
(* statements each run has reported successful, and the output of a SELECT *)
(* once it is complete.                                                    *)
Implemented == INSTANCE Table WITH
    Schemas <- Schemas \ {<<>>},
    Statements <- UNION {{pr[k] : k \in DOMAIN pr} : pr \in Programs},
    columns <- IF lines = <<>> THEN <<>> ELSE CellsOf(lines[1]),
    rows <- Rows(lines),
    done <- [p \in Process |-> item[p] - 1],
    shown <- [p \in Process |-> IF pc[p] \in {"rows", "failed", "killed"} THEN <<>> ELSE out[p]]

(* Statements over overlapping runs look atomic: INSERT and SELECT of      *)
(* storage.c implement those of Table, and a statement is reported         *)
(* successful in the step that takes its effect, and in no other.          *)
TableImplemented == Implemented!Spec

-----------------------------------------------------------------------------
(* One run at a time                                                       *)
-----------------------------------------------------------------------------
(* Once the rows of the file are readable they stay so: a SELECT that got  *)
(* past the header does not fail on a row that an INSERT was told is       *)
(* stored.                                                                 *)
RowsReadable ==
    \A p \in Process : pc[p] = "rows" => \A k \in DOMAIN lines : Readable(lines[k])

(* A run that got past the check of the header works on rows of the types  *)
(* of its schema: in an int column every stored cell reads back as an int, *)
(* and in a string column none reads as a formula.                         *)
TypedRows ==
    \A p \in Process : pc[p] \in {"append", "rows"} =>
        \A k \in DOMAIN log, c \in DOMAIN sch[p] :
            IF sch[p][c].type = "INT" THEN log[k][c] \in IntText ELSE log[k][c] \notin FormulaText

(* A file that a run created and did not get to write the header of stays  *)
(* without one: no later INSERT or SELECT repairs it.                      *)
Orphaned == exists /\ lines = <<>> /\ \A p \in Process : pc[p] # "header"
EmptyFileStaysEmpty == [][Orphaned => Orphaned']_vars

-----------------------------------------------------------------------------
(* Short writes, files that do not open                                    *)
-----------------------------------------------------------------------------
(* A line that ends with a newline is never changed, whatever is lost of   *)
(* what is written behind it.                                              *)
CompleteLinesStay ==
    [][\A k \in DOMAIN lines : Whole(lines[k]) => k \in DOMAIN lines' /\ lines'[k] = lines[k]]_vars

(* The bytes of the line that stand before such an end of it.              *)
Before(l, end) == SubSeq(l, 1, Len(l) - Len(end))
EndsIn(l, end) == Len(end) <= Len(l) /\ l = Before(l, end) \o end

(* Whatever is cut, no row is in the file that an INSERT did not report as *)
(* stored, none is there twice, and they stand in the order of the reports:*)
(* every whole line below the header ends with the bytes of a row owed,    *)
(* each line with that of a later one than the lines before.               *)
WholeRows == {k \in 2 .. Len(lines) : Whole(lines[k])}
StoredInOrder ==
    \E from \in [WholeRows -> DOMAIN log] :
        /\ \A k \in WholeRows : EndsIn(lines[k], WriteRow(log[from[k]]))
        /\ \A j, k \in WholeRows : j < k => from[j] < from[k]

(* Rows torn by short writes show through at one place only, unless one of *)
(* them was torn inside quotes: a whole line that SELECT would accept,     *)
(* however many torn rows it is made of, has from its second cell on the   *)
(* cells of the row it ends with.  Behind quotes that are left open        *)
(* parse_csv_line divides that row at other commas, and the line may have  *)
(* the right number of cells and none of the row's.                        *)
DamageConfined ==
    \A k \in WholeRows : \E n \in DOMAIN log :
        LET row == WriteRow(log[n]) IN
        /\ EndsIn(lines[k], row)
        /\ ~Unclosed(Before(lines[k], row)) /\ Len(CellsOf(lines[k])) = Len(schema)
              => Tail(CellsOf(lines[k])) = Tail(log[n])

(* A run that cannot open the file for reading, or finds none, creates it  *)
(* anew, whatever is there by then and whichever other runs are at work    *)
(* on it.  What the file then lacks is the oldest bytes of the rows owed,  *)
(* and nothing behind them: it holds a header or none, and the newest      *)
(* bytes of those rows to the last, none missing between them.             *)
Content(rows) == FlattenSeq([k \in DOMAIN rows |-> WriteRow(rows[k])])
NewestKept ==
    LET owed == Content(log)
        stored == FlattenSeq(lines)
    IN  \E n \in 0 .. Len(owed) :
            LET newest == SubSeq(owed, n + 1, Len(owed)) IN
            stored = newest \/ \E s \in Schemas \ {<<>>} : stored = HeaderLine(s) \o newest

-----------------------------------------------------------------------------
(* A run that is not killed comes to its end.                              *)
RunsEnd == \A p \in Process : pc[p] \in Running ~> pc[p] \in Stopped
=============================================================================
