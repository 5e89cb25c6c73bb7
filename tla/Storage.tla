------------------------------ MODULE Storage -------------------------------
(***************************************************************************)
(* Runs of sqlproc on one table: execute_program and the statements of     *)
(* executor.c over the CSV file of storage.c, one step per call that       *)
(* touches a file.  Several runs, one after the other or at the same time, *)
(* share the schema file and the data file; nothing in the code locks      *)
(* either.                                                                 *)
(*                                                                         *)
(* The data file is a sequence of lines and a line a sequence of bytes     *)
(* that ends with a newline or, only the last one, without.  stdio buffers *)
(* a header or a row (both shorter than its buffer) until fclose, so each  *)
(* reaches the file in one write, and it is that write that is the step.   *)
(***************************************************************************)
EXTENDS Executor, CsvText

CONSTANTS Process,       \* the runs of sqlproc that may be active at once
          Schemas,       \* what the schema file may hold; <<>>: unusable
          Programs,      \* the parsed SQL files
          InitFiles,     \* what the data file may be when the system starts
          Faults,        \* what the environment may do
          MaxRuns,       \* bound: runs per process
          MaxValueLen,   \* SQLPROC_MAX_VALUE_LEN: a cell is shorter than this
          LineMax        \* STORAGE_MAX_ROW_LEN - 1: the most fgets returns

(* "no_read":     fopen(path, "rb") fails although the file is there       *)
(* "bad_read":    fgets fails before the end of the file                   *)
(* "no_write":    fopen(path, "wb") or fopen(path, "ab") fails             *)
(* "short_write": only a part of what was buffered reaches the file        *)
(* "kill":        a run ends between two of its steps                      *)
(* "edit_schema": the schema file is replaced while runs are active        *)
FaultKind == {"no_read", "bad_read", "no_write", "short_write", "kill", "edit_schema"}

Byte == Piece \cup LineEnds
Whole(l) == l # <<>> /\ l[Len(l)] = Newline
Line == {l \in Seq(Byte) : l # <<>> /\ \A k \in 1 .. Len(l) - 1 : l[k] # Newline}
Lines == {ls \in Seq(Line) : \A k \in 1 .. Len(ls) - 1 : Whole(ls[k])}
File == {f \in [exists : BOOLEAN, lines : Lines] : f.exists \/ f.lines = <<>>}

(* No string literal and no name of a schema file holds a line end, no     *)
(* name of a schema file a comma.                                          *)
ASSUME ByteAssumption == {Comma, Quote} \subseteq Piece /\ LineEnds \cap Piece = {}
ASSUME InstanceAssumption ==
    /\ Schemas \subseteq TableSchema
    /\ \A s \in Schemas : \A c \in DOMAIN s : ~Has(s[c].name, {Comma})
    /\ Programs \subseteq Seq(Statement)
    /\ InitFiles \subseteq File
    /\ Faults \subseteq FaultKind
ASSUME BoundAssumption == MaxRuns \in Nat /\ MaxValueLen \in Nat /\ LineMax \in Nat

VARIABLES exists, lines,     \* the data file
          schema,            \* the schema file
          pc,                \* what each run does next
          program, item,     \* its SqlProgram and the statement it is at
          sch,               \* its own copy of the schema, loaded per statement
          pos,               \* SELECT: how many lines it has read
          out,               \* SELECT: the lines it has printed
          runs,              \* bound: how many runs each process has started
          log                \* ghost: the rows the table owes, oldest first

file == <<exists, lines>>
local == <<program, item, sch, pos, out>>
vars == <<exists, lines, schema, pc, program, item, sch, pos, out, runs, log>>

-----------------------------------------------------------------------------
(* Lines and bytes                                                         *)
-----------------------------------------------------------------------------
(* Mutant: a line that just fits is refused.                               *)
TooLong_OffByOne(l) == Len(l) >= LineMax
(* validate_line_length: fgets filled its buffer, met no newline and has   *)
(* not yet noticed the end of the file.                                    *)
TooLong(l) == Len(l) > LineMax \/ (Len(l) = LineMax /\ ~Whole(l))

(* parse_csv_line: few enough cells, each short enough for its array.      *)
Parses(l) == /\ Len(CellsOf(l)) <= MaxColumns
             /\ \A c \in DOMAIN CellsOf(l) : Len(CellsOf(l)[c]) < MaxValueLen

Readable(l) == ~TooLong(l) /\ Parses(l)

(* Mutants: the count is not compared; the names are not compared.         *)
HeaderMatches_AnyCount(s, l) ==
    Readable(l) /\ \A c \in DOMAIN s : c \in DOMAIN CellsOf(l) /\ CellsOf(l)[c] = s[c].name
HeaderMatches_AnyNames(s, l) == Readable(l) /\ Len(CellsOf(l)) = Len(s)
(* validate_header_values, on a header that could be read.                 *)
HeaderMatches(s, l) == Readable(l) /\ CellsOf(l) = Names(s)

Rows(ls) == [k \in 1 .. Len(ls) - 1 |-> CellsOf(ls[k + 1])]

(* What reaches the file of bytes of which only a first part is written.   *)
Torn(bytes) == {SubSeq(bytes, 1, n) : n \in 0 .. Len(bytes) - 1}

(* Mutants: the file is opened with "wb"; a row is joined to a whole line; *)
(* what is written behind an unterminated line is a line of its own.       *)
WriteAtEnd_Truncates(ls, bytes) == <<bytes>>
WriteAtEnd_Joins(ls, bytes) ==
    IF ls = <<>> THEN <<bytes>> ELSE Append(Front(ls), Last(ls) \o bytes)
WriteAtEnd_OwnLine(ls, bytes) == Append(ls, bytes)
(* A write in mode "ab": behind the last byte of the file, on the same     *)
(* line if that byte is no newline.                                        *)
WriteAtEnd(ls, bytes) ==
    CASE bytes = <<>> -> ls
      [] bytes # <<>> /\ ls # <<>> /\ ~Whole(Last(ls)) -> Append(Front(ls), Last(ls) \o bytes)
      [] OTHER -> Append(ls, bytes)

(* What is left of the lines when their first n bytes are taken off: the   *)
(* one ending of that size.                                                *)
Size(ls) == Len(FlattenSeq(ls))
Endings(ls) ==
    UNION {{<<SubSeq(ls[k], n, Len(ls[k]))>> \o SubSeq(ls, k + 1, Len(ls)) :
              n \in 1 .. Len(ls[k])} : k \in DOMAIN ls}
Remainders(ls, n) ==
    {r \in {<<>>} \cup Endings(ls) : Size(r) = IF n >= Size(ls) THEN 0 ELSE Size(ls) - n}

(* A write in mode "wb" starts at byte 0 of the file opened, which another *)
(* run may have filled since this one emptied it.                          *)
WriteAtStart(ls, bytes) ==
    {CASE rest = <<>> -> WriteAtEnd(<<>>, bytes)
       [] rest # <<>> /\ Whole(bytes) -> <<bytes>> \o rest
       [] OTHER -> <<bytes \o Head(rest)>> \o Tail(rest) : rest \in Remainders(ls, Len(bytes))}

-----------------------------------------------------------------------------
Stmt(p) == program[p][item[p]]
(* Mutant: the values are stored in the order they are written.            *)
Row_AsWritten(p) == [k \in DOMAIN Stmt(p).values |-> Stmt(p).values[k].text]
Row(p) == InsertRow(sch[p], Stmt(p))
Selected(p) == SelectedIndices(sch[p], Stmt(p))
HeaderLine(s) == HeaderBytes(Names(s))

Stopped == {"idle", "done", "failed", "killed"}
Running == {"statement", "ensure", "create", "header", "append", "open", "rows"}

Goto(p, l) == pc' = [pc EXCEPT ![p] = l]
Finish(p) == Goto(p, "statement") /\ item' = [item EXCEPT ![p] = @ + 1]
Show(p, line) == out' = [out EXCEPT ![p] = Append(@, line)]

Init ==
    /\ \E f \in InitFiles : exists = f.exists /\ lines = f.lines /\ log = Rows(f.lines)
    /\ schema \in Schemas
    /\ pc = [p \in Process |-> "idle"]
    /\ program = [p \in Process |-> <<>>]
    /\ item = [p \in Process |-> 1]
    /\ sch = [p \in Process |-> <<>>]
    /\ pos = [p \in Process |-> 0]
    /\ out = [p \in Process |-> <<>>]
    /\ runs = [p \in Process |-> 0]

(* A new process: the SQL file is read and parsed before anything else.    *)
RunProgram(p) ==
    /\ pc[p] \in Stopped
    /\ runs[p] < MaxRuns
    /\ \E pr \in Programs : program' = [program EXCEPT ![p] = pr]
    /\ runs' = [runs EXCEPT ![p] = @ + 1]
    /\ item' = [item EXCEPT ![p] = 1]
    /\ sch' = [sch EXCEPT ![p] = <<>>]
    /\ pos' = [pos EXCEPT ![p] = 0]
    /\ out' = [out EXCEPT ![p] = <<>>]
    /\ Goto(p, "statement")
    /\ UNCHANGED <<exists, lines, schema, log>>

(* execute_program: the end of the loop.                                   *)
EndProgram(p) ==
    /\ pc[p] = "statement"
    /\ item[p] > Len(program[p])
    /\ Goto(p, "done")
    /\ UNCHANGED <<exists, lines, schema, program, item, sch, pos, out, runs, log>>

(* load_table_schema, then the checks that need the schema only; the first *)
(* failure of any statement ends the run.                                  *)
BeginStatement(p, kind, error, next) ==
    /\ pc[p] = "statement"
    /\ item[p] <= Len(program[p])
    /\ Stmt(p).kind = kind
    /\ sch' = [sch EXCEPT ![p] = schema]
    /\ pos' = [pos EXCEPT ![p] = 0]
    /\ out' = [out EXCEPT ![p] = <<>>]
    /\ Goto(p, IF schema = <<>> \/ error # NoError THEN "failed" ELSE next)
    /\ UNCHANGED <<exists, lines, schema, program, item, runs, log>>

BeginInsert(p) == BeginStatement(p, "INSERT", InsertError(schema, Stmt(p)), "ensure")
BeginSelect(p) == BeginStatement(p, "SELECT", SelectError(schema, Stmt(p)), "open")

(* Mutant: an empty file is created anew.                                  *)
EnsureDataFile_RecreatesEmpty(p) ==
    /\ pc[p] = "ensure"
    /\ Goto(p, IF ~exists \/ lines = <<>> THEN "create"
               ELSE IF HeaderMatches(sch[p], lines[1]) THEN "append" ELSE "failed")
    /\ UNCHANGED <<exists, lines, schema, local, runs, log>>
(* ensure_data_file, first half: a file that opens must start with the     *)
(* header of the schema.  Any failure to open it is read as its absence.   *)
EnsureDataFile(p) ==
    /\ pc[p] = "ensure"
    /\ \/ /\ exists
          /\ Goto(p, IF lines # <<>> /\ HeaderMatches(sch[p], lines[1]) THEN "append" ELSE "failed")
       \/ exists /\ "bad_read" \in Faults /\ Goto(p, "failed")
       \/ (~exists \/ "no_read" \in Faults) /\ Goto(p, "create")
    /\ UNCHANGED <<exists, lines, schema, local, runs, log>>

(* Mutant: a file that cannot be created is tried again.                   *)
CreateDataFile_Retries(p) ==
    /\ pc[p] = "create"
    /\ \/ exists' = TRUE /\ lines' = <<>> /\ Goto(p, "header")
       \/ "no_write" \in Faults /\ Goto(p, "ensure") /\ UNCHANGED file
    /\ UNCHANGED <<schema, local, runs, log>>
(* Second half: fopen(path, "wb") creates the file or empties it ...       *)
CreateDataFile(p) ==
    /\ pc[p] = "create"
    /\ \/ exists' = TRUE /\ lines' = <<>> /\ Goto(p, "header")
       \/ "no_write" \in Faults /\ Goto(p, "failed") /\ UNCHANGED file
    /\ UNCHANGED <<schema, local, runs, log>>

(* ... and the header reaches it at fclose, whose result is ignored.  With *)
(* a buffer smaller than the header, fputc may report the short write.     *)
WriteHeader(p) ==
    /\ pc[p] = "header"
    /\ \/ lines' \in WriteAtStart(lines, HeaderLine(sch[p])) /\ Goto(p, "append")
       \/ /\ "short_write" \in Faults
          /\ \E t \in Torn(HeaderLine(sch[p])), next \in {"append", "failed"} :
                lines' \in WriteAtStart(lines, t) /\ Goto(p, next)
    /\ UNCHANGED <<exists, schema, local, runs, log>>

(* Mutants: a row that was cut short is written again, and the statement   *)
(* fails all the same; the failure to open the file is not noticed.        *)
AppendRow_WritesAgain(p) ==
    /\ pc[p] = "append"
    /\ \/ lines' = WriteAtEnd(lines, WriteRow(Row(p))) /\ log' = Append(log, Row(p)) /\ Finish(p)
       \/ \E t \in Torn(WriteRow(Row(p))) :
             /\ lines' = WriteAtEnd(WriteAtEnd(lines, t), WriteRow(Row(p)))
             /\ Goto(p, "failed") /\ UNCHANGED <<log, item>>
    /\ UNCHANGED <<exists, schema, program, sch, pos, out, runs>>
AppendRow_IgnoresOpen(p) ==
    /\ pc[p] = "append"
    /\ \/ lines' = WriteAtEnd(lines, WriteRow(Row(p)))
       \/ "no_write" \in Faults /\ UNCHANGED lines
    /\ log' = Append(log, Row(p))
    /\ Finish(p)
    /\ UNCHANGED <<exists, schema, program, sch, pos, out, runs>>
(* storage_append_row after ensure_data_file: the statement reports        *)
(* success, and the table owes its row, unless a failure is noticed.       *)
AppendRow(p) ==
    /\ pc[p] = "append"
    /\ \/ /\ lines' = WriteAtEnd(lines, WriteRow(Row(p)))
          /\ log' = Append(log, Row(p))
          /\ Finish(p)
       \/ /\ "no_write" \in Faults
          /\ Goto(p, "failed")
          /\ UNCHANGED <<lines, log, item>>
       \/ /\ "short_write" \in Faults
          /\ \E t \in Torn(WriteRow(Row(p))) : lines' = WriteAtEnd(lines, t)
          /\ \/ Goto(p, "failed") /\ UNCHANGED <<log, item>>
             \/ Finish(p) /\ log' = Append(log, Row(p))
    /\ UNCHANGED <<exists, schema, program, sch, pos, out, runs>>

(* Mutants: a line is skipped; the last line is taken for the end of the   *)
(* file.                                                                   *)
AfterLine_Skips(p, l) ==
    /\ pos' = [pos EXCEPT ![p] = @ + 2]
    /\ IF Whole(l) THEN Goto(p, "rows") /\ UNCHANGED item ELSE Finish(p)
AfterLine_StopsShort(p, l) ==
    /\ pos' = [pos EXCEPT ![p] = @ + 1]
    /\ IF pos[p] + 2 < Len(lines) THEN Goto(p, "rows") /\ UNCHANGED item ELSE Finish(p)
(* A line has been read and printed.  Behind an unterminated one fgets has *)
(* met the end of the file, and stdio remembers that.                      *)
AfterLine(p, l) ==
    /\ pos' = [pos EXCEPT ![p] = @ + 1]
    /\ IF Whole(l) THEN Goto(p, "rows") /\ UNCHANGED item ELSE Finish(p)

(* storage_print_rows, up to the header line.                              *)
OpenForSelect(p) ==
    /\ pc[p] = "open"
    /\ \/ /\ ~exists
          /\ Show(p, Project(Names(sch[p]), Selected(p)))
          /\ Finish(p)
          /\ UNCHANGED pos
       \/ /\ exists /\ (lines = <<>> \/ "bad_read" \in Faults)
          /\ Finish(p)
          /\ UNCHANGED <<pos, out>>
       \/ /\ exists /\ lines # <<>>
          /\ HeaderMatches(sch[p], lines[1])
          /\ Show(p, Project(Names(sch[p]), Selected(p)))
          /\ AfterLine(p, lines[1])
       \/ /\ \/ exists /\ lines # <<>> /\ ~HeaderMatches(sch[p], lines[1])
             \/ "no_read" \in Faults
          /\ Goto(p, "failed")
          /\ UNCHANGED <<item, pos, out>>
    /\ UNCHANGED <<exists, lines, schema, program, sch, runs, log>>

(* One iteration of the loop over the rows, or its end.                    *)
PrintRow(p) ==
    /\ pc[p] = "rows"
    /\ \/ /\ pos[p] >= Len(lines) \/ "bad_read" \in Faults
          /\ Finish(p)
          /\ UNCHANGED <<pos, out>>
       \/ /\ pos[p] < Len(lines)
          /\ LET l == lines[pos[p] + 1] IN
             IF Readable(l) /\ Len(CellsOf(l)) = Len(sch[p])
             THEN Show(p, Project(CellsOf(l), Selected(p))) /\ AfterLine(p, l)
             ELSE Goto(p, "failed") /\ UNCHANGED <<item, pos, out>>
    /\ UNCHANGED <<exists, lines, schema, program, sch, runs, log>>

Kill(p) ==
    /\ "kill" \in Faults
    /\ pc[p] \in Running
    /\ Goto(p, "killed")
    /\ UNCHANGED <<exists, lines, schema, local, runs, log>>

EditSchema ==
    /\ "edit_schema" \in Faults
    /\ schema' \in Schemas \ {schema}
    /\ UNCHANGED <<exists, lines, pc, local, runs, log>>

Step(p) == \/ EndProgram(p)
           \/ BeginInsert(p) \/ EnsureDataFile(p) \/ CreateDataFile(p)
           \/ WriteHeader(p) \/ AppendRow(p)
           \/ BeginSelect(p) \/ OpenForSelect(p) \/ PrintRow(p)

Next == EditSchema \/ \E p \in Process : RunProgram(p) \/ Step(p) \/ Kill(p)

Spec == Init /\ [][Next]_vars

(* A run that has started goes on: the operating system schedules every    *)
(* process.  It may never be started, killed, or have its schema edited.   *)
FairSpec == Spec /\ \A p \in Process : WF_vars(Step(p))
=============================================================================
