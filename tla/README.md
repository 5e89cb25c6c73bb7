# sqlproc in TLA+

`sqlproc` is a small SQL processor in C: `sqlproc --schema-dir S --data-dir D f.sql`
reads a file of `INSERT` and `SELECT` statements, and runs them one after the other
on tables kept as CSV files. The modules here model it from the command line to the
bytes of the files, state what its parts promise, check it with TLC on small
instances and prove most of it with TLAPS for all instances. `PROJECT.json` maps every definition to the
lines it models, and lists runs, mutants, findings, hazards and theorems.

## 1. Inventory

| Part | State | Operations | Talks to |
|---|---|---|---|
| `src/app.c` application control | the SQL text (8192 bytes), one `ErrorInfo` | `parse_arguments`, `load_sql_file`, `run_sql_text`, `run_program`, `print_error` | calls tokenizer, parser, executor in this order; stops at the first failure |
| `src/tokenizer.c` | `TokenList` (512), index, line, column | `tokenize_sql` and its readers | result to the parser |
| `src/parser.c` | `ParserState`, `SqlProgram` (32 statements) | `parse_program`, recursive descent | result to the executor |
| `src/schema.c` schema loader | the schema file, a fresh `TableSchema` per statement | `load_table_schema` | called at the start of every statement |
| `src/executor.c` | `row_values`, `used_columns`, `selected_indices` on the stack | `execute_program`, `execute_insert`, `execute_select`, `build_insert_row_values`, `resolve_selected_columns` | schema loader, storage |
| `src/storage.c` | the CSV file: a header line and rows | `storage_append_row` (`ensure_data_file`, append), `storage_print_rows` | the file system, stdout |
| `src/main.c` | none | entry point | `run_program` |

What is hard in it, and what makes it correct:

* **Storage.** A process keeps nothing between statements: everything is in two
  files that other processes may use at the same moment, without any lock. An
  INSERT reads the schema, opens the data file to check its header, perhaps
  creates it, then opens it again to append: four moments between which anything
  may change. What it wrote is in a stdio buffer until `fclose`, whose result
  is ignored. Correct means that the file holds the rows of the INSERTs that
  reported success, each once, in order, of the width and the types of the
  header's schema, and that SELECT shows exactly those.
* **Executor.** Values come in the order of the statement and are stored in that
  of the schema. Correct means: accepted or refused, with the right error at the
  right place, independently of the order of the column list; an accepted
  statement gives each column its own value.
* **Sequential programs.** The first failure ends a program; what came before stays.
* **Limits.** Sixteen columns, 63-byte names and values, 1023-byte lines as read
  by `fgets`, 512 tokens, 32 statements: which combinations are accepted by one
  part and refused by another.
* **Front end.** `app.c`, the tokenizer, the parser and the schema loader are
  sequential and bounded. Correct means: only a whole file is run, no character is
  lost or used twice, a legal program is parsed into the statements that its
  tokens spell, another is refused at the place of the first thing that is wrong, the
  limits are respected before an array is written, and every location kept for
  a later error is still that of its token.
* **CSV lines.** Rows are quoted, headers are not, and the reader's notion of a
  quoted part is not the writer's. Correct means that what INSERT writes SELECT reads.

## 2. Modules

| Module | Models | Uses |
|---|---|---|
| `Executor` | `executor.c` as pure operators: the verdict on a statement and the row or the indices it denotes | |
| `BuildRow` | the two loops of `build_insert_row_values`, a step per iteration | `Executor` |
| `Table` | abstract specification: what INSERT and SELECT promise of one table | `Executor` |
| `CsvText` | the bytes of a line: how cells are written, and which cells are read in them | |
| `Storage` | runs of sqlproc over the two files, a step per call that touches one | `Executor`, `CsvText` |
| `StorageProps` | the properties of `Storage`, and its refinement of `Table` | `Storage`, `Table` |
| `CsvLine` | one line of a CSV file: `fgets`, `validate_line_length` and `parse_csv_line` with its arrays and its look ahead, byte by byte | `CsvText` |
| `SchemaFile` | `load_table_schema`, a step per entry | `Executor` |
| `Tokenizer` | `tokenize_sql`, a step per turn of its loop | |
| `App` | `main`, `parse_arguments`, `load_sql_file`, and then the tokenizer on what was loaded | `Tokenizer` |
| `Parser` | `parse_program` and all it calls, a step per statement, keyword, name or value | `Executor` |
| `MCBuildRow`, `MCStorage`, `MCCsvLine`, `MCSchemaFile`, `MCApp`, `MCParser` | the instances TLC checks | |
| `SequenceLemmas` | lemmas on sequences joined to one by `FlattenSeq` (where each piece stands, how long the whole is, what one piece more does), on induction over numbers and the least of a set | |
| `ExecutorProofs` | lemmas on the operators of `Executor` | `Executor`, `SequenceLemmas` |
| `BuildRowProofs`, `StorageProofs`, `CsvLineProofs`, `SchemaFileProofs`, `ParserProofs`, `AppProofs` | theorems on the module of that name; `StorageProofs` also has the refinement of `Table` | the module, and `ExecutorProofs` or `SequenceLemmas` |

The parts meet at data that one gives and the next takes: `App` ends with the
tokens that `Parser` assumes (`ParserAssumption` is what `TypeOK` of `App` says of
them), `Parser` gives statements of the set `Statement` of `Executor`, `SchemaFile` gives a
`TableSchema`, and `Storage` takes both in `RunProgram` and `BeginStatement`. `Storage` reads lines with
`CellsOf` of `CsvText`, and `CsvLine` says (`CellsAsInStorage`) that these are the cells which the code,
with its arrays and limits, finds in the same bytes.

### How the modules correspond to the code

**Texts.** A name, a literal or a cell is a sequence of *pieces*, one per byte.
Only what the properties tell apart is kept: which texts `strtol` reads as an `int`
(`IntText`), which start like a formula (`FormulaText`), how long they are, and in `Storage` and
`CsvLine` where they have a comma or a quote. In `CsvText`, `CsvLine` and the front-end modules pieces
are one-character strings, in `Storage` commas, quotes and line ends are, and model values the rest.

**CsvText.** `WriteField` and `WriteRow` are `write_csv_field` and `write_csv_row`, `HeaderBytes` is the
header as `ensure_data_file` writes it, which is not quoted. `ReadByte` is a turn of the loop of
`parse_csv_line`, but for its limits, written as a machine that needs no look ahead: the mode `"closed"` is
behind a quote inside quotes, of which only the next byte tells whether it ends them. `CellsOf` are
the cells of a line, and `Unclosed` says of a part of one that it ends inside quotes.

**Executor.** `InsertError` gives the verdict of `build_insert_row_values`
declaratively: wrong count, else the first value refused (by unknown column, column given
twice, type, range, formula, in the order the code asks), else a column without a
value. `InsertRow` gives the row. `BuildRow` is the code as written: `CountValues`,
`PlaceInOrder` (no column list), `PlaceByName` (column list), `EndOfValues`, `CheckUsed`,
over `used` and `row`. `Storage` uses the operators; that the loops compute
them is checked and proved, so nothing is lost by it. An error is kept as the
message and the place it points to: the table, the n-th column name or the n-th value.

**Storage.** `pc[p]` is what run `p` does next:

    statement -> ensure -> (create -> header ->) append -> statement     INSERT
    statement -> open -> rows ... -> statement                           SELECT

| Action | Code |
|---|---|
| `RunProgram` | `run_program`: a new process with a parsed program |
| `EndProgram` | `execute_program` returns success |
| `BeginInsert`, `BeginSelect` | `load_table_schema` into the statement's own copy `sch[p]`, then `build_insert_row_values` or `resolve_selected_columns`; a failure ends the run |
| `EnsureDataFile` | `fopen(path, "rb")` and the check of the header |
| `CreateDataFile` | `fopen(path, "wb")`, which creates or empties |
| `WriteHeader` | the header, which reaches the file at `fclose` |
| `AppendRow` | `fopen(path, "ab")`, the row, `fclose`; success is reported here |
| `OpenForSelect`, `PrintRow` | `storage_print_rows` up to the header; one turn of its loop |
| `Kill`, `EditSchema` | the environment |

The data file is a sequence of lines and a line a sequence of bytes; all but the last end with a newline.
What a run writes are bytes, too (`WriteRow`, `HeaderBytes`), `Torn` any first part of them, and the cells are
found again by `CellsOf`, whoever wrote the line and however it came about. `WriteAtEnd` is what "ab" does: behind an
unterminated line the new bytes go on that line. `WriteAtStart` is what a write at offset 0
does to a file another run has meanwhile filled.
`TooLong` and `Parses` are `validate_line_length` and the limits of `parse_csv_line`. `log` is a
ghost: the rows the file started with and one for each INSERT that reported success.

`Faults` says what the environment may do in an instance: `"no_read"` (`fopen "rb"`
fails on a file that exists), `"no_write"`, `"bad_read"` (`fgets` fails), `"short_write"`
(a flush is cut at any byte, reported or not), `"kill"`, `"edit_schema"`.

**CsvLine.** The line is one that `WriteRow` or `HeaderBytes` gives, or another program's. `FetchLine` is `fgets` with
`validate_line_length`; `NoMoreColumns`, `ReadEscapedQuote`, `ReadQuote`, `ReadComma` and
`ReadCharacter` are the branches of the loop of `parse_csv_line` in their order, and `EndOfLine` is
what stands behind the loop. Indices are one more than in the code. `source` is a
ghost: the cells that were written, or that the line is another program's.

**SchemaFile.** `OpenSchema` opens the file and reads the line buffer, `ReadEntry` is one turn of the
loop (`EntryFault` gives the checks in their order), `EndOfEntries` the check behind
it. A file may be absent, empty, longer than the buffer, or without a newline.

**App and Tokenizer.** They share `pc`: `arguments` (then perhaps `usage`), `load`, `scan`, and
`tokens` or `refused`. A file is its bytes and how many of them can be read before the disk
reports an error. Each action of `Tokenizer` is one branch of the loop of `tokenize_sql`; a
whole word, number or string is one step, because its inner loop touches nothing
but the index and a local array. `AppendToken` is `append_token`, for the end marker too.

**Parser.** `pc` is what the function that is running expects next; none of them is recursive, so
there is no stack to keep. The calls of `consume_token`
differ only in the token and in what comes then: `Needed` and `Then` are their table.
A statement is built in place; `where` keeps the index of the token each
location was taken from, instead of its line and column, which `Tokenizer` gives it.
Against it stands the grammar as a set: `Sentences` are the types of the tokens of all legal
programs, `Viable` their beginnings.

**Table.** `columns`, `rows`, and for each process how many statements of its program it has reported
successful (`done`) and what its last one has `shown`. A successful INSERT appends its row in one step, a
successful SELECT shows the names it chose and all rows there are at one moment; nothing else may count
a statement as done. One exception is stated as an action of its own: while the table has no columns a SELECT may
succeed and show nothing (`SelectNothing`), for that is what `storage_print_rows` does with an empty file.
Under the mapping in `StorageProps`, `columns` and `rows` are read off the
file, `done` off the index into the program, and `shown` is the output of a SELECT once complete: the steps of `Storage`
between are stutters, so every statement is atomic at the step that counts (the
append; the end of the file), and an INSERT that reports success without its row in the table, or
a SELECT that does with rows missing, is no step of `Table`.

## 3. What the runs show

Bounds: `MaxRuns` runs per process; programs, schemas and initial files are those in
`MCStorage`, those of the other components in the MC modules of their names. In
`Storage` a cell is shorter than `MaxValueLen`, and where nothing else is said `LineMax` =
`MaxColumns * MaxValueLen - 1` as 1023 = 16 * 64 - 1. In `shared_file`
it is one byte more, so that no row is refused for its length, in `fresh_table` the 6 bytes of the longest row inserted
(two columns, one value in quotes), and `torn_writes` has a buffer that two
joined rows fit, for longer lines are refused whatever is in them. Deadlock is not checked: a system whose runs are all over stops, and a
function returns.

| Run | Instance | Shows |
|---|---|---|
| `build_row` | every INSERT of at most 3 values over 4 kinds of literal, 4 schemas (one with a repeated name) | `LoopsAgree`, `OrderIsFree`, `ReadBack` |
| `shared_file` | 2 overlapping runs, 4 programs (one inserts a comma), existing file, schema edits (types, order, width, unusable), failing opens, kills | `RowsMatchHeader`, `StoredIsLog`, `ReadIsPrefix`, `AppendOnly`, refinement of `Table` |
| `fresh_table` | 4 runs in sequence, 6 programs, file absent, empty, of another header, in use; failing opens, kills, reordered schemas | refinement of `Table`, `RowsReadable`, `TypedRows`, `EmptyFileStaysEmpty` |
| `torn_writes` | 2 runs, rows of 3 cells with commas and quotes among them, file absent or with a header, writes cut at any byte, reported or not | `StoredInOrder`, `DamageConfined`, `CompleteLinesStay` |
| `unreadable_file` | 2 overlapping runs, file absent or with a row; it sometimes does not open or read; kills | `NewestKept`, `RunsEnd` |
| `csv_line` | rows and headers of up to 3 cells of up to 2 characters out of letter, comma, quote; foreign lines of up to 6 characters, and of 11 to 13 around the buffer; `LineMax` 12 | `RowsReadBack`, `HeadersReadBack`, `CellsAreBetweenSeparators`, `CellsAsInStorage` |
| `schema_file` | files of up to 4 entries out of 9 good and bad ones, 4 kinds of line end; 3 columns, names of 5, `LineMax` 17 | `LoadsTheLine`, `CutIsPrefix`, `HeaderFits` |
| `sql_text` | all texts of up to 4 characters out of 10, and of up to 3 of 11 fragments, 4 around the size of the buffer with a disk that fails at any byte; 4 or 5 arguments out of 5; 3 tokens, values of 2 | `BothDirectories`, `WholeFileLoaded`, `TokensCoverText`, `TypesFromText`, `ErrorIsThere` |
| `parser` | every program of up to 2 statements, 2 columns, and every beginning of one with every token behind it | `ProgramSpellsTokens`, `LocationsPoint`, `FirstErrorReported` |

`TypeOK` is checked in one run of each component, that of `Storage` in `torn_writes`, where lines come apart.

Two processes are enough for the hazards of overlap: each is a check by one run
invalidated by a step of another. Four runs in sequence let a first run be killed
between creation and header, a second meet the empty file, and still others
insert and read. In `torn_writes` a cut falls in the first, an
inner and the last cell, on a separator, before, between and behind quotes and before the newline, and a torn row
is joined to a torn or a whole one. The case that `DamageConfined` excepts occurs there (without the exception the run
finds it violated). An example in other letters: of the row `k,"ab,q",z` only `k,"ab` is written, and then
`1,"c,d",e` behind it. In `k,"ab1,"c,d",e` `parse_csv_line` finds `k`, `ab1,c` and
`d,e`: three cells, which SELECT prints, and whose last two are of no row that was inserted.

In `csv_line` a row of three cells of two quotes takes 21 characters and one of three
letters 6, so lines fall on both sides of the buffer, and on its last byte; two
characters in a cell are what a lookahead of one needs. In `schema_file` the header of three
names of five characters takes 18 with its separators, one more than the buffer holds, as
one of 16 names of 63 bytes takes 1024; entries of 3, 4 and 8 characters let the cut
fall behind an entry, behind its comma, in a name and in a type. In `sql_text` one text can exceed the number of tokens (3),
the length of a word, number or string (2), the buffer (7 bytes), and have several lines. A
branch of the tokenizer depends on one character and on one looked ahead, or on the
length of a stretch against its limit, so four free characters meet each branch behind
each other. In `parser` the second column, value or statement is the last that is allowed; the third
of each comes with the tokens put behind the beginnings. One step of the parser looks at two tokens, and every
position of every legal program is met with every token.

`FirstErrorReported` compares the parser with the grammar token by token. The code reports three
errors not at the first token that is wrong but right before or behind it: one entry
too many at what follows the comma, and a list of values that is too short at its last value.
`FirstBad` says so.

### Where the code departs from its documents

Three runs end in a violation, each of a property that holds if the documents are right:

| Run | What happens |
|---|---|
| `file_emptied` | `ensure_data_file` opens with "wb" a file it merely failed to open for reading |
| `widest_row` | 16 values of 63 bytes are stored, and no SELECT can read the table again |
| `schema_cut` | a schema line of more than 1023 bytes is cut without a word; 16 columns within all limits become 15 |

`widest_row` and `schema_cut` also occur when the built program is run on such files. Three more
contradictions are part of what a passing run shows of the code; `findings` in `PROJECT.json` quotes
the documents for all six:

* An INSERT whose column list leaves out a column is refused (`LoopsAgree` in `build_row`);
  `REVIEW.md:88` says that empty strings are stored for such columns.
* A last line of exactly 1023 bytes without a newline is refused as too long, because `feof` is not yet true behind
  it (`CellsAsInStorage` in `csv_line`); `docs/storage-executor.md:342` says that a last line needs no newline.
* A SELECT on an existing empty file succeeds and prints nothing (`SelectNothing` in `Table`, of which
  `fresh_table` makes use); by the comment at `storage.c:344-346` a header is printed, or checked, in any case.

Two more have no run of their own:

* Of two first INSERTs that overlap, the second "wb" empties what the first has stored. `GUIDE.md:423` says
  that existing data is not overwritten. `unreadable_file` has this schedule, with and without failures to open, and
  `NewestKept` says what is left.
* A schema edited in its types only is not noticed, and rows of the new types go below rows of the old;
  `docs/storage-executor.md:320-322` says that the check of the header keeps wrong data out when the schema file is changed.
  `TypedRows` does not hold with such edits; `fresh_table` leaves them out, and its theorem excludes them by `TypesKept`.

The passing runs restrict the environment in other places where the code departs from what one might
expect, but from nothing that we found promised; `Dependable` in `StorageProps` and the instances of `MCStorage` name these:

* The result of `fclose` is ignored: an INSERT whose flush fails reports success. `StoredInOrder`
  says what then still holds.
* An INSERT behind an unterminated row joins the two; if that row ends inside quotes, its quotes
  also change which commas of the new one separate.
* A column name with a quote character gives a file that no statement can use again
  (`HeadersReadBack` has it as the exception it is).
* SQL text ends at a NUL byte, and, if the disk fails at the byte behind a full buffer, there
  (`WholeFileLoaded` names both); paths are cut at 255 bytes (`BothDirectories`).

**Fairness.** Only `RunsEnd` uses it: weak fairness of each run's next step, which is
the operating system's scheduling. Nothing is assumed of starts, kills or edits.

## 4. What is proved

Every theorem is stated for all values of the constants. The assumptions are those the
modules declare and TLC evaluates on every run: `TextAssumption`, `MaxColumnsAssumption`
(the texts, and a positive limit on columns), `CallAssumption` (`BuildRow` gets a schema and an
INSERT), `ByteAssumption`, `InstanceAssumption` and `BoundAssumption` (what the constants of `Storage` are: line ends are in
no text, commas in no column name, as the tokenizer and the schema loader see to),
`LineAssumption` and `SchemaAssumption` (what the lines of `CsvLine` are made of; `tolower`, the type names, of which none begins another, and the
limits in `SchemaFile`), `ParserAssumption` (the token list is one the tokenizer may return),
`TokenizerAssumption` (letters, digits and marks are different characters, `tolower` maps letters to
letters and is idempotent, no keyword has the type of another token, a value holds at least one character
and its NUL) and `AppAssumption` (arguments and files are sequences of characters, and the disk
gives no more than there is).

| Theorem | States | For |
|---|---|---|
| `BuildRowProofs!TypeCorrect` | the loops stay within their arrays | every schema and INSERT |
| `BuildRowProofs!LoopsCorrect` | `LoopsAgree`: `build_insert_row_values` ends with the verdict and the row of `InsertError` and `InsertRow` | the same |
| `BuildRowProofs!OrderCorrect` | `OrderIsFree`: another order of the column list, same verdict, same row | the same |
| `BuildRowProofs!ReadBackCorrect` | `ReadBack`: each column gets its own value and is found again | the same |
| `StorageProofs!TypeCorrect` | the file is a sequence of lines, with newlines at their ends only | every instance |
| `StorageProofs!RowsKept`, `HeaderKept` | `StoredIsLog`, `RowsMatchHeader` | `Dependable` |
| `StorageProofs!NothingLost` | `AppendOnly` | `Dependable` |
| `StorageProofs!ReadersCorrect` | `ReadIsPrefix` | `Dependable` |
| `StorageProofs!EmptyStays` | `EmptyFileStaysEmpty` | `Dependable` |
| `StorageProofs!WholeLinesKept` | `CompleteLinesStay` | `Appending` |
| `StorageProofs!RowsInOrder` | `StoredInOrder` | `Appending`, `NoRowsAtFirst` |
| `StorageProofs!DamageIsConfined` | `DamageConfined` | `Appending`, `OneSchemaWritten` |
| `StorageProofs!NewestRowsKept` | `NewestKept` | `Recreating` |
| `StorageProofs!TableRefined` | `TableImplemented`: `Storage` implements `Table`, reports of success included | `Dependable`, no read errors |
| `StorageProofs!RowsTyped` | `TypedRows` | `Dependable`, `TypesKept` |
| `StorageProofs!RowsStayReadable` | `RowsReadable`: no SELECT meets a row it refuses | `Dependable`, `RowsFit` |
| `StorageProofs!RoomIsEnough` | the same, from the limits | `Dependable`, `Roomy` |
| `CsvLineProofs!TypeCorrect` | `parse_csv_line` stays inside its arrays | every line |
| `CsvLineProofs!RowsReadBackCorrect` | `RowsReadBack`: what is written is what is read | every row within the limits |
| `CsvLineProofs!HeadersReadBackCorrect` | `HeadersReadBack`: read back if and only if no name holds a quote | all column names within the limits |
| `CsvLineProofs!CellsCorrect` | `CellsAreBetweenSeparators`: a comma separates exactly behind an even number of quotes | every line of every file |
| `SchemaFileProofs!TypeCorrect` | `load_table_schema` returns a schema within all limits, or none | every file |
| `SchemaFileProofs!LineCorrect` | `LoadsTheLine`: loaded if and only if the line read is well formed, with its columns; else the first fault is reported | every file and buffer |
| `SchemaFileProofs!CutCorrect` | `CutIsPrefix`: of a line that was cut, the first columns as they were declared | the same |
| `SchemaFileProofs!HeaderCorrect` | `HeaderFits`: the header of what was loaded fits the line buffer | the same |
| `ParserProofs!TypeCorrect` | `parse_program` stays inside its arrays and gives `Statement`s | every token list |
| `ParserProofs!LocationsCorrect` | `LocationsPoint` | every token list |
| `ParserProofs!SpellingCorrect` | `ProgramSpellsTokens`: the statements, written out, are the tokens read | every token list |
| `ParserProofs!FirstErrorCorrect` | `FirstErrorReported`: legal programs and no others are parsed; the others are refused at the first token that no legal program has there | every token list |
| `AppProofs!TypeCorrect` | the token list is what `parse_program` assumes | every command line and file |
| `AppProofs!TokensCorrect`, `TypesCorrect`, `ErrorsCorrect` | `TokensCoverText`, `TypesFromText`, `ErrorIsThere` | every text |
| `AppProofs!WholeFile` | `WholeFileLoaded` | every file and failure of the disk |
| `AppProofs!Directories` | `BothDirectories` | every command line |

The hypotheses on instances say what may go wrong in them:

| Hypothesis | Allows | Leaves out | Run that is such an instance |
|---|---|---|---|
| `Dependable` | any values, overlapping runs, kills, opens for writing and reads that fail, schema edits | files that do not open for reading, cut writes; a file created while another run may meet it; initial files with torn rows; column names with a quote | `shared_file`, `fresh_table` |
| `Appending` | all of these and writes cut anywhere | the first and the third of these | `torn_writes` |
| `NoRowsAtFirst` | | files with rows in them | `torn_writes` |
| `OneSchemaWritten` | | these, and schema edits | `torn_writes` |
| `Recreating` | any file that does not open, overlapping runs, each of which may create the file, kills, read errors, schema edits | cut writes; edits of the column names while runs overlap; initial files that are not a header and rows as INSERT writes them | `unreadable_file` |
| `TypesKept` | edits of the columns | edits of their types only, rows that were of other types before | `fresh_table` |
| `RowsFit` | values of any length | INSERTs of rows, and initial rows, longer than the buffers of SELECT | `fresh_table` |
| `Roomy` | all values that the tokenizer passes on | limits under which as many of the longest values as there may be columns do not fit a line; initial rows that cannot be read | none: in each run some row may be as long as the line, or longer |

`Roomy` has two cases. A value of `MaxValueLen - 1` bytes takes at most twice as many and two more in the file, with every
quote in it doubled and quotes around, so `MaxColumns * (2 * MaxValueLen + 1) <= LineMax` is enough for all values,
separators included; if no value has a comma or a quote (`ValuesPlain`), `MaxColumns * MaxValueLen <= LineMax` is.
`sqlproc` has neither: 16 values of 63 bytes with their separators are 1024, 16 of 63 quotes
2064, and the line holds 1023. `widest_row` is the first of these rows. One byte more would do for plain values only.

Each is needed: `file_emptied` is what happens without the first condition of `Dependable`, and section 3 says what
two runs that create the file, edits of types, and cut writes do.
A read error is left out of `TableRefined` because `fgets` then ends the loop over the rows
like the end of the file, and a SELECT that shows some of the rows reports success
(`ReadIsPrefix` still holds, and `ReadersCorrect` includes read errors).

**Bytes and cells.** Everything that `StorageProofs` says of cells rests on what `CellsOf` makes of bytes, and its first
half is about that. `Scan` is a recursive function; `FlattenSeq` gives the bytes of a row from those of its
cells; the induction over both is on sets of sequences (`AppendInduction`: a set with `<<>>`, and with all that is one
element longer than a member, has all sequences; it takes a set and not an operator, so the provers can use it). From it follow
that reading on from a state depends on the state only (`After` of what is joined), that a cell that was written is
read back from any place outside quotes, whatever quotes and commas it holds, that a written row gives its cells,
and a header its names if none has a quote, and how long a row is. If a line
ends with a row's bytes, what stands before it either ends inside quotes, or only the first cell of the row
is read together with it.

**The loops.** `LoopsAgree` speaks of the end only. The induction needs `LoopInvariant`: while a
loop is under way, the values before its index had no fault, and `used` and `row` hold
exactly what the columns covered so far got. `TypeOK /\ LoopInvariant` is inductive; at
the first fault the index is the least of `FaultyPairs`, at the end `used` is
`Covered`. `OrderIsFree` and `ReadBack` follow from facts on `InsertError` and `InsertRow`: an accepted
statement covers each column once, so a permutation of the pairs leaves the set of faults, the
set covered and the value of each column as they are. The lemmas on `Executor` (a column named is
found, a row has the width of its schema, ...) are in `ExecutorProofs`, for all components.

**The file, any instance.** The type of `lines` alone is not inductive: what a run writes is
a line only if its statement passed the checks of `BeginStatement` with the schema copy
it still holds. `StatementsChecked` says so, and `TypeOK /\ StatementsChecked` is inductive.
That a write at the end, or over the start of a file another run filled, gives lines again is `WriteAtEndCases` and
`WriteAtStartType`.

**The file, dependable instances.** Under `Dependable` `FileInv` is inductive with the above: a run at
`create` or `header` is alone and the file empty, and, the heart
of it, a run at `append` still finds the header it checked, because headers never
change once written. `RowsMatchHeader` alone is not inductive; without that conjunct the row
of a run at `append` could have any width.

**Readers.** `ReadInv` adds to `ReadIsPrefix` that a SELECT not yet at the file has read and
printed nothing. A step of another run leaves the reader's variables alone and `log` as it was or longer
at its end, so what was printed is still a prefix; the reader's own step prints the next
line, which by `StoredIsLog` is the next row owed.

**Refinement.** Each step of `Storage` is a step of `Table` under the mapping or leaves its state as it is.
Besides `FileInv` and `ReadInv` this takes `InformedInv`: the schema a run holds is one that was in the schema file, and
a SELECT past the header reads below the names of its own copy.
`AppendRow` is then the `Insert` of `Table`, the step of `PrintRow` that meets the end of the file its
`Select`: the output is complete at this moment, and by `ReadInv` it is all rows. `OpenForSelect` is a `Select` if there
is no file, and `SelectNothing` if it is empty; each of these counts the statement as done, and no step else does.

**Types of rows.** `TypedInv` quantifies over schemas, not over runs: with every schema that has the names of
the header, all rows are of its types. Under `TypesKept` there is only one such schema, so the
row a run appends, checked with its own copy, is of the types of every later reader.

**Lengths of rows.** `FitInv` says that every line behind the header can be read, and that a run at its rows has read a
header. Only `AppendRow` adds a line, and it is the row of the statement; on a dependable
instance no line is made longer by another. That `Roomy` gives `RowsFit` is arithmetic on the length of a written row: a
field is no longer than twice its text and two, pieces joined no longer than their number times the longest of them
and the separators; and that the row is read as the cells it was made of, of which none is too long.

**Cut writes and files that do not open.** `CreateInv` keeps of `FileInv` what is left when writes are cut: who creates is
alone. Only a whole write brings a newline, so a step that ends a line ends it with the bytes of the row it
reports, and `StoredInOrder` is extended by that line and that row; it is inductive with `CreateInv`. `DamageInv` adds to it
that runs write rows of the one schema there is. By the facts on bytes a line as wide as the schema that ends with such a row, with
nothing open in front of it, has that row's cells but for the first.

A file that two runs create may lose a part of a line: the second header is written at the offset 0, over whatever the
other run has stored meanwhile. So `NewestInv` speaks of bytes, not of lines: the bytes owed are some lost ones and then
the newest, and the file holds these, behind a header or not. Opening with "wb" loses all that were there
(`newest` is empty then); a header takes the place of as many bytes as it has, which are those of the header before it,
if there is one, for all headers that may be written at the same time are equal, and else the oldest of the rows;
a row adds its bytes at the end of both sides. `BytesAtEnd` and `BytesAtStart` say what the two writes do to the bytes of the lines, and
`Regroup` and `Halves` are the arithmetic of joining and dividing. A run that is alone finds nothing where it writes its header,
so there the names need not be equal.

**Parser.** `ParserInv` says of the statement being filled in what `TypeOK` and `LocationsPoint` say of complete
ones, as far as each place in the grammar can rely on it (`DraftFits`: behind the table name the table is known, before
the closing parenthesis there are values, as many as columns if there is a list, ...). Each step copies
text and index from one token into the draft, and what is complete is not touched again.
For `ProgramSpellsTokens` the statement under way has to be spelled too: `SpellInv` says that the tokens read so far
are those of the complete statements and then `Partial(pc, statement)`, what the draft spells at this place in the grammar.
Each step adds to it the one or two tokens it reads, `CommaListGrows` and `FlattenAppend` say that a list and a
program grow at their ends, and behind the semicolon `Partial` is the whole statement.

**The grammar.** `FirstErrorReported` compares what was read with the set of all legal programs. Two things make it
provable. `Shapes` states the legal statements place by place, as sets of types, without concatenation:
`FitsLegal` and `LegalFits` show that the statements that fit a shape are those of `Legal`. By it a beginning of a program is a row of
finished statements and tokens that some shape allows (`Continued`), and whatever begins a program
in this way splits at the same semicolons (`Confined`), so one statement may be looked at by itself. The invariant is
`GrammarInv`: up to `position` stand as many finished legal statements as `program` has, and behind them
what `Reading` says of the function that is due, e.g. at `value`: a table, its names if there is a list of them, and a number
of values with a comma behind each; and, at a place where the code has taken another branch, that the current token is not that
branch's. Without it the property is not inductive: a token is wrong only because of what was read before it, and the code keeps nothing
of that but where it is. From `Reading` follow both halves of a refusal: some shape goes on with
what was read, and none with the current token. Lists need most of this. Before the comma the length of a list
is open, one shape for each length up to the limit; with a list of columns the number of values is fixed.
An entry too many is therefore wrong at the comma, which the code has taken already, and a list too short at the parenthesis
behind the value that is shown: the lemmas `RefusesHere`, `RefusesBefore` and `RefusesBehind` are the three conventions of `FirstBad`.

**Tokenizer.** `ScanInv` has, beside types: line and column are those of `index`; every token stands where it
says (`Sound`), the tokens are in order (`Ordered`), what is before `index` is covered (`Covered`), and the
end marker closes a complete list (`Ends`). `TokenAdded` and `Refused` say what a reader has to show for it: what it
takes is written there, holds no line end and has the type given. The readers differ in how far
they go, which `StretchProperties`, `WordProperties`, `NumberProperties` and `StringProperties` say. That a line
and a column belong to one character only is `OnePlace`, by the cardinality of the line ends before it.
That no character of a token is a line end is what keeps the column right.

**Files and arguments.** `WholeFileLoaded` and `BothDirectories` are inductive with `ScanInv`; `LoadedText` and
`AcceptedProperties` are the facts on `FirstRead`, `UptoNul`, `ValueOf` and `Cut` behind them.

**Lines and schemas.** The type of the cells in `CsvLine` speaks of the characters of the line, so that
`FetchLine`, which cuts the line, does not preserve it by itself: `NothingYet` adds that
before it nothing has been read. In `SchemaFile` a column is appended only if `EntryFault`
found nothing, and only then its type is one of `TypeNames`; the lemmas
say that a piece of a text, and a text in lower case, are texts.

**What a schema line declares.** `LoadInv` says that the columns loaded are those of the entries before the cursor, that none of
these has a fault, and that the cursor stands at the start of an entry or at the end. The number of an entry is the
cardinality of the starts up to it (`NumberFacts`), so one entry more is one column more. For a line that was cut, its entries are
those of the whole line but for the last (`Begins`); this one, if it was cut inside its type, has no type,
for no type name begins another (`SchemaAssumption`). The header takes the length of every name and one
character more, the entry it came from at least two more, its colon and the comma behind it: that is why it fits.

**Lines read back.** Writing is flattening: `FlattenPlaces` says where in the joined sequence the elements of each
piece stand. tlapm expands `FlattenSeq`, which is a recursive function, and the induction over the pieces is on a set of
numbers (`Induction`, the least counterexample by `WFMin`, which has no operator parameter). From it
`RowLaidOut` gives the layout of a written row (`RowAt`): where each cell begins and ends, whether it is in
quotes, and where each of its characters starts (a quote takes two places). `RowInv` says that the cells
read are the first cells of the row and that the reader stands in the next one (`InCell`): on a
character of a plain cell, before the opening quote, on a character inside the quotes, or behind the closing one.
`WhatIsAhead` lists the five things that can follow there, and only one of the reader's steps is possible for each. A
header without quotes is written like a row of the same cells. For one with quotes `LateInv` counts: as long as
the cells read are the names written, the reader is at or behind the place where they would end, and strictly
behind it once a quote is in a cell, for the pair it came from took two characters of the line; at
the end of the line there is then one character too few.

**Any line.** For lines that other programs wrote, `SplitInv` says that the reader is in a quoted part exactly behind an odd
number of quotes, and that every complete cell is, quotes aside, the stretch between two neighbouring separators, the cell
begun the stretch behind the last (`Between`). Quotes and separators are counted by cardinality (`QuotesNext`, `RankFacts`): a
character that separates nothing lengthens the last stretch (`BetweenGrows`), a comma that does ends it and begins an empty one
(`BetweenSplits`). An escaped pair of quotes changes no parity, so the reader's looking ahead decides what is in a cell
but not where it ends.

TLC checked each invariant on the instances of the runs before it was proved, but for `RowInv` and
`LateInv`, which quantify over the layouts of a line; of these it checked the two properties they give.

**Only model-checked.** `RunsEnd` is liveness under fairness, which the prover does not reach. Every invariant,
every other action or temporal property and the refinement of the passing runs are stated by a theorem above, but for
`CellsAsInStorage`: that the code's look ahead and the machine of `CsvText` read the same cells is compared over all lines
of `csv_line`.

## 5. Not modelled

* Several tables: a statement touches the two files of its own table only, so
  tables do not interact except in the order of a program's statements.
* Text to file in one machine: the interfaces of the parts are those described above, and each
  is checked over all it may be given in an instance, not only over what the part before it gives.
* A NUL byte in a schema file or a data file, which ends the line early.
* The bytes of the output: SELECT separates cells by tabs and writes them as they are,
  so a string with a tab looks like two cells; the wording of `print_error`.
* The byte position of a reader is kept as a number of lines: no run changes lines
  behind a reader in the instances where readers overlap writers, except the runs
  on `"wb"`, whose properties are not about output.
* A write of more than one buffer: a header takes at most 1024 bytes and a row at most 2064 (16 values of 63 quotes,
  each in quotes with its quotes doubled, and the separators), both less than the buffer of stdio, so each is one `write`.
* A program that fails and is run again: the rows of its first INSERTs are then stored twice. They
  are in `log` like all others, so no property of the file is hurt.
* The tests, the build file, the example and the documents have no state.

## 6. Plan

1. Done: the executor and the storage (`Executor`, `BuildRow`, `Table`, `Storage`), the lines of
   the files (`CsvLine`, `SchemaFile`), the front end (`Tokenizer`, `App`, `Parser`), their runs, and the
   theorems of section 4.
2. `SqlProc`: text to file, composing the front end with `Storage`; a failed program and its
   repetition.
