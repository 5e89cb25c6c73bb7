-------------------------------- MODULE App ---------------------------------
(***************************************************************************)
(* main and the first half of app.c: the command line is read, the SQL     *)
(* file is loaded into a buffer, and Tokenizer cuts what is in the buffer  *)
(* into the tokens that Parser takes.                                      *)
(***************************************************************************)
EXTENDS Tokenizer

CONSTANTS PathMax,      \* sizeof(config->schema_dir) - 1, and the other two
          BufferMax,    \* SQLPROC_MAX_SQL_SIZE - 1: the most the buffer holds
          Calls         \* the command lines, and the SQL files they name

Nul == "NUL"
SchemaDir == <<"--schema-dir">>
DataDir == <<"--data-dir">>

(* A file is its bytes, and how many of them can be read before the disk   *)
(* reports an error: all of them, unless it does.                          *)
ASSUME AppAssumption ==
    /\ PathMax \in Nat /\ BufferMax \in Nat
    /\ \A call \in Calls :
         /\ call.argv \in Seq(Seq(STRING)) /\ call.file.bytes \in Seq(STRING)
         /\ call.file.exists \in BOOLEAN
         /\ call.file.readable \in 0 .. Len(call.file.bytes)

VARIABLES call, config

vars == <<scan, call, config>>

NoConfig == [schema_dir |-> <<>>, data_dir |-> <<>>, input_path |-> <<>>]

Init ==
    /\ call \in Calls
    /\ config = NoConfig
    /\ pc = "arguments"
    /\ text = <<>> /\ index = 1 /\ line = 1 /\ column = 1
    /\ tokens = <<>> /\ error = NoError

-----------------------------------------------------------------------------
(* snprintf cuts a path that does not fit.                                 *)
Cut(path) == SubSeq(path, 1, IF Len(path) < PathMax THEN Len(path) ELSE PathMax)

(* argv without the name of the program: two options, each with its value, *)
(* and the path of the SQL file.  The last value of an option counts.      *)
ValueOf(argv, option) ==
    LET given == {i \in {1, 3} : argv[i] = option}
    IN  CASE 3 \in given -> Cut(argv[4])
          [] given = {1} -> Cut(argv[2])
          [] OTHER -> <<>>

OptionsKnown(argv) == Len(argv) = 5 /\ {argv[1], argv[3]} \subseteq {SchemaDir, DataDir}
(* Mutant: an option that is missing is not noticed.                       *)
Accepted_OneIsEnough(argv) == OptionsKnown(argv)
Accepted(argv) ==
    /\ OptionsKnown(argv)
    /\ ValueOf(argv, SchemaDir) # <<>> /\ ValueOf(argv, DataDir) # <<>>

ParseArguments ==
    /\ pc = "arguments"
    /\ LET argv == call.argv IN
       IF Accepted(argv)
       THEN /\ config' = [schema_dir |-> ValueOf(argv, SchemaDir),
                          data_dir   |-> ValueOf(argv, DataDir),
                          input_path |-> Cut(argv[5])]
            /\ pc' = "load"
       ELSE pc' = "usage" /\ UNCHANGED config
    /\ UNCHANGED <<call, text, index, line, column, tokens, error>>

(* fread fills the buffer but for one byte, and one byte more tells a file *)
(* that is too large; if that byte cannot be read, the file passes for one *)
(* that ends there.  The text in the buffer ends at its first NUL.         *)
FirstRead(file) == IF file.readable < BufferMax THEN file.readable ELSE BufferMax
ReadFails(file) == file.readable < BufferMax /\ file.readable < Len(file.bytes)
(* Mutant: a full buffer is taken for the whole file.                      *)
TooLarge_NoProbe(file) == FALSE
TooLarge(file) == FirstRead(file) = BufferMax /\ file.readable > BufferMax

UptoNul(bytes) ==
    LET at == SelectInSeq(bytes, LAMBDA ch : ch = Nul)
    IN  IF at = 0 THEN bytes ELSE SubSeq(bytes, 1, at - 1)

LoadSqlFile ==
    /\ pc = "load"
    /\ LET file == call.file
           refused(message) == /\ pc' = "refused"
                               /\ error' = [NoError EXCEPT !.message = message]
                               /\ UNCHANGED text
       IN  CASE ~file.exists -> refused("open")
             [] file.exists /\ ReadFails(file) -> refused("read")
             [] file.exists /\ TooLarge(file) -> refused("large")
             [] OTHER -> /\ pc' = "scan"
                         /\ text' = UptoNul(SubSeq(file.bytes, 1, FirstRead(file)))
                         /\ UNCHANGED error
    /\ UNCHANGED <<call, config, index, line, column, tokens>>

Scan == Tokenize /\ UNCHANGED <<call, config>>

Next == ParseArguments \/ LoadSqlFile \/ Scan

Spec == Init /\ [][Next]_vars

-----------------------------------------------------------------------------
(* What parse_program relies on: at least one token, no more than there is *)
(* room for, and the end marker there, behind all others.                  *)
TypeOK ==
    /\ pc \in {"arguments", "usage", "load", "scan", "tokens", "refused"}
    /\ index \in 1 .. Len(text) + 1 /\ line \in Nat \ {0} /\ column \in Nat \ {0}
    /\ Len(tokens) <= MaxTokens
    /\ \A i \in DOMAIN tokens :
         /\ tokens[i].type \in TokenType /\ Len(tokens[i].text) < MaxValueLen
         /\ tokens[i].type = "EOF" <=> pc = "tokens" /\ i = Len(tokens)
    /\ pc = "tokens" => tokens # <<>>
    /\ pc # "refused" => error = NoError

(* The directories of the program are those of its two options in either   *)
(* order; a call that does not give both, each with a value, goes no       *)
(* further than the usage line.                                            *)
BothDirectories ==
    LET argv == call.argv
        given(option, dir) ==
            \E i \in {1, 3} : /\ argv[i] = option /\ argv[i + 1] # <<>>
                              /\ IsPrefix(dir, argv[i + 1])
                              /\ Len(argv[i + 1]) <= PathMax => dir = argv[i + 1]
    IN  IF pc \in {"arguments", "usage"}
        THEN pc = "usage" => ~ /\ Len(argv) = 5
                               /\ {argv[1], argv[3]} = {SchemaDir, DataDir}
                               /\ Len(argv[2]) > 0 /\ Len(argv[4]) > 0 /\ PathMax > 0
        ELSE /\ Len(argv) = 5 /\ {argv[1], argv[3]} = {SchemaDir, DataDir}
             /\ given(SchemaDir, config.schema_dir) /\ given(DataDir, config.data_dir)

(* Statements are only run from a whole file: what does not fit the buffer *)
(* is refused, not cut.  Two cuts are left: behind a NUL, and at the end   *)
(* of the buffer when the disk fails at this very byte.                    *)
WholeFileLoaded ==
    LET file == call.file IN
    pc \in {"scan", "tokens"} =>
        /\ file.exists
        /\ IsPrefix(text, file.bytes)
        /\ \/ Len(text) = Len(file.bytes)
           \/ file.bytes[Len(text) + 1] = Nul
           \/ Len(text) = BufferMax /\ file.readable = BufferMax
=============================================================================
