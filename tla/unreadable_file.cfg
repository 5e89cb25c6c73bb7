CONSTANTS
    a = a
    b = b
    z = z
    one = one
    two = two
    x = x
    y = y
    equals = equals
    p1 = p1
    p2 = p2
    Piece <- MCPiece
    IntText <- MCIntText
    FormulaText <- MCFormulaText
    MaxColumns = 3
    MaxValueLen = 3
    LineMax = 8
    Process = {p1, p2}
    Schemas <- OneSchema
    Programs <- UnreadablePrograms
    InitFiles <- UnreadableFiles
    Faults = {"no_read", "bad_read", "no_write", "kill"}
    MaxRuns = 1

SPECIFICATION FairSpec

\* The system stops when every process has had its runs.
CHECK_DEADLOCK FALSE

INVARIANTS
    NewestKept

PROPERTIES
    RunsEnd
