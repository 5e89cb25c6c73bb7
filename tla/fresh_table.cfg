CONSTANTS
    a = a
    b = b
    z = z
    one = one
    two = two
    x = x
    y = y
    equals = equals
    p1 = p1
    p2 = p2
    Piece <- MCPiece
    IntText <- MCIntText
    FormulaText <- MCFormulaText
    MaxColumns = 2
    MaxValueLen = 3
    LineMax = 6
    Process = {p1}
    Schemas <- NameEdits
    Programs <- FreshPrograms
    InitFiles <- FreshFiles
    Faults = {"no_write", "kill", "edit_schema"}
    MaxRuns = 4

SPECIFICATION Spec

\* The system stops when every process has had its runs.
CHECK_DEADLOCK FALSE

INVARIANTS
    RowsReadable
    TypedRows

PROPERTIES
    TableImplemented
    EmptyFileStaysEmpty
