CONSTANTS
    a = a
    b = b
    z = z
    one = one
    two = two
    x = x
    y = y
    equals = equals
    p1 = p1
    p2 = p2
    Piece <- MCPiece
    IntText <- MCIntText
    FormulaText <- MCFormulaText
    MaxColumns = 3
    MaxValueLen = 3
    LineMax = 9
    Process = {p1, p2}
    Schemas <- EditedSchemas
    Programs <- SharedPrograms
    InitFiles <- SharedFiles
    Faults = {"no_write", "kill", "edit_schema"}
    MaxRuns = 1

SPECIFICATION Spec
SYMMETRY Symmetry

\* The system stops when every process has had its runs.
CHECK_DEADLOCK FALSE

INVARIANTS
    RowsMatchHeader
    StoredIsLog
    ReadIsPrefix

PROPERTIES
    AppendOnly
    TableImplemented
