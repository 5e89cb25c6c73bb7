CONSTANTS
    a = a
    b = b
    z = z
    one = one
    two = two
    x = x
    y = y
    equals = equals
    p1 = p1
    p2 = p2
    Piece <- MCPiece
    IntText <- MCIntText
    FormulaText <- MCFormulaText
    MaxColumns = 3
    MaxValueLen = 5
    LineMax = 24
    Process = {p1}
    Schemas <- WideSchemas
    Programs <- TornPrograms
    InitFiles <- TornFiles
    Faults = {"no_write", "short_write"}
    MaxRuns = 2

SPECIFICATION Spec

\* The system stops when every process has had its runs.
CHECK_DEADLOCK FALSE

INVARIANTS
    TypeOK
    StoredInOrder
    DamageConfined

PROPERTIES
    CompleteLinesStay
