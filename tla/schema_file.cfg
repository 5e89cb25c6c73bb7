CONSTANTS
    Piece <- MCPiece
    IntText = {}
    FormulaText = {}
    MaxColumns = 3
    Lower <- MCLower
    TypeNames <- MCTypeNames
    MaxNameLen = 6
    LineMax = 17
    SchemaFiles <- MCSchemaFiles

SPECIFICATION Spec

\* The function returns: a file that is loaded or refused has no next step.
CHECK_DEADLOCK FALSE

INVARIANTS
    TypeOK
    LoadsTheLine
    CutIsPrefix
    HeaderFits
