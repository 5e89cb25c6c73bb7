CONSTANTS
    Piece <- MCPiece
    IntText = {}
    FormulaText = {}
    MaxColumns = 2
    MaxNameLen = 2
    MaxStatements = 2
    TokenLists <- MCTokenLists

SPECIFICATION Spec

\* The function returns: a list that is parsed or refused has no next step.
CHECK_DEADLOCK FALSE

INVARIANTS
    TypeOK
    ProgramSpellsTokens
    LocationsPoint
    FirstErrorReported
