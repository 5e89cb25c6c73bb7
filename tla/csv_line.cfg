CONSTANTS
    Piece <- MCPiece
    MaxColumns = 3
    MaxValueLen = 3
    LineMax = 12
    RowSources <- MCRows
    HeaderSources <- MCHeaders
    ForeignLines <- MCForeign

SPECIFICATION Spec

\* The function returns: a line that is read has no next step.
CHECK_DEADLOCK FALSE

INVARIANTS
    TypeOK
    RowsReadBack
    HeadersReadBack
    CellsAreBetweenSeparators
    CellsAsInStorage
