CONSTANTS
    a = a
    b = b
    x = x
    one = one
    huge = huge
    equals = equals
    Piece = {a, b, x, one, huge, equals}
    IntText <- MCIntText
    FormulaText <- MCFormulaText
    MaxColumns = 3
    Schemas <- MCSchemas
    Inserts <- MCInserts

SPECIFICATION Spec

\* The function returns: a call that is over has no next step.
CHECK_DEADLOCK FALSE

INVARIANTS
    TypeOK
    LoopsAgree
    OrderIsFree
    ReadBack
