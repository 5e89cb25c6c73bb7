CONSTANTS
    Letter <- MCLetter
    Digit <- MCDigit
    Lower <- MCLower
    Keywords <- MCKeywords
    MaxTokens = 3
    MaxValueLen = 3
    PathMax = 2
    BufferMax = 7
    Calls <- MCCalls

SPECIFICATION Spec

\* The program exits, or its tokens go to the parser.
CHECK_DEADLOCK FALSE

INVARIANTS
    TypeOK
    BothDirectories
    WholeFileLoaded
    TokensCoverText
    TypesFromText
    ErrorIsThere
