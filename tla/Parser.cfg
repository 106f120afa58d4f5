CONSTANTS
    Texts <- MCTexts
    Functions = {"f"}
    Malformed = {"1e"}
    Blank = {"b"}
    MaxStackDepth = 2
    MaxPieces = 3
    MaxDeep = 5
    MaxItems = 3
SPECIFICATION Spec
INVARIANTS TypeOK RoundTrip NothingLost JumpsInRange VarsScoped
PROPERTY DefinitionsKept
CHECK_DEADLOCK FALSE
