CONSTANTS
    Names <- MCNames
    Root = "gotpl"
    Files <- MCFiles
    Partials = {"top/b"}
    Broken = {}
    Slashes <- MCSlashes
    Rank <- MCRank
    Trees <- MCTrees
    Empty = {"empty"}
    Defines <- MCDefines
    TplTexts <- MCTplTexts
    RecursionMax = 1
    MaxExecDepth = 2
    MaxFrames = 4
SPECIFICATION Spec
INVARIANTS HighestWins SeesEnclosing IncludesCounted
PROPERTY Isolated
CHECK_DEADLOCK FALSE
