CONSTANTS
    gone = gone
    f = f
    g = g
    h = h
    n = n
    u = u
    Files = {f, g, h}
    Names = {n, u}
    Lines = {1, 2}
    Gone = gone
    Texts <- MCTexts
    Versions <- MCVersions
    MaxDiff = 1
    MaxEdits = 3
    Batch = 2
    Torn = {f, g, h}
    Unwritable = {h}
SPECIFICATION Spec
INVARIANTS IndexFresh NothingStale Converges HonestAccount
CHECK_DEADLOCK FALSE
