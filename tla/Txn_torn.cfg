CONSTANTS
    Hosts = {h1}
    Files = {f1}
    Texts = {e, a}
    Empty = e
    Absent = absent
    MaxId = 2
    CrashPoints = {"mark"}
    Faults = {}
    Initial = {a}
    Editable = {}
SPECIFICATION Spec
INVARIANT Recoverable
CHECK_DEADLOCK FALSE
