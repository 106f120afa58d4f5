CONSTANTS
    Hosts = {h1}
    Files = {f1, f2}
    Texts = {e, a}
    Empty = e
    Absent = absent
    MaxId = 2
    CrashPoints = {"reserve", "header", "write", "fill", "seal"}
    Faults = {"open", "entry"}
    Initial = {a, absent}
    Editable = {}
SPECIFICATION Spec
SYMMETRY Symmetry
PROPERTY ImplementsHistory
CHECK_DEADLOCK FALSE
