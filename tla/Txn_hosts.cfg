CONSTANTS
    Hosts = {h1, h2}
    Files = {f1}
    Texts = {e, a}
    Empty = e
    Absent = absent
    MaxId = 2
    CrashPoints = {"fill", "seal"}
    Faults = {"delete"}
    Initial = {absent}
    Editable = {f1}
SPECIFICATION Spec
SYMMETRY Symmetry
INVARIANTS EvidenceFirst Recoverable
PROPERTY OverwritesOnRecord
CHECK_DEADLOCK FALSE
