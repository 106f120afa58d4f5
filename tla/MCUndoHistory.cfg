CONSTANTS
    Files = {f1, f2}
    Texts = {e, a}
    Empty = e
    Absent = absent
    MaxId = 3
SPECIFICATION Spec
SYMMETRY Symmetry
INVARIANTS Explained Chained UndoNeverStuck AllUndoneIsOrigin
CHECK_DEADLOCK FALSE
CONSTRAINT BoundedEdits
