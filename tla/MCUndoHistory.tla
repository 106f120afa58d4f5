--------------------------- MODULE MCUndoHistory ---------------------------
(* UndoHistory for TLC: outside edits mixed with histories of up to        *)
(* MaxId - 1 entries, and histories of MaxId entries without them.         *)
EXTENDS UndoHistory, TLC

Symmetry == Permutations(Files)

BoundedEdits == edited = {} \/ log[MaxId].status = "none"
=============================================================================
