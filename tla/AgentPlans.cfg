CONSTANTS
    Files = {f1, f2}
    Symbols = {s1}
    PlanCap = 1
    MaxSeq = 2
    MaxVersion = 2
    MaxGen = 2
SPECIFICATION Spec
SYMMETRY Symmetry
INVARIANTS AppliedAsReviewed StagedIdsAlive GenerationNamesTheGraph
