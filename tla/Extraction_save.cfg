CONSTANTS
    N = 3
    NW = 2
    CountCap = 2
    Texts = {src, bundle}
    Bundles = {bundle}
    Gone = gone
    Orders <- TwoOrders
    Initial = {src}
    MaxChanges = 1
    MaxHolds = 1
    EarlySaves = TRUE
SPECIFICATION Spec
INVARIANT OncePerFile
