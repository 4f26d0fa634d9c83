CONSTANTS
    Devices = {d1, d2}
    Writers = {w1, w2}
    MaxOps = 2
SPECIFICATION Spec
SYMMETRY InventorySymmetry
CHECK_DEADLOCK FALSE
INVARIANTS
    OfflineIffTwoMisses
    UniqueUnlessRaced
PROPERTIES
    CacheLostOnlyTo
    FalseOkOnlyFromBulk
