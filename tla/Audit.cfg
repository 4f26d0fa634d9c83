CONSTANTS
    Writers = {w1, w2}
    MaxRows = 3
    MaxTime = 2
    MaxDays = 1
SPECIFICATION AuditSpec
SYMMETRY AuditSymmetry
INVARIANTS
    TimesInOrder
    ChainUnbroken
PROPERTIES
    ImplementsAppendLog
