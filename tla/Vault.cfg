CONSTANTS
    Requests = {r1, r2}
    Keys = {k1, k2}
    None = None
SPECIFICATION Spec
SYMMETRY VaultSymmetry
CONSTRAINT Unharmed
INVARIANTS
    KeyAgreement
    NoDanglingRef
    NoOrphanAssignment
PROPERTIES
    BackupIsComplete
