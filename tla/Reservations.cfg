CONSTANTS
    Devices = {d1}
    Ops = {o1, o2, o3}
    InstallConcurrency = 2
SPECIFICATION Spec
SYMMETRY Interchangeable
INVARIANTS
    NoLeakedReservation
    ExclusionUnlessShared
PROPERTIES
    ProtectionLostOnlyToOwnFamily
