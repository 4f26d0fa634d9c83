CONSTANTS
    Sessions = {s1, s2}
    p1 = p1
    p2 = p2
    Passwords = {p1, p2}
    Assigned = p1
    NoAuth = NoAuth
    Misfit = Misfit
    NilText = p2
    Dev = d
    Targets = {d, e}
    Names <- AllNames
    Templates <- FewTemplates
    Actions <- FewActions
    Lacks <- FewLacks
    MaxFaults = 1
    MaxReboots = 1
    MaxStarts = 2
    QuietPeriod = 2
    Timeout = 1
    Margin = 1
SPECIFICATION Spec
CONSTRAINT Focus
SYMMETRY SessionSymmetry
CHECK_DEADLOCK FALSE
INVARIANTS
    OkMeansInForce
    CurrentMeansUpdated
    PolledBeforeGivingUp
    CompletedRowIsFinal
PROPERTIES
    RightCredentialIsAccepted
