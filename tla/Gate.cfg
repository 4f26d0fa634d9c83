CONSTANTS
    Requests = {r1, r2}
    Attempts = {a1, a2, a3}
    Window = 2
    LoginMax = 2
    EvictAge = 2
    MaxFailures = 2
    LockoutDur = 2
    TokenIds = {"t1"}
    ScopeInputs <- MCScopeInputs
    Users = {u1, u2}
    MaxLate = 1
    NoOne = NoOne
SPECIFICATION Spec
SYMMETRY GateSymmetry
CONSTRAINT LoginsOrTokens
INVARIANTS
    AttemptsPerWindow
    FailuresCount
    TokenReach
