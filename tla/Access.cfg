CONSTANTS
    Requests = {r1, r2}
    Users = {u1, u2}
    Codes = {"b1"}
    MaxGen = 3
    MaxSecrets = 1
    Sids = {s1, s2}
    MaxFaults = 1
    NoOne = NoOne
SPECIFICATION Spec
SYMMETRY AccessSymmetry
CONSTRAINT NotAllExcused
CHECK_DEADLOCK FALSE
INVARIANTS
    RotationEndsSessions
    EnrolmentFollowsName
    BackupCodeOnce
