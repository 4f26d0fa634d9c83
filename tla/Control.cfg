CONSTANTS
    Requests = {r1, r2}
    Tokens = {t1, t2}
    EnvTokens = {Off, t3}
    Off = Off
    MaxStamp = 3
    MaxKeep = 2
    MaxInterval = 2
    Never = Never
SPECIFICATION Spec
SYMMETRY ControlSymmetry
CONSTRAINT Focus
INVARIANTS
    ListenerFollowsRow
    OneListener
    SnapshotsSpread
