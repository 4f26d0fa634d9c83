CONSTANTS
    a = a
    b = b
    c = c
    Instances = {a, b, c}
    HostOf <- ThreeOnTwoHosts
    NoOwner = NoOwner
    HeartbeatInterval = 3
    StaleAfter = 3
    Jitter = 1
SPECIFICATION FairSpec
INVARIANTS
    OneUpUnlessSilent
PROPERTIES
    DeadLockIsTaken
