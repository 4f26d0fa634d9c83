CONSTANTS
    Fleet = 5
    ScanConcurrency = 3
SPECIFICATION FairSpec
CHECK_DEADLOCK FALSE
INVARIANTS
    OnlyWholeFleetIsUpserted
    DoneIsHonest
PROPERTIES
    UncancelledEnds
    EndsOnceAllSent
