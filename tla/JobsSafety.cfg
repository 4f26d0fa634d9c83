CONSTANTS
    Http = {h1, h2}
    Mcp = {m}
    Sched = {s}
    NoOne = NoOne
    Triggers = {"scan", "refresh", "firmware_check", "firmware_install"}
    MaxJobs = 2
    MaxBoots = 2
    MaxFaults = 1
SPECIFICATION Spec
SYMMETRY HttpSymmetry
CHECK_DEADLOCK FALSE
INVARIANTS
    OneLiveRefresh
    RunningRowHasWorker
    CleanStop
PROPERTIES
    TerminalIsFinal
