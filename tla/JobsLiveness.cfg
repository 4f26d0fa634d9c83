CONSTANTS
    Http = {h1, h2}
    Mcp = {}
    Sched = {}
    NoOne = NoOne
    Triggers = {"scan"}
    MaxJobs = 2
    MaxBoots = 2
    MaxFaults = 0
SPECIFICATION PollSpec
CHECK_DEADLOCK FALSE
PROPERTIES
    ScanGateReopens
