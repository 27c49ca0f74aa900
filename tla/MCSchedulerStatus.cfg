SPECIFICATION FairWatchedSpec
CONSTANTS
    Jobs = {j1}
    MaxStatus = 1
    Torn = torn
    Absent = absent
    HookTimeout = TRUE
    MaxRuns = 1
    MaxFaults = 1
INVARIANTS
    DaemonCanStart
CHECK_DEADLOCK FALSE
