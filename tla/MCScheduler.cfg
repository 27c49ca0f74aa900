SPECIFICATION FairWatchedSpec
CONSTANTS
    Jobs = {j1, j2}
    MaxStatus = 1
    Torn = torn
    Absent = absent
    HookTimeout = TRUE
    MaxRuns = 1
    MaxFaults = 1
INVARIANTS
    TypeOK
    RunsAreOnDisk
    StopInterruptsNoRun
    StopRestoresHistory
PROPERTIES
    HistoryNeverShrinks
    StopEnds
CHECK_DEADLOCK FALSE
