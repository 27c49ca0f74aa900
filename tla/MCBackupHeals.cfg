SPECIFICATION ScheduledSpec
CONSTANTS
    Clients = {c1}
    Times <- MCTimes
    SecondOf <- MCSecondOf
    MaxTime = 4
    EncModes = {FALSE, TRUE}
    Digests = {d1}
    Unknown = unknown
    NoEntry = noEntry
    NoObject = noObject
    Garbage = garbage
    Backend = "s3"
    PeriodOf <- MCPeriodOf
    Policies <- MixedPolicies
    MaxFaults = 1
    MaxCancels = 1
INVARIANTS
    NewestIsRestorable
    DeletedIsGone
PROPERTIES
    OnlySupersededDeleted
    InterruptedRetentionHeals
    CommandsEnd
CHECK_DEADLOCK FALSE
