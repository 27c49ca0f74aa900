SPECIFICATION Spec
CONSTANTS
    Clients = {c1, c2}
    Times <- MCTimes
    SecondOf <- MCSecondOf
    MaxTime = 4
    EncModes = {FALSE}
    Digests = {d1, d2}
    Unknown = unknown
    NoEntry = noEntry
    NoObject = noObject
    Garbage = garbage
    Backend = "filesystem"
    PeriodOf <- MCPeriodOf
    Policies <- CountPolicies
    MaxFaults = 0
    MaxCancels = 0
INVARIANT DigestDescribesArchive
CHECK_DEADLOCK FALSE
