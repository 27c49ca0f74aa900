SPECIFICATION Spec
CONSTANTS
    Clients = {c1, c2}
    Times <- MCTimes
    SecondOf <- MCSecondOf
    MaxTime = 4
    EncModes = {FALSE}
    Digests = {d1, d2}
    Unknown = unknown
    NoEntry = noEntry
    NoObject = noObject
    Garbage = garbage
    Backend = "filesystem"
    PeriodOf <- MCPeriodOf
    Policies <- ForcedPolicies
    MaxFaults = 1
    MaxCancels = 0
INVARIANTS
    TypeOK
    LockExclusive
    StoredRegistryLoads
    NewestIsRestorable
    AcknowledgedIsKept
    SelectedOrSuperseded
    DeletedIsGone
PROPERTIES
    NoLostUpdate
    CallsAreAtomic
    OnlySupersededDeleted
    CommandsRunDown
SYMMETRY DataSymmetry
CHECK_DEADLOCK FALSE
