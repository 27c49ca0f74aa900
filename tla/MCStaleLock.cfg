SPECIFICATION ServiceSpec
CONSTANTS
    Clients = {c1, c2}
    Times = {1}
    SecondOf <- MCSecondOf
    EncModes = {FALSE}
    Digests = {d1}
    Unknown = unknown
    NoEntry = noEntry
    NoObject = noObject
    Garbage = garbage
    Backend = "s3"
    MaxFaults = 0
    MaxCancels = 1
INVARIANTS
    NoStaleLock
