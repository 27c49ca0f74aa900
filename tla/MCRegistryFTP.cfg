SPECIFICATION WritesSpec
CONSTANTS
    Clients = {c1, c2}
    Times = {1}
    SecondOf <- MCSecondOf
    EncModes = {FALSE}
    Digests = {d1}
    Unknown = unknown
    NoEntry = noEntry
    NoObject = noObject
    Garbage = garbage
    Backend = "ftp"
    MaxFaults = 1
    MaxCancels = 1
INVARIANTS
    ServiceTypeOK
    NoStaleLock
PROPERTIES
    LoadsWhileExclusive
    CallsReturn
