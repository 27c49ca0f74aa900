SPECIFICATION FairSpec
CONSTANTS
    Databases = {a, b}
    Garbled = garbled
    Chunks = 2
    PipeSize = 1
    MaxFaults = 1
INVARIANTS
    TypeOK
    DecryptsAPrefix
    BackupIsWhole
    RestoredIsWhole
    NothingLeftBehind
PROPERTIES
    PathEnds
CHECK_DEADLOCK FALSE
