SPECIFICATION FairSpec
CONSTANTS
    Stages = 3
    Chunks = 3
    MaxFaults = 2
INVARIANTS
    TypeOK
    EndMeansWhole
    NilMeansWhole
PROPERTIES
    RunReturns
CHECK_DEADLOCK FALSE
