SPECIFICATION Spec
CONSTANTS
    PeriodOf <- MCPeriodOf
    Configs <- MCConfigs
    Fresh <- MCFresh
    Tags = {a, b}
    MaxTime = 5
    MaxBackups = 4
    Counts = {0, 1, 2}
    Ages = {0, 2}
SYMMETRY TagSymmetry
INVARIANTS
    RemovesTheUnwanted
    NewestIsKept
    StaleDecisionIsSound
    SecondRunRemovesNothing
CHECK_DEADLOCK FALSE
