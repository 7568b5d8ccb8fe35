SPECIFICATION Spec
CONSTANTS
    Count = {0, 1}
    MaxTime = 5
    Date <- MCDate
    NoTime <- MCNoTime
INVARIANTS
    StatisticsInv
    ResetUnlessMissed
    FirstIsEarliest
    LastIsLatest
