SPECIFICATION FFairSpec
CONSTANTS
    f1 = f1
    f2 = f2
    None = None
    MaxTime = 3
    Fetches <- MCFetches
    Options <- MCOptions
INVARIANTS
    FTypeOK
    TimeoutsAreShared
PROPERTIES
    ReleasedAfterUpdate
    TimedFetchEnds
CHECK_DEADLOCK FALSE
