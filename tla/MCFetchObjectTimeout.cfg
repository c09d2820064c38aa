SPECIFICATION FSpec
CONSTANTS
    f1 = f1
    f2 = f2
    None = None
    MaxTime = 3
    Fetches <- MCFetches
    Options <- MCOptions
INVARIANTS
    OneTimeout
CHECK_DEADLOCK FALSE
