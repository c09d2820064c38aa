SPECIFICATION MFairSpec
CONSTANTS
    m1 = m1
    m2 = m2
    f = f
    a = a
    b = b
    Hole = Hole
    None = None
    k1 = k1
    k2 = k2
    k3 = k3
    name = name
    path = path
    NoHint = NoHint
    Calls <- MCCalls
    Files <- MCFiles
    Keys <- MCKeys
    Digests = {}
    FileNames <- MCFileNames
    Texts <- MCTexts
    Objects <- MCObjects
    Bytes <- MCBytes
    Options <- MCOptions
INVARIANTS
    MTypeOK
    SoleWriterIsWhole
    PlanTellsWhatWasDone
PROPERTIES
    PlanResolvesOnceLoaded
    TimedCallsEnd
CHECK_DEADLOCK FALSE
