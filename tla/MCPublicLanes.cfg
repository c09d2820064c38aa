SPECIFICATION LFairSpec
CONSTANTS
    p1 = p1
    p2 = p2
    d1 = d1
    o1 = o1
    o2 = o2
    s1 = s1
    s2 = s2
    s3 = s3
    Torn = Torn
    None = None
    Pids <- MCPids
    Procs <- MCProcs
    Downs <- MCDowns
    Storages <- MCStorages
    Commands <- MCCommands
INVARIANTS
    LTypeOK
    AnsweredMeansGone
    ServedAsPublished
    AnnouncedWhileOpen
    CompleteMeansConsumed
    WrittenProofVerifies
PROPERTIES
    CommandsEnd
CHECK_DEADLOCK FALSE
