SPECIFICATION Spec
CONSTANTS
    p1 = p1
    p2 = p2
    p3 = p3
    s1 = s1
    s2 = s2
    a = a
    b = b
    None = None
    NoHint = NoHint
    Publishers <- MCPublishers
    Storages <- MCStorages
    Payloads <- MCPayloads
    Sizes <- MCSizes
    Hints <- MCHints
    ChunkSizes <- MCChunkSizes
SYMMETRY MCSymmetry
INVARIANTS
    TypeOK
    StoredWhole
    ReferencesResolve
    HeldOnlyByWorkOrFailure
PROPERTIES
    ImplementsWriteOnce
CHECK_DEADLOCK FALSE
