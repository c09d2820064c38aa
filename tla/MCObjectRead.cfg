SPECIFICATION FairSpec
CONSTANTS
    a = a
    b = b
    None = None
    NoHint = NoHint
    Contents <- MCContents
    Hashes <- MCHashes
    Options <- MCOptions
INVARIANTS
    TypeOK
    ReadyMeansIntact
    EndedStreamIsWhole
    IntactObjectIsReadable
    ReadyReadIsProvable
    BorrowedEvidenceIsRefused
    PrunableIsLocal
PROPERTIES
    CoreIsReleased
CHECK_DEADLOCK FALSE
