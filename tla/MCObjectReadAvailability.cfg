SPECIFICATION Spec
CONSTANTS
    a = a
    b = b
    None = None
    NoHint = NoHint
    Contents <- MCContents
    Hashes <- MCHashes
    Options <- MCOptions
INVARIANTS
    AvailabilityWasObserved
CHECK_DEADLOCK FALSE
