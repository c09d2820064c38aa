SPECIFICATION Spec
CONSTANTS
    a = a
    b = b
    None = None
    NoHint = NoHint
    Contents <- MCContents
    Hashes <- MCHashes
    Options <- MCOptions
PROPERTIES
    NotReadyAfterInterrupt
CHECK_DEADLOCK FALSE
