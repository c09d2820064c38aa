SPECIFICATION FairSpec
CONSTANTS
    op = op
    plain = plain
    c1 = c1
    c2 = c2
    c3 = c3
    None = None
    MaxTime = 3
    Scopes <- MCScopes
    Calls <- MCCalls
    ScopeOf <- MCScopeOf
    Signalled <- MCSignalled
    Timeouts <- MCTimeouts
INVARIANTS
    TypeOK
    ArmedWhileWaiting
    DestroyedOnlyWhenInterrupted
    DeadlineKept
PROPERTIES
    ImplementsSettleOnce
    EveryBoundedCallEnds
CHECK_DEADLOCK FALSE
