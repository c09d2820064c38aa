SPECIFICATION TFairSpec
CONSTANTS
    k1 = k1
    k2 = k2
    k3 = k3
    x = x
    y = y
    p = p
    None = None
    Calls <- MCCalls
    Cores <- MCCores
    Peers <- MCPeers
    Roles <- MCRoles
INVARIANTS
    TTypeOK
    NoOrphanSession
    AttachmentsAreJoined
PROPERTIES
    NoReplicationOnceClosing
    CloseEndsSessions
CHECK_DEADLOCK FALSE
