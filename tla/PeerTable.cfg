SPECIFICATION FairPeerSpec
CONSTANTS
    Conns = {c1, c2, c3}
    Hosts = {"x"}
    MaxList = 1
CHECK_DEADLOCK FALSE
INVARIANTS
    PeerTypeOK
    ClosedOnce
    EntriesOpen
PROPERTIES
    StopFreesSockets
