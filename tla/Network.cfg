SPECIFICATION FairNetSpec
CONSTANTS
    Nodes = {"a", "b", "c"}
    Entry = "a"
    MaxLen = 3
    Deployments <- Quiet
CHECK_DEADLOCK FALSE
INVARIANTS
    NetTypeOK
    BroadcastsExclusive
    FollowsMiner
PROPERTIES
    Converges
    TrafficEnds
