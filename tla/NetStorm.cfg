SPECIFICATION NetSpec
CONSTANTS
    Nodes = {"a", "b", "c"}
    Entry = "a"
    MaxLen = 3
    Deployments <- Stormy
CHECK_DEADLOCK FALSE
INVARIANTS
    NoGridlock
