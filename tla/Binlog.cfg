SPECIFICATION FairSpec
CONSTANTS
    Nodes = {n1, n2}
    PartSize = 2
    MaxOffset = 4
    MaxPart = 3
    MaxCrashes = 2
    EarlyPut = FALSE
INVARIANTS TypeOK RecoversAll NodesCanRead
PROPERTY ReplicasCatchUp
