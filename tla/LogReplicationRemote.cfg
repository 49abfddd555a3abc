SPECIFICATION FairSpec
CONSTANTS
    Local = {l1}
    Remote = {m1}
    MaxOffset = 2
    BatchSize = 1
    MaxHandlers = 1
    MaxFaults = 1
    PutCanFail = TRUE
    OfflineFirst = TRUE
PROPERTIES Implements CatchUp
