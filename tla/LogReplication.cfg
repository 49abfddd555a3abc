SPECIFICATION Spec
CONSTANTS
    Local = {l1}
    Remote = {}
    MaxOffset = 3
    BatchSize = 2
    MaxHandlers = 2
    MaxFaults = 3
    PutCanFail = FALSE
    OfflineFirst = TRUE
INVARIANTS TypeOK NoGap NeverAhead TableMatchesLog
