SPECIFICATION LiveSpec
CONSTANTS
    t1 = t1
    t2 = t2
    t3 = t3
    Tablets = {t1, t2, t3}
    First = t1
    Faults = {"crash", "session"}
    MaxFaults = 1
    Saved = 1
    MaxLog = 2
    MaxTerm = 3
    MaxOps = 3
    MaxCalls = 2
    LateWrites = FALSE
    MissedEvents = FALSE
INVARIANTS TypeOK ElectedIsLongest FollowersMatch
PROPERTY RecoversAutomatically
CHECK_DEADLOCK FALSE
