SPECIFICATION Spec
CONSTANTS
    t1 = t1
    t2 = t2
    t3 = t3
    Tablets = {t1, t2, t3}
    First = t1
    Faults = {"crash", "session", "call"}
    MaxFaults = 2
    Saved = 1
    MaxLog = 1
    MaxTerm = 5
    MaxOps = 4
    MaxCalls = 1
    LateWrites = FALSE
    MissedEvents = TRUE
SYMMETRY Symmetry
INVARIANTS OneLeaderPerTerm OneAliveLeader
CHECK_DEADLOCK FALSE
