SPECIFICATION FairSpec
CONSTANTS
    Servers = {"a", "b"}
    Faults = {"disconnect", "expire", "crash", "restart", "close", "connect"}
    MaxFaults = 1
    MaxNode = 5
INVARIANTS TypeOK FirstNodeLeads LockedIsPrimary
PROPERTIES StepsDown PrimaryReturns
CHECK_DEADLOCK FALSE
