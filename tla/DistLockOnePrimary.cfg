SPECIFICATION FairSpec
CONSTANTS
    Servers = {"a", "b"}
    Faults = {"disconnect", "expire"}
    MaxFaults = 1
    MaxNode = 5
PROPERTIES OnePrimary
CHECK_DEADLOCK FALSE
