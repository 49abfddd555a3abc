SPECIFICATION FairSpec
CONSTANTS
    MaxOps = 2
    Workloads <- Live
    CheckLimit = 1
    MaxFaults = 2
PROPERTIES OpsFinish
