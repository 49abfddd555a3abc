SPECIFICATION Spec
CONSTANTS
    MaxOps = 3
    Workloads <- All
    CheckLimit = 1
    MaxFaults = 2
INVARIANTS TypeOK TabletTaskOnce TasksInOrder DoneMeansSucceeded NoSpuriousFailure DecisionsStand
PROPERTIES StartInOrder
