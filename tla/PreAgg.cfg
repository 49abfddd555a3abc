\* Pre-aggregation: every window that is answered from blocks is exact.
\* Puts are bounded, so behaviours end.
SPECIFICATION Spec
CONSTANTS
    Size = 2
    MaxTime = 8
    MaxRows = 5
    Workloads <- All
INVARIANTS
    QueryExact
CHECK_DEADLOCK FALSE
