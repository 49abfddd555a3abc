SPECIFICATION Spec
CONSTANTS
    Indexes = {1, 2}
    Columns = {0, 1}
    Workloads <- Mix
    Ttl <- MixedTtl
    Keys = {k}
    Stamps <- Even
    Horizons = {1}
    Primary = 0
    Delta = 2
    MaxRows = 2
    MaxRounds = 2
    MaxDeletes = 1
    MaxReads = 1
INVARIANTS TypeOK RowsStay DeletedGone FreedOnce BlockCounted ReaderSafe
CHECK_DEADLOCK FALSE
