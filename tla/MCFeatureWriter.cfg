SPECIFICATION Spec
CONSTANTS
    Snapshots <- MCSnapshots
    Partition <- MCPartition
    Callers = {c1, c2}
    QueueCapacity = 1
    BatchRows = 2
    CacheCapacity = 1
INVARIANTS
    TypeOK
    OneRowPerId
    CleanCloseIsDurable
    AcksAreConsistent
    CountsAgree
CHECK_DEADLOCK FALSE
