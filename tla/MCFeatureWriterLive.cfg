SPECIFICATION FairSpec
CONSTANTS
    Snapshots <- SmallSnapshots
    Partition <- SmallPartition
    Callers = {c1, c2}
    QueueCapacity = 1
    BatchRows = 1
    CacheCapacity = 1
PROPERTIES
    NobodyHangs
CHECK_DEADLOCK FALSE
