SPECIFICATION Spec
CONSTANTS
    Tasks <- MCTasks
    QueueCapacity = 1
    BatchRows = 2
    MaxEvents = 2
    TargetRows = 2
    LegacyFiles <- MCLegacyFiles
INVARIANTS
    RawRecordsAccounted
    CleanEndIsComplete
    ReplayIsExact
    ShutdownNeverStuck
CHECK_DEADLOCK FALSE
