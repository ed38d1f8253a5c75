SPECIFICATION Spec
CONSTANTS
    MaxItems = 3
    TrimBatch = 2
    TicksPerSecond = 2
    Retention = 3
    Levels <- MCLevels
    PendingCapacity = 1
    Window = 1
    AtrPeriod = 2
    BreakoutLookback = 2
    ZscoreLookback = 3
    StaleAfter = 1
    BlockedStatuses = {"STALE"}
    MaxSnapshotAge = 2
    MaxTimeDifference = 1
    MinimumSamples = 2
    FeatureUpdate = 1
    Feeds <- MCBookFeeds
    Statuses = {"HEALTHY", "STALE"}
    Skew = 1
    MaxDelay = 1
INVARIANT SpreadsOfOneGeneration
CHECK_DEADLOCK FALSE
