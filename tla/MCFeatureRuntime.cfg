SPECIFICATION Spec
CONSTANTS
    MaxItems = 3
    TrimBatch = 2
    TicksPerSecond = 2
    Retention = 3
    Levels <- MCLevels
    PendingCapacity = 1
    Window = 1
    AtrPeriod = 2
    BreakoutLookback = 2
    ZscoreLookback = 3
    StaleAfter = 1
    BlockedStatuses = {"STALE"}
    MaxSnapshotAge = 4
    MaxTimeDifference = 1
    MinimumSamples = 2
    FeatureUpdate = 1
    Feeds <- MCFeeds
    Statuses = {"HEALTHY", "STALE"}
    Skew = 1
    MaxDelay = 1
INVARIANTS
    PriceQueriesExact
    SourcesCountedOnce
    DecisionsIgnoreTheFuture
    ReadyMetricsAreCovered
    SpreadHistoryComplete
CHECK_DEADLOCK FALSE
