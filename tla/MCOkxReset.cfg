SPECIFICATION OSpec
CONSTANTS
    Levels <- MCLevels
    Change <- MCChange
    MaxConnections = 1
    MaxInFlight = 1
    MaxResets = 1
    DedupeCapacity = 1
    PendingCapacity = 1
INVARIANT FeatureBookFollows
CHECK_DEADLOCK FALSE
