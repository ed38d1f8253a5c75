SPECIFICATION PSpec
CONSTANTS
    Levels <- MCLevels
    Change <- MCChange
    MaxBuffer = 2
    MaxInFlight = 2
    MaxRepeats = 1
    MaxGeneration = 2
    PendingCapacity = 2
    Paths = {"live"}
    MaxFeed = 3
PROPERTIES
    SnapshotReplaysPending
CHECK_DEADLOCK FALSE
