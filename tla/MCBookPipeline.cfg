SPECIFICATION PSpec
CONSTANTS
    Levels <- MCLevels
    Change <- MCChange
    MaxBuffer = 2
    MaxInFlight = 2
    MaxRepeats = 1
    MaxGeneration = 2
    PendingCapacity = 2
    Paths = {"live", "replay"}
    MaxFeed = 2
INVARIANTS
    PTypeOK
    FeatureBookIsExact
PROPERTIES
    EpochsMarkContinuity
CHECK_DEADLOCK FALSE
