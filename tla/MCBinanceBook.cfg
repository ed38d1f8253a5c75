SPECIFICATION Spec
CONSTANTS
    Levels <- MCLevels
    Change <- MCChange
    MaxBuffer = 2
    MaxInFlight = 2
    MaxRepeats = 1
    MaxGeneration = 2
INVARIANTS
    TypeOK
    LiveBookIsExact
    NoInstallOverLive
    HealthIsHonest
PROPERTIES
    ContinuityWithinGeneration
    DiffRevivesBook
CHECK_DEADLOCK FALSE
