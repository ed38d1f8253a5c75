SPECIFICATION OSpec
CONSTANTS
    Levels <- MCLevels
    Change <- MCChange
    MaxConnections = 2
    MaxInFlight = 1
    MaxResets = 1
    DedupeCapacity = 1
    PendingCapacity = 1
INVARIANTS
    ReportedBookIsExact
    SocketsClosed
PROPERTIES
    StopEndsSession
CHECK_DEADLOCK FALSE
