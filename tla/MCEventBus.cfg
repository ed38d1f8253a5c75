SPECIFICATION FairSpec
CONSTANTS
    N = 2
    Publishers = {p1}
    Capacity = 1
    MaxEvents = 3
    MaxDrains = 1
INVARIANTS
    TypeOK
    OrderedPerPublisher
    CloseDrains
PROPERTIES
    DrainCompletes
    EveryoneReturns
CHECK_DEADLOCK FALSE
