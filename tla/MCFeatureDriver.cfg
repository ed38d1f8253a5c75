SPECIFICATION FairSpec
CONSTANTS
    Events <- MCEvents
    Ts <- MCTs
    Key <- MCKey
    Lateness = 4
    Capacity = 3
    QueueCapacity = 2
    FeatureInterval = 3
    SignalInterval = 6
    ClockTimes <- MCClockTimes
INVARIANTS
    TypeOK
    TicksSeeExactPast
    BoundariesComplete
    SealedComplete
    FeatureBeforeSignal
PROPERTIES
    IngestedInOrder
    ImplementsTimeline
    TransitionsEnd
CHECK_DEADLOCK FALSE
