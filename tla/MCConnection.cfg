SPECIFICATION PathFairSpec
CONSTANTS
    Closers = {k1, k2}
    BatchSize = 2
    MaxPackets = 3
    MaxFrames = 3
    Greetings <- MCGreetings
INVARIANTS
    FailedConnectLeavesNothing
    CloseMeansStopped
    OutboundInOrder
    InboundInOrder
PROPERTIES
    CloseEnds
    BreakageIsNoticed
    ImplementsObject
CHECK_DEADLOCK FALSE
