SPECIFICATION FairSpec
CONSTANTS
    QueueDepth = 4
    NRequests = 5
    W = 16
    Failures = TRUE
INVARIANTS
    WindowExact
    OvershootBounded
PROPERTY EndsUnlessWindowLost
CHECK_DEADLOCK FALSE
