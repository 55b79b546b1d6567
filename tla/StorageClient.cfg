SPECIFICATION FairSpec
CHECK_DEADLOCK FALSE
CONSTANTS
    QueueDepth = 3
    Requests = 6
    Unlimited = FALSE
    RateLimit = 2
    Kinds = {"echo", "send", "domain"}
    Failures = TRUE
    MaxSent = 12
    W = 32
INVARIANTS
    OutExact
    StatsAddUp
    SentBounded
    FixedMaintainsDepth
PROPERTIES
    EndsUnlessLost
