SPECIFICATION FairSpec
CHECK_DEADLOCK FALSE
CONSTANTS
    Sizes = 2
    MaxSeq = 4
INVARIANTS
    RequestsExact
    CountExact
    AbortsOnlyAfterTimeout
PROPERTIES
    EveryWaitEnds
