SPECIFICATION FairSpec
CHECK_DEADLOCK FALSE
CONSTANTS
    QDepths = {1, 2, 3}
    MaxRequests = 3
    ReqSize = 2
    Room = 3
INVARIANTS
    Framed
    EchoedInOrder
    OutstandingExact
    SentExactly
PROPERTIES
    BothEnd
