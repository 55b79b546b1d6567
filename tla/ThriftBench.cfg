SPECIFICATION FairSpec
CHECK_DEADLOCK FALSE
CONSTANTS
    NThreads = 3
    FbThreads = 2
    NRequests = 2
    FbRequests = 1
    Rounds = 2
    QDepths = {1, 2}
    Workers = 2
    Servers = {"simple", "threadpool", "threaded", "nonblocking", "fbthrift"}
    Ops = {"put", "get"}
    None = None
    Gone = Gone
INVARIANTS
    RightWhenWarm
    SimpleServerExact
    
PROPERTIES
    AllRoundsEnd
