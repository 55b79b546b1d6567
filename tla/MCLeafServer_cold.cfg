SPECIFICATION LeafSpec
CONSTANTS
    r1 = r1
    r2 = r2
    r3 = r3
    b1 = b1
    b2 = b2
    f1 = f1
    f2 = f2
    Reqs = {r1, r2, r3}
    Boot = Boot
    NoFd = NoFd
    Bases = {b1, b2}
    Base <- MCBase
    Capacity = 2
    Racers = {r1, r2}
    Files = {f1, f2}
    Kind <- MCKind
    File <- MCFile
    Present = {f1}
    Outcomes = {TRUE, FALSE}
    OpenFails = TRUE
INVARIANTS
    InflightExact
    OneOwner
    SignalAccounting
    DescriptorsExact
    ContinuedExactly
    
PROPERTY ServiceSpec
CHECK_DEADLOCK FALSE
