SPECIFICATION Spec
CHECK_DEADLOCK FALSE
CONSTANTS
    r1 = r1
    r2 = r2
    r3 = r3
    b1 = b1
    b2 = b2
    None = None
    NLeafs = 2
    Reqs = {r1, r2, r3}
    Writes = {r1}
    Bases = {b1, b2}
    Base <- MCBaseTwo
    Kind <- MCKind
INVARIANTS
    AnsweredExactly
