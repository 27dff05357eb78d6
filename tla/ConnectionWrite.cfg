\* Three-way races of the sending direction.
SPECIFICATION Spec
CONSTANTS
    c1 = c1
    c2 = c2
    c3 = c3
    Calls = {c1, c2, c3}
    Ops <- WriteSide
    MaxLen = 2
    SndBuf = 2
    RcvBuf = 1
SYMMETRY Symmetry
INVARIANTS TypeOK SendsDoNotInterleave RetrySafe CompleteSends ShutdownHonest
    ClosedReleasesAll
PROPERTY ImplementsSink
CHECK_DEADLOCK FALSE
