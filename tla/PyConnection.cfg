\* Two calls of the guarded methods, a receive and pause, on the wrapper or the halves.
SPECIFICATION PySpec
CONSTANTS
    PyCalls = {c1, c2}
    PyOps <- Guarding
    Calls <- PyCallsAndTasks
    Ops <- PyAndTaskOps
    MaxLen = 2
    SndBuf = 1
    RcvBuf = 1
SYMMETRY Symmetry
INVARIANTS TornSendSealed HalfSendsWhole
PROPERTIES SplitOutlivesWriter UpgradeOwnsConnection
CHECK_DEADLOCK FALSE
