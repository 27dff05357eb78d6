\* A send begun after the cancellation of another one.
SPECIFICATION PySpec
CONSTANTS
    PyCalls = {c1, c2}
    PyOps = {"send"}
    Calls <- PyCallsAndTasks
    Ops <- PyAndTaskOps
    MaxLen = 2
    SndBuf = 2
    RcvBuf = 1
INVARIANT NoBlindRetry
CHECK_DEADLOCK FALSE
