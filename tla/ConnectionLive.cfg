\* Liveness: what close and shutdown_read interrupt, and receives beside a
\* blocked send.
SPECIFICATION FairSpec
CONSTANTS
    c1 = c1
    c2 = c2
    c3 = c3
    Calls = {c1, c2, c3}
    Ops <- Blocking
    MaxLen = 1
    SndBuf = 1
    RcvBuf = 1
PROPERTIES CloseInterrupts ShutdownReadInterrupts ReceiveNotBlockedBySend
CHECK_DEADLOCK FALSE
