\* Liveness: sends, receives and a close on a queue with one slot.
SPECIFICATION FairSpec
CONSTANTS
    Calls = {c1, c2, c3, c4}
    OpSet <- WaitingOps
    Capacities = {1}
PROPERTIES CloseWakes ReceiverServed
CHECK_DEADLOCK FALSE
