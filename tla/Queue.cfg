\* A BoundedQueue with one slot, and a capacity never reached (UnboundedQueue):
\* five racing calls.
SPECIFICATION Spec
CONSTANTS
    Calls = {c1, c2, c3, c4, c5}
    OpSet <- AllOps
    Capacities = {1, 5}
SYMMETRY Symmetry
INVARIANTS TypeOK ClosedMeansDrained NoLateSend ItemsAccounted
CHECK_DEADLOCK FALSE
