\* Both ends, every combination of roles, pins and leftover bytes, which
\* claim none, some or more than all of what follows them.
SPECIFICATION FairSpec
CONSTANTS
    Ends = {a, b}
    Stranger = stranger
    Excess = {0, 2, 3}
INVARIANTS TypeOK Agreement ReadyForTraffic CloseStopsUpgrade
PROPERTIES UpgradeEnds UpgradeSucceeds NoOrphanedSession
CHECK_DEADLOCK FALSE
