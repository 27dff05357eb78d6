\* A pause() racing stop(): what a later accept reports.
SPECIFICATION Spec
CONSTANTS
    Calls = {c1, c2, c3}
    MaxBacklog = 1
INVARIANT LateAcceptReportsStopped
CHECK_DEADLOCK FALSE
