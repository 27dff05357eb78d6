\* Three racing calls.
SPECIFICATION FairSpec
CONSTANTS
    Calls = {c1, c2, c3}
    MaxBacklog = 2
INVARIANTS TypeOK NoLateAccept StoppedReleases
PROPERTY StopReleasesListener
CHECK_DEADLOCK FALSE
