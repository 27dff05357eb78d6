\* Liveness: any two calls, on the same end or one on each.
SPECIFICATION FairSpec
CONSTANTS
    client = client
    server = server
    Calls = {c1, c2}
    Senders = {}
    Sessions = {client, server}
    Uses <- AnyUse
    MaxSeq = 2
PROPERTIES CancelEnds PeerEndEndsReceive DiscardEnds
CHECK_DEADLOCK FALSE
