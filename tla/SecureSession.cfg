\* Three calls of any kind on the two ends.
SPECIFICATION Spec
CONSTANTS
    client = client
    server = server
    Calls = {c1, c2, c3}
    Senders = {}
    Sessions = {client, server}
    Uses <- AnyUse
    MaxSeq = 2
SYMMETRY Symmetry
INVARIANTS TypeOK NonceUnique TornFrameIsTerminal NoFalseRejection NoLateIo
CHECK_DEADLOCK FALSE
