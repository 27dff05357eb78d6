\* One direction: two sends and two receives.
SPECIFICATION Spec
CONSTANTS
    client = client
    server = server
    Calls = {c1, c2, c3, c4}
    Senders = {c1, c2}
    Sessions = {client, server}
    Uses <- OneWay
    MaxSeq = 3
SYMMETRY OneWaySymmetry
PROPERTY ImplementsChannel
CHECK_DEADLOCK FALSE
