CONSTANTS
    Clients = {c1, c2}
    Chunks = 3
    QBytes = 3
    MaxServers = 3
SPECIFICATION Spec
INVARIANTS TypeOK OwnReplyInOrder
PROPERTY LoneClientServed
CHECK_DEADLOCK FALSE
