CONSTANTS
    Clients = {c1, c2, c3}
    MAXCLIENT = 2
    Lines = 4
    Talkers = {c1}
    Silent = {c3}
    SockBuf = 1
    MaxKills = 1
    None = none
SPECIFICATION Spec
INVARIANTS TypeOK ReadNeverBlocks NormalEndIsComplete
PROPERTY ClientsEnd
CHECK_DEADLOCK FALSE
