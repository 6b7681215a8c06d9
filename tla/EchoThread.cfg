CONSTANTS
    Clients = {c1, c2}
    Strays = {s1}
    Listen = listen
    NoSocket = none
    Lines = 2
    MaxFd = 3
    MaxFaults = 1
SPECIFICATION ThreadSpec
INVARIANTS ThreadTypeOK OnlyRaceHarms
PROPERTIES ClientsEnd StartsUp
CHECK_DEADLOCK FALSE
