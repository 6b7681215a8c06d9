CONSTANTS
    Clients = {c1, c2}
    Timed = {c2}
    Strays = {s1}
    Parent = parent
    Listen = listen
    NoFd = nofd
    Lines = 2
    MaxFaults = 2
SPECIFICATION Spec
INVARIANTS TypeOK Isolated UnharmedServed
PROPERTY AllSettles
CHECK_DEADLOCK FALSE
