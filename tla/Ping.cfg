CONSTANTS
    Pings = {p1, p2}
    Hosts = {h1, h2}
    Pids = {1, 9, 17}
    Base = 16
    Data = {21}
    Busy = {p1}
    MaxSends = 2
    MaxFaults = 1
    Garbage = garbage
SPECIFICATION Spec
INVARIANTS TypeOK LinesAreAnswers
PROPERTY LostOnlyByFaults
CHECK_DEADLOCK FALSE
