CONSTANTS
    Kinds = {"fifo", "pipe"}
    Chunks = 2
    PipeSize = 1
    MaxRuns = 3
    MaxFaults = 2
SPECIFICATION PipeSpec
INVARIANTS PipeTypeOK ReplyComplete
PROPERTY SessionEnds
CHECK_DEADLOCK FALSE
