CONSTANTS
    NBUFF = 3
    Chunks = 1
    MaxRuns = 2
    Absent = absent
SPECIFICATION Spec
INVARIANT EveryRunCopies
CHECK_DEADLOCK FALSE
