CONSTANTS
    NBUFF = 2
    Chunks = 3
    MaxRuns = 4
    Absent = absent
SPECIFICATION Spec
INVARIANTS TypeOK NoTornBuffer CleanRunCopies
PROPERTY CleanRunEnds
CHECK_DEADLOCK FALSE
