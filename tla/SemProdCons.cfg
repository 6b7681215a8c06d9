CONSTANTS
    Producers = {p1, p2, p3}
    Consumers = {c1, c2, c3}
    NBUFF = 3
    cycleTimes = 7
SPECIFICATION Spec
INVARIANTS TypeOK UnitsConserved NeverWrong
PROPERTY ImplementsStream
