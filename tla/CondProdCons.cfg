CONSTANTS
    Producers = {p1, p2, p3}
    Consumer = cons
    None = none
    MAXITEMS = 4
SPECIFICATION Spec
INVARIANTS TypeOK NeverWrong ItemsConserved
PROPERTY ImplementsStream
