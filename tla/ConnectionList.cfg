SPECIFICATION FairSpec
CONSTANTS
    c1 = c1
    c2 = c2
    c3 = c3
    Conn <- Conn3
    NULL = NULL
    MaxId = 5
INVARIANTS TypeOK ListIsHeap
PROPERTIES ImplementsPool SweepIsComplete
