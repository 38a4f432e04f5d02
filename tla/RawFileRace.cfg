SPECIFICATION Spec
CONSTANTS
    t1 = t1
    t2 = t2
    r1 = r1
    r2 = r2
    Threads <- TwoThreads
    Reopeners <- TwoReopeners
    Faults <- NoFaults
    MaxLines = 2
    MaxHandles = 3
    MaxMoves = 1
PROPERTY NeverBack
CHECK_DEADLOCK FALSE
