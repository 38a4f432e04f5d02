SPECIFICATION Spec
CONSTANTS
    t1 = t1
    t2 = t2
    r1 = r1
    r2 = r2
    Threads <- TwoThreads
    Reopeners <- TwoReopeners
    Faults <- AnyFault
    MaxLines = 3
    MaxHandles = 4
    MaxMoves = 1
SYMMETRY Symmetry
INVARIANT OpenWhileUsed
INVARIANT Delivered
INVARIANT ReopenTakesEffect
CHECK_DEADLOCK FALSE
