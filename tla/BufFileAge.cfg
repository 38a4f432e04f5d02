SPECIFICATION Spec
CONSTANTS
    t1 = t1
    t2 = t2
    Threads <- OneThread
    Cap = 2
    FlushSize = 2
    Sizes <- Mixed
    RotateBy <- ByAge
    SizeLimit = 3
    AgeLimit = 1
    Hooks <- Never
    Faults <- NoFaults
    MaxLines = 3
    MaxFiles = 3
    MaxReopens = 1
    MaxMoves = 0
    MaxTime = 3
PROPERTY RotatedByAge
CHECK_DEADLOCK FALSE
