SPECIFICATION Spec
CONSTANTS
    t1 = t1
    t2 = t2
    Threads <- OneThread
    Cap = 2
    FlushSize = 2
    Sizes <- Mixed
    RotateBy <- BySize
    SizeLimit = 3
    AgeLimit = 1
    Hooks <- Never
    Faults <- Opens
    MaxLines = 3
    MaxFiles = 3
    MaxReopens = 1
    MaxMoves = 0
    MaxTime = 0
INVARIANT LogExists
CHECK_DEADLOCK FALSE
