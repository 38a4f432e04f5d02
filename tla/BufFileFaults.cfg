SPECIFICATION Spec
CONSTANTS
    t1 = t1
    t2 = t2
    Threads <- OneThread
    Cap = 2
    FlushSize = 2
    Sizes <- Mixed
    RotateBy <- BySize
    SizeLimit = 1
    AgeLimit = 0
    Hooks = {TRUE, FALSE}
    Faults <- AnyFault
    MaxLines = 2
    MaxFiles = 2
    MaxReopens = 1
    MaxMoves = 1
    MaxTime = 1
INVARIANT Conservation
PROPERTY FlushedOnReturn
CHECK_DEADLOCK FALSE
