SPECIFICATION Spec
CONSTANTS
    Threads = {t1}
    Configs <- Rotating
    Paths <- OnlyA
    Movable = {}
    MaxLines = 1
    MaxCalls = 1
    MaxEvents = 1
INVARIANT NoWriterPanics
CHECK_DEADLOCK FALSE
