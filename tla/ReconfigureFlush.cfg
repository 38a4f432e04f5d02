SPECIFICATION Spec
CONSTANTS
    Threads = {t1, t2}
    Configs <- Turned
    Paths <- Both
    Movable = {}
    MaxLines = 1
    MaxCalls = 1
    MaxEvents = 0
PROPERTY FlushCoversAll
CHECK_DEADLOCK FALSE
