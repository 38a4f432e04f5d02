SPECIFICATION FairSpec
CONSTANTS
    Threads = {t1, t2}
    Cap = 2
    Buffered = TRUE
    Faults = {"stall"}
    MaxTries = 2
    MaxLines = 3
PROPERTY NeverHangsUp
CHECK_DEADLOCK FALSE
