SPECIFICATION FairSpec
CONSTANTS
    Threads = {t1}
    Cap = 2
    Buffered = TRUE
    Faults = {}
    MaxTries = 1
    MaxLines = 2
PROPERTY LinesGetOut
CHECK_DEADLOCK FALSE
