SPECIFICATION FairSpec
CONSTANTS
    Threads = {t1, t2}
    Cap = 2
    Buffered = TRUE
    Faults = {"connect", "write", "flush", "stall"}
    MaxTries = 2
    MaxLines = 3
INVARIANT Conservation
INVARIANT InOrder
PROPERTY ImplementsStream
PROPERTY CallsReturn
CHECK_DEADLOCK FALSE
