SPECIFICATION Spec
CONSTANTS
    Threads = {t1, t2}
    Configs <- Dropped
    Paths <- Both
    Movable <- Both
    MaxLines = 1
    MaxCalls = 2
    MaxEvents = 2
INVARIANT OneConfiguration
PROPERTY ReopenFollows
CHECK_DEADLOCK FALSE
