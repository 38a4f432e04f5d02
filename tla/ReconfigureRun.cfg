SPECIFICATION FairSpec
CONSTANTS
    Threads = {t1, t2}
    Configs <- Shorter
    Paths <- Both
    Movable <- Both
    MaxLines = 1
    MaxCalls = 2
    MaxEvents = 1
INVARIANT OneConfiguration
PROPERTY LinesSurviveSwap
PROPERTY ReopenFollows
CHECK_DEADLOCK FALSE
