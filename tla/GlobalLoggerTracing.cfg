SPECIFICATION SetupSpec
CONSTANTS
    t1 = t1
    t2 = t2
    Callers <- TwoThreads
    Configs <- Tracings
    NoConfig = NoConfig
    Faults = {}
    MaxSetups = 2
INVARIANT TracingSubscribed
CHECK_DEADLOCK FALSE
