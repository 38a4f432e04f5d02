SPECIFICATION SetupSpec
CONSTANTS
    t1 = t1
    t2 = t2
    Callers <- TwoThreads
    Configs <- Dynamics
    NoConfig = NoConfig
    Faults = {}
    MaxSetups = 2
INVARIANT LevelInForce
CHECK_DEADLOCK FALSE
