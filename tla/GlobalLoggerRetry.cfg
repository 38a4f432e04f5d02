SPECIFICATION SetupSpec
CONSTANTS
    t1 = t1
    t2 = t2
    Callers <- TwoThreads
    Configs <- Tracings
    NoConfig = NoConfig
    Faults = {"tracing"}
    MaxSetups = 2
INVARIANT InitializedAfterSetup
CHECK_DEADLOCK FALSE
