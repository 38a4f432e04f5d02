SPECIFICATION FairSetupSpec
CONSTANTS
    t1 = t1
    t2 = t2
    Callers <- TwoThreads
    Configs <- All
    NoConfig = NoConfig
    Faults = {"open", "logger", "tracing"}
    MaxSetups = 4
INVARIANT InstalledOnce
INVARIANT InitUnseen
INVARIANT ChecksumInForce
PROPERTY SetupReturns
CHECK_DEADLOCK FALSE
