SPECIFICATION Spec
CONSTANTS
    UpkeepKind = "count"
    MaxFiles = 2
    Compress = TRUE
    Exclude = 0
    Faults = {"remove"}
    MaxGen = 5
    MaxSuffix = 5
    MaxFaults = 1
INVARIANT NoCollision
CHECK_DEADLOCK FALSE
