SPECIFICATION Spec
CONSTANTS
    UpkeepKind = "all"
    MaxFiles = 0
    Compress = TRUE
    Exclude = 0
    Faults = {"crash"}
    MaxGen = 4
    MaxSuffix = 4
    MaxFaults = 1
INVARIANT AllReadable
CHECK_DEADLOCK FALSE
