SPECIFICATION Spec
CONSTANTS
    UpkeepKind = "age"
    MaxFiles = 0
    Compress = FALSE
    Exclude = 0
    Faults = {}
    MaxGen = 4
    MaxSuffix = 4
    MaxFaults = 0
INVARIANT AgeIgnored
CHECK_DEADLOCK FALSE
