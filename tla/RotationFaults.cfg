SPECIFICATION Spec
CONSTANTS
    UpkeepKind = "count"
    MaxFiles = 3
    Compress = TRUE
    Exclude = 1
    Faults <- FaultKinds
    MaxGen = 7
    MaxSuffix = 7
    MaxFaults = 3
INVARIANT TypeOK
INVARIANT RetainedReadable
PROPERTY ImplementsArchive
CHECK_DEADLOCK FALSE
