SPECIFICATION FairSpec
CONSTANTS
    UpkeepKind = "count"
    MaxFiles = 3
    Compress = TRUE
    Exclude = 1
    Faults = {"open", "copy", "unlink", "finish"}
    MaxGen = 8
    MaxSuffix = 8
    MaxFaults = 2
INVARIANT BackendExclusive
INVARIANT SetMatchesDisk
INVARIANT RetentionExact
INVARIANT NoCollision
PROPERTY WriterProceeds
