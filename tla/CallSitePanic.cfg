SPECIFICATION Spec
CONSTANTS
    Threads = {t1, t2}
    Fns <- OneOfEach
    Filters <- OnlyKeyed
    Atomics <- OneCell
    Builders <- RingRecipe
    LogLevels <- OnlyDebug
    MaxLevels <- OffOrInfo
    FilterLevels <- OnlyError
    Keep = 2
    MaxCalls = 2
    MaxLogs = 1
    MaxEvents = 2
INVARIANT AssertionDumps
CHECK_DEADLOCK FALSE
