SPECIFICATION Spec
CONSTANTS
    Threads = {t1, t2}
    Fns <- OneOfEach
    Filters <- KeyInArc
    Atomics <- OneCell
    Builders <- All
    LogLevels <- OnlyDebug
    MaxLevels <- OffOrInfo
    FilterLevels <- OnlyError
    Keep = 2
    MaxCalls = 2
    MaxLogs = 1
    MaxEvents = 2
INVARIANT KeyKept
CHECK_DEADLOCK FALSE
