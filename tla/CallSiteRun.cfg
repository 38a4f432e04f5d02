SPECIFICATION Spec
CONSTANTS
    Threads = {t1, t2}
    Fns <- Boxes
    Filters <- OnlyKeyed
    Atomics <- OneCell
    Builders <- All
    LogLevels <- OnlyDebug
    MaxLevels <- OnlyOff
    FilterLevels <- OnlyError
    Keep = 2
    MaxCalls = 2
    MaxLogs = 1
    MaxEvents = 2
INVARIANT CallsBracketed
INVARIANT PanicOnRecord
INVARIANT DumpOnExit
SYMMETRY Symmetry
CHECK_DEADLOCK FALSE
