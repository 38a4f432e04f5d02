SPECIFICATION Spec
CONSTANTS
    Threads = {t1, t2}
    Spans = {s1}
    Fields = {f1, f2}
    Stack <- SharedTypes
INVARIANT AppliedOnce
CHECK_DEADLOCK FALSE
