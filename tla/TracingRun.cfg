SPECIFICATION FairSpec
CONSTANTS
    Threads = {t1, t2}
    Spans = {s1}
    Fields = {f1, f2}
    Stack <- OwnTypes
INVARIANT AppliedOnce
PROPERTY SpanStory
PROPERTY CallReturns
CHECK_DEADLOCK FALSE
