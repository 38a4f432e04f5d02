SPECIFICATION Spec
CONSTANTS
    Upkeeps <- AllUpkeeps
    MaxAge = 3
    MaxFiles = 2
    Exclude = 1
    AgeLimit = 2
    UseLastTime = TRUE
    SizeLimited = TRUE
    Unit = 2
    MaxNow = 5
    MaxGen = 4
    MaxBack = 1
    MaxStops = 1
INVARIANT NamesInOrder
INVARIANT CollisionNeedsStepBack
INVARIANT NewestKept
PROPERTY RetentionByAge
CHECK_DEADLOCK FALSE
