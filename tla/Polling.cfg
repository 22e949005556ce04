SPECIFICATION FairSpec
CONSTANTS
    MaxItems = 3
    Overlap = 1
    NoId = {2}
    Interval = 4
    MaxIdlePolls = 1
    BackoffCap = 10
    Second = 2
    WordBits = 16
    MaxIdle = 15
    MaxRuns = 2
INVARIANT NeverTwice
INVARIANT CursorSkipsNothing
PROPERTY NotMoreOften
PROPERTY ItemsAreEmitted
CHECK_DEADLOCK FALSE
