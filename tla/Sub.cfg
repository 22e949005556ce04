SPECIFICATION FairSpec
CONSTANTS
    Parent = p
    Sub = {s1, s2}
    Worker = {w1, w2}
    None = None
    Steps = 3
    WaitSteps = {2}
    EarlyRequests = FALSE
    MaxCrashes = 1
    MaxPanics = 1
    MaxFaults = 1
INVARIANT SubEndsWithParent
PROPERTY SuccessNeedsSubSuccess
PROPERTY SubFollowsCheckpoint
PROPERTY SubRunsSettle
CHECK_DEADLOCK FALSE
