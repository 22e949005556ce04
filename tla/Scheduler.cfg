SPECIFICATION FairSpec
CONSTANTS
    Workflow = {"a", "c"}
    IsCron = {"c"}
    Interval <- Intervals
    CronPeriod = 3
    Tick = 2
    Horizon = 4
    MaxOwed = 2
PROPERTY StartsApart
PROPERTY OneStartPerBoundary
PROPERTY FiresWhileEnabled
CHECK_DEADLOCK FALSE
