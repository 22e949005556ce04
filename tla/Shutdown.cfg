SPECIFICATION FairSpec
CONSTANTS
    Request = {r1}
    Firing = {f1}
    Worker = {w1, w2}
    None = None
    QueueCap = 1
    MaxStops = 1
INVARIANT ExitIsClean
INVARIANT NoFalseFailure
INVARIANT RerunOnlyAfterStop
PROPERTY ShutdownEnds
PROPERTY RunsSettle
CHECK_DEADLOCK FALSE
