SPECIFICATION ServerSpec
CONSTANTS
    Key = {a, b}
    Rate = 1
    Cost = 2
    Capacity = 3
    Idle = 3
    Horizon = 6
    Watcher = {w}
    Asker = {g}
    MaxSteps = 2
    MaxPolls = 2
    Flow = {f1, f2}
    Callback = {h}
    Source = {s1, s2}
    MaxToken = 2
INVARIANTS
    WindowBound
    LastEventIsWhole
    SingleUse
    StaleHasACause
PROPERTIES
    ImplementsTokenBucket
    StreamsEnd
CHECK_DEADLOCK FALSE
