SPECIFICATION FairSpec
CONSTANTS
    NodeOrder <- BranchOrder
    Edges <- BranchEdges
    TriggerTypes = {"t"}
    WaitNodes = {}
    Unregistered = {"u"}
    Inst = {i1}
    Exec = {e1, e2}
    Worker = {w1, w2}
    Resumer = {}
    home <- HomeSingle
    None = None
    QueueCap = 1
    EarlyRequests = FALSE
    MaxCrashes = 1
    MaxFaults = 0
    MaxStarts = 3
INVARIANT RunningIsAttended
PROPERTY RunsSettle
CHECK_DEADLOCK FALSE
