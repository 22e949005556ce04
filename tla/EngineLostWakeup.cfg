SPECIFICATION FairSpec
CONSTANTS
    NodeOrder <- ChainOrder
    Edges <- ChainEdges
    TriggerTypes = {"t"}
    WaitNodes = {"w"}
    Unregistered = {}
    Inst = {i1}
    Exec = {e1}
    Worker = {w1, w2}
    Resumer = {z1}
    home <- HomeSingle
    None = None
    QueueCap = 1
    EarlyRequests = FALSE
    MaxCrashes = 0
    MaxFaults = 0
    MaxStarts = 3
PROPERTY RunsSettle
CHECK_DEADLOCK FALSE
