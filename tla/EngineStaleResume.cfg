SPECIFICATION Spec
CONSTANTS
    NodeOrder <- ChainOrder
    Edges <- ChainEdges
    TriggerTypes = {"t"}
    WaitNodes = {"w", "x"}
    Unregistered = {}
    Inst = {i1}
    Exec = {e1}
    Worker = {w1, w2}
    Resumer = {z1, z2}
    home <- HomeSingle
    None = None
    QueueCap = 1
    EarlyRequests = FALSE
    MaxCrashes = 0
    MaxFaults = 0
    MaxStarts = 3
PROPERTY ResumesItsSuspension
CHECK_DEADLOCK FALSE
