SPECIFICATION Spec
CONSTANTS
    NodeOrder <- TriangleOrder
    Edges <- TriangleEdges
    TriggerTypes = {"t"}
    WaitNodes = {"w"}
    Unregistered = {}
    Inst = {i1}
    Exec = {e1, e2}
    Worker = {w1, w2}
    Resumer = {z1}
    home <- HomeSingle
    None = None
    QueueCap = 1
    EarlyRequests = FALSE
    MaxCrashes = 1
    MaxFaults = 1
    MaxStarts = 3
SYMMETRY Symmetric
INVARIANT ClaimsAreExclusive
INVARIANT WalkInOrder
INVARIANT RerunOnlyAfterCrash
INVARIANT RecoverySparesLiveSteps
INVARIANT WaitingIsResumable
PROPERTY TerminalForever
PROPERTY CheckpointsGrow
PROPERTY SuccessIsComplete
PROPERTY RefinesExecution
CHECK_DEADLOCK FALSE
