SPECIFICATION Spec
CONSTANTS
    Request = {r1}
    Firing = {f1}
    Worker = {w1, w2}
    None = None
    QueueCap = 1
    MaxStops = 1
SYMMETRY Symmetric
INVARIANT SendersHaveStopped
CHECK_DEADLOCK FALSE
