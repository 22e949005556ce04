SPECIFICATION Spec
CONSTANTS
    MaxItems = 2
    MaxRuns = 2
INVARIANT EmittedOnce
CHECK_DEADLOCK FALSE
