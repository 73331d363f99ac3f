CONSTANTS
    Keep = 1
    MaxBlock = 2
    MaxProcs = 6
SPECIFICATION MCSpec
INVARIANTS
    ForgottenIsClosed
    OneStartPerHeight
    LatestRuns
CHECK_DEADLOCK FALSE
