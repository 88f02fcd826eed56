CONSTANTS
    p1 = p1
    p2 = p2
    p3 = p3
    NoPid = NoPid
    Pid <- MCPid
    ClaimAttempts = 2
    PollRounds = 2
    MaxStarts = 2
    Programs = {"start", "stop"}
    Recycle = FALSE
    Fragile <- MCAnywhere
SPECIFICATION Spec
SYMMETRY MCSymmetry
PROPERTY StopReadsHolder
CHECK_DEADLOCK FALSE
