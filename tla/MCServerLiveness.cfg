CONSTANTS
    p1 = p1
    p2 = p2
    p3 = p3
    NoPid = NoPid
    Pid <- MCPid
    ClaimAttempts = 2
    PollRounds = 1
    MaxStarts = 2
    Programs = {"start", "stop"}
    Recycle = FALSE
    Fragile <- MCServers
SPECIFICATION FairSpec
PROPERTY StopRemovesTarget
PROPERTY StartSettles
PROPERTY StopEnds
CHECK_DEADLOCK FALSE
