CONSTANTS
    p1 = p1
    p2 = p2
    p3 = p3
    NoPid = NoPid
    Pid <- MCPid
    ClaimAttempts = 2
    PollRounds = 2
    MaxStarts = 3
    Programs = {"start", "stop", "restart", "status", "other"}
    Recycle = TRUE
    Fragile <- MCAnywhere
SPECIFICATION Spec
SYMMETRY MCSymmetry
INVARIANT TypeOK
INVARIANT LiveFilesIntact
INVARIANT JobDirIntact
PROPERTY ImplementsSingleServer
