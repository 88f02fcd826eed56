SPECIFICATION Spec
CONSTANTS
    Nonce = {n1, n2}
    Handler = {h1, h2}
    Skew = 2
    Drift = 1
    CacheLimit = 0
    BodyDelay = 1
    MaxTime = 4
    MaxServers = 2
    Free = Free
    NoRequest = NoRequest
SYMMETRY Symmetry
CHECK_DEADLOCK FALSE
INVARIANTS
    AtMostOnce
    AnswerIsOwn
