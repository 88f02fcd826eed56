CONSTANTS
    auto = auto
    strict = strict
    here = here
    there = there
    Client <- MCClient
    Code <- MCCode
    CodeOf <- MCCodeOf
    FallsBack <- MCFallsBack
    Limited = {auto}
    File = {"gpx"}
    ConnectTries = 3
    StartPolls = 2
    MaxServers = 2
    Environment = {}
SPECIFICATION Spec
INVARIANT StaleServerRunsNoJob
CHECK_DEADLOCK FALSE
