CONSTANTS
    auto = auto
    strict = strict
    here = here
    there = there
    Client <- MCClient
    Code <- MCCode
    CodeOf <- MCCodeOf
    FallsBack <- MCFallsBack
    Limited = {auto}
    File = {"gpx", "csv"}
    ConnectTries = 2
    StartPolls = 2
    MaxServers = 2
    Environment = {"start", "stop", "crash", "interrupt", "silent"}
SPECIFICATION FairSpec
INVARIANT TypeOK
INVARIANT NoDoubleWork
INVARIANT SubmittedOnce
INVARIANT DirectoryOfOneRun
PROPERTY ClientSettles
CHECK_DEADLOCK FALSE
