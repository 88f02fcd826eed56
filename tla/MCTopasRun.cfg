SPECIFICATION Spec
CONSTANTS
    MaxRuns = 2
    Jobs <- MCJobs
    NoFile = NoFile
    NoTc = NoTc
CHECK_DEADLOCK FALSE
INVARIANTS
    TypeOK
    OkIsThisRuns
    BackgroundFollowsFit
PROPERTIES
    RunEnds
