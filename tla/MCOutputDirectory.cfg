CONSTANTS
    Engines = {"gsasii", "topas", "easydiffraction"}
    MaxRuns = 2
    Faults = {"interrupt", "write"}
SPECIFICATION Spec
INVARIANT TypeOK
INVARIANT OneRunPerDirectory
INVARIANT RefusedKeepsResults
INVARIANT OkIsComplete
INVARIANT FailureIsRecorded
INVARIANT NativeFailsClean
INVARIANT ReadsOwnFiles
CHECK_DEADLOCK FALSE
