CONSTANTS
    Engines = {"gsasii"}
    MaxRuns = 1
    Faults = {}
SPECIFICATION Spec
INVARIANT TablesComeFromSuccess
CHECK_DEADLOCK FALSE
