SPECIFICATION Spec
CONSTANTS
    Param <- MCParam
    Rep <- MCRep
    K <- MCK
    C <- MCC
    Fixed <- MCFixed
    Exact <- MCExact
    Special <- MCSpecial
    Tol = 1
    CellGroup <- MCCellGroup
    NoBound = NoBound
    Engines = {"topas"}
    Optional = {"s"}
    Default <- MCDefault
    Cells <- MCCells
    Off <- MCOff
    Unconstrained <- MCUnconstrained
    Shift <- MCShift
    Values <- MCValues
    RawRecipes <- MCRawRecipes
    MaxRuns = 1
CHECK_DEADLOCK FALSE
INVARIANTS
    NotVariedWasNotVaried
