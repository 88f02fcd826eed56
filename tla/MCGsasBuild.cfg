SPECIFICATION Spec
CONSTANTS
    Recipes <- MCRecipes
CHECK_DEADLOCK FALSE
INVARIANTS
    TypeOK
    VariesWhatIsAsked
    NothingSilentlyHeld
    ReadsBackWhatMoved
    RejectedLeavesNothing
    UnusableSiteIsRaised
