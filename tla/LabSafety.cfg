SPECIFICATION Spec
CONSTANTS
    Paths = 2
    Levels = 1
    MaxSetups = 2
    MaxFaults = 2
INVARIANTS
    SetupIsAllOrNothing
    VerifiedIsClean
    ToldIsApplied
PROPERTIES
    LifecycleSpec
CHECK_DEADLOCK FALSE
