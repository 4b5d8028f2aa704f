SPECIFICATION Spec
CONSTANTS
    Runner = {r1}
    Phases = 1
    Windows = 2
    MaxAttempts = 1
    Faults = {"server"}
INVARIANTS
    CompleteIsUndisturbed
CHECK_DEADLOCK FALSE
