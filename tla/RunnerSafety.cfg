SPECIFICATION Spec
CONSTANTS
    Runner = {r1, r2}
    Phases = 2
    Windows = 1
    MaxAttempts = 1
    Faults = {"error", "interrupt", "kill", "cleanup", "listing", "bundle", "server"}
SYMMETRY Symmetry
INVARIANTS
    ResidueHasCause
    CompleteLeavesNothing
    FailureIsEvidence
CHECK_DEADLOCK FALSE
