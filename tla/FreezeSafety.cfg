SPECIFICATION Spec
CONSTANTS
  Freezers = {f1, f2}
  Plans = 2
  Settings = {old, new}
  MaxWrites = 4
SYMMETRY Symmetry
CHECK_DEADLOCK FALSE
INVARIANT PlanNamesSchedule
INVARIANT RefusalHasCause
PROPERTY NoLostUpdate
PROPERTY SuccessIsComplete
