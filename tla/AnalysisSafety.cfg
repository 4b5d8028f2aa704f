SPECIFICATION AnalysisSpec
CONSTANTS
  Reader = {r1}
  Rival = Rival
  CellCount = 2
  MaxAttempts = 2
  MaxWithdrawn = 1
  FileCount = 1
  MaxVersion = 1
  Litter = Litter
CHECK_DEADLOCK FALSE
INVARIANT PassIsFinal
INVARIANT ReturnedIntact
PROPERTY RefusalHasCause
