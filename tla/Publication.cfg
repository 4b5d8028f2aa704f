SPECIFICATION BothSpec
CONSTANTS
  Platforms = {"linux", "windows"}
  Bundle = bundle
  Foreign = {f1, f2}
  MaxMoves = 4
  Note = {n1, n2}
CHECK_DEADLOCK FALSE
INVARIANT OthersUntouched
INVARIANT RaisedLeavesNoTrace
INVARIANT RawIsWhole
PROPERTY ReturnedIsDurable
