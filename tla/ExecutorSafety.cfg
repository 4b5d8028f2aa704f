SPECIFICATION Spec
CONSTANTS
  Paths = 2
  Phases = 2
  Windows = 2
  Rows = {1, 2}
  RunToken = 9
  Tokens = 12
CHECK_DEADLOCK FALSE
INVARIANT PathsMatchSwitches
INVARIANT TokensDistinct
INVARIANT NoTaintedRow
INVARIANT NoProbeLeftBehind
