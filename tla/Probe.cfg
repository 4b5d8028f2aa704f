SPECIFICATION FairSpec
CONSTANTS
  Packets = 2
  Interval = 1
  Timeout = 2
  Drain = 1
  Copies = 2
  Strays = 1
  LastSend = 2
  Slack = 1
CHECK_DEADLOCK FALSE
INVARIANT Accounted
INVARIANT LossListened
INVARIANT RaisesOnFailureOnly
PROPERTY ResultIsFinal
PROPERTY Terminates
