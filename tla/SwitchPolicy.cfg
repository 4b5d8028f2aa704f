SPECIFICATION PolicySpec
CONSTANTS
    Paths = 3
    Start = 1
    Observation <- Observations
    Strategies = {"adaptive", "threshold"}
    Weight <- MCWeight
    Threshold <- MCThreshold
    MinScore = 60
    Margin = 12
    ThresholdRtt = 1
    ThresholdLoss = 0
    SustainedDegradation = 2
    ThresholdHold = 1
    MinInterval = 3
    MaxPerHour = 2
    Hour = 7
    MaxGap = 3
    MaxTime = 11
INVARIANTS
    SwitchesSpaced
    NoStarvation
PROPERTIES
    SwitchIsSustained
CHECK_DEADLOCK FALSE
