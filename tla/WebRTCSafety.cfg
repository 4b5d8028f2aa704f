SPECIFICATION WebRTCSpec
CONSTANTS
    MaxRuns = 2
    MaxNotices = 1
INVARIANTS
    AnswerIsSeen
    RecordsAreEvidence
CHECK_DEADLOCK FALSE
