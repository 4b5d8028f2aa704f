SPECIFICATION FairSpec
CONSTANTS
    Process = {p1, p2}
    CellCount = 2
    AttemptId = {a1, a2, a3, a4}
    Commit = {k1, k2}
    MaxAttempts = 2
    Nobody = Nobody
    NoAttempt = NoAttempt
INVARIANTS
    ChainsValid
    OneCommit
PROPERTIES
    OnlyResumeRetries
    CompleteReturnIsComplete
    LedgerSpec
    LockReleased
