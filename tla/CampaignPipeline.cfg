SPECIFICATION Spec
CONSTANTS
    Worker = {w1}
    Nobody = Nobody
    MaxAttempts = 2
    Found <- Some
    MaxRuns = 2
    MaxRevision = 2
CHECK_DEADLOCK FALSE
INVARIANTS
    OneActiveRun
    ActiveRunHasItsJob
PROPERTIES
    StaleResultNeverWins
    FinishedCopyIsKept
    PaidWorkIsNotOrderedAgain
    DeletedStaysDeleted
