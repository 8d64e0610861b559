SPECIFICATION FairSpec
CONSTANTS
    Worker = {w1}
    Nobody = Nobody
    Text = {t1, t2}
    MaxAttempts = 2
    MaxRevision = 2
CHECK_DEADLOCK FALSE
INVARIANTS
    PaidOnce
PROPERTIES
    PaidAnswerIsReplayed
    WorkEnds
    NoSpendingOnUncertainty
    OutcomeIsFinal
    RemovedPostIsNotBilled
