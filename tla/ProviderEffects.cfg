SPECIFICATION FairSpec
CONSTANTS
    Worker = {w1, w2}
    NoWorker = NoWorker
    MaxAttempts = 2
    MaxRevision = 4
    MaxStops = 2
CHECK_DEADLOCK FALSE
INVARIANTS
    AtMostOneCreate
    FailedMeansSettled
    PaidAnswerGetsSecondChance
    CompletedJobMeansSucceededRun
PROPERTIES
    ChargesAsPromised
    ReceiptIsFinal
    RunSettles
