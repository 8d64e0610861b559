SPECIFICATION Spec
CONSTANTS
    Worker = {w1}
    Nobody = Nobody
    MaxAttempts = 1
    Found <- Some
    MaxRuns = 3
    MaxRevision = 3
CHECK_DEADLOCK FALSE
INVARIANTS
    TranslationCanBeRetried
