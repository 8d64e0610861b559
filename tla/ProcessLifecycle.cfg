SPECIFICATION Spec
CHECK_DEADLOCK FALSE
CONSTANT Requests = {r1, r2}
INVARIANT OnlyLateWorkOutlivesTheDatabase
INVARIANT EndsProperly
PROPERTY ClaimsUnderTheLease
PROPERTY OnlyAVerifiedFileIsServed
PROPERTY GoesWhenAsked
