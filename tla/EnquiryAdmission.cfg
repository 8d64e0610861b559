SPECIFICATION Spec
CONSTANTS
    Visitor = {v1,v2}
    Email = {e1}
    Text = {t1, t2, t3}
    TooLong = {t3}
    NoText = NoText
    EmailOf <- SameAddress
    Worker = {}
    Address = {a1}
    NoAddress = NoAddress
    MaxAttempts = 1
    PerAddress = 1
    PerHour = 2
    Capacity = 2
    MaxRequests = 2
    MaxSends = 3
    MaxRevision = 0
CHECK_DEADLOCK FALSE
INVARIANTS
    ThankedForWhatIsStored
    ReferenceIsItsOwn
