SPECIFICATION StallSpec
CONSTANTS
    Visitor = {v1}
    Email = {e1}
    Text = {t1}
    TooLong = {}
    NoText = NoText
    EmailOf <- SameAddress
    Worker = {w1,w2}
    Address = {a1,a2}
    NoAddress = NoAddress
    MaxAttempts = 2
    PerAddress = 1
    PerHour = 1
    Capacity = 1
    MaxRequests = 1
    MaxSends = 1
    MaxRevision = 6
CHECK_DEADLOCK FALSE
INVARIANTS
    OneCopy
PROPERTIES
    RecipientIsKept
    DeliveredAsPromised
    NotificationSettles
