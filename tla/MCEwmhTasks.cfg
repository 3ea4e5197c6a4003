SPECIFICATION FairSpec
CONSTANTS
    w1 = w1
    w2 = w2
    Windows = {w1, w2}
    First = {w1}
    Looks <- MCLooks
    LastId = 6
    Attempts = 2
    Delays = 1
    Expiry = 2
    Budget = 2
    MaxChanges = 3
    MaxRequests = 1
    MaxFaults = 1
INVARIANTS
    LifetimesSettle
    RequestsAreHonest
PROPERTIES
    CatchesUp
CHECK_DEADLOCK FALSE
