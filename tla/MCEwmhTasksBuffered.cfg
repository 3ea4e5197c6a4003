SPECIFICATION Spec
CONSTANTS
    w1 = w1
    w2 = w2
    Windows = {w1, w2}
    First = {w1}
    Looks <- MCLooks
    LastId = 6
    Attempts = 2
    Delays = 1
    Expiry = 2
    Budget = 2
    MaxChanges = 2
    MaxRequests = 0
    MaxFaults = 0
INVARIANTS
    BufferedEventsAreDrained
CHECK_DEADLOCK FALSE
