SPECIFICATION Spec
CONSTANTS
    Inputs <- MCInputs
    LastId = 4
    MaxCards = 2
    MaxImage = 2
    MaxImages = 3
    DefaultTimeout = 1
    MaxTimeout = 2
    LastTime = 3
    MaxClock = 2
INVARIANTS
    IntentsConcernWhatWasSeen
    RowsShowSnapshot
    PublicationsAreAccepted
CHECK_DEADLOCK FALSE
