SPECIFICATION FairSpec
CONSTANTS
    c1 = c1
    c2 = c2
    Client <- MCClient
    NoCall = NoCall
    MaxGeneration = 2
    MaxEpoch = 2
    MaxCalls = 3
    IdLimit = 3
INVARIANTS
    ServiceInvariant
    AnsweredOnce
PROPERTIES
    ImplementsAuthority
    NobodyWaitsForever
