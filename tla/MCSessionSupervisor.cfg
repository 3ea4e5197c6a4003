SPECIFICATION FairSpec
CONSTANTS
    Component <- MCComponent
    MaxRestarts <- MCMaxRestarts
    ReadinessAttempts = 2
    BackoffSlices = 1
    StopSlices = 2
INVARIANTS
    SupervisorInvariant
    SafeModePure
    HonestEnd
PROPERTIES
    SessionEnds
