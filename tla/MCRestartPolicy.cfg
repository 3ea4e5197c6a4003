SPECIFICATION Spec
CONSTANTS
    Component <- MCComponent
    MaxRestarts <- MCMaxRestarts
    Window <- MCWindow
    Healthy <- MCHealthy
    InitialBackoff <- MCInitialBackoff
    MaximumBackoff <- MCMaximumBackoff
    MaxTime = 9
INVARIANTS
    TypeOK
    RateBound
    RemembersOnlyTheWindow
    LedgerAgrees
PROPERTIES
    SafeModeIsFinal
    ImplementsBudget
CHECK_DEADLOCK FALSE
