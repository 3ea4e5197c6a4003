SPECIFICATION FairSpec
CONSTANTS
    Screens <- MCScreens
    Configs <- MCConfigs
    Statuses = {"unavailable", "randr_1_2", "randr_1_4"}
    Budget = 1
    MaxTrouble = 2
    Heights = {1, 2}
    MaxInputs = 3
INVARIANTS
    SurfacesAgree
    UpToDateWhenQuiet
PROPERTIES
    PlacedFromOneMoment
    LeavesWithDisplay
CHECK_DEADLOCK FALSE
