SPECIFICATION LauncherSpec
CONSTANTS
    MessagesLocale <- MCLocale
    CurrentDesktop <- MCDesktop
    SearchPath <- MCSearchPath
    AbsolutePrograms = {}
    MalformedPrograms = {"bad"}
    MaxComponents = 2
    PathOrder <- MCPathOrder
    InitialDisks <- MCInitialDisks
    InitialPrograms <- MCPrograms
    DiskChanges <- MCDiskChanges
    MaxDiskChanges = 1
    Limits <- MCLimits
    RejectedLocations <- MCRejected
    NameOrder <- MCNames
    IdOrder <- MCIds
    Queries <- MCQueries
    MaxTokens = 1
    Shape <- MCShape
    ResultLimit = 2
    MaxRefreshes = 2
    MaxQueries = 1
    MaxLaunches = 1
INVARIANTS
    ShadowingIsRespected
    LaunchesWhatWasShown
    AnsweredWhenQuiet
    RowsShowResults
CHECK_DEADLOCK FALSE
