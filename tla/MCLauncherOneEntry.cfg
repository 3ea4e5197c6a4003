SPECIFICATION LauncherSpec
CONSTANTS
    MessagesLocale <- MCLocale
    CurrentDesktop <- MCDesktop
    SearchPath <- MCSearchPath
    AbsolutePrograms = {}
    MalformedPrograms = {"bad"}
    MaxComponents = 2
    PathOrder <- MCPathOrder
    InitialDisks <- MCOneEntryDisks
    InitialPrograms <- MCPrograms
    DiskChanges <- MCDiskChanges
    MaxDiskChanges = 0
    Limits <- MCLimits
    RejectedLocations = {}
    NameOrder <- MCNames
    IdOrder <- MCIds
    Queries <- MCQueries
    MaxTokens = 1
    Shape <- MCShape
    ResultLimit = 2
    MaxRefreshes = 2
    MaxQueries = 1
    MaxLaunches = 1
INVARIANTS
    AnsweredWhenQuiet
CHECK_DEADLOCK FALSE
