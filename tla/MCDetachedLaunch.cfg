SPECIFICATION FairSpec
CONSTANTS
    MessagesLocale <- MCLocale
    CurrentDesktop <- MCDesktop
    SearchPath <- MCSearchPath
    AbsolutePrograms = {}
    MalformedPrograms = {}
    MaxComponents = 1
    MaxArguments = 4
    MaxEnvironment = 4
    MaxEnvelope = 9
    RelativePaths = {"data"}
    Entries <- MCEntries
    Contexts <- MCContexts
    Programs <- MCPrograms
    FileLocation = "location"
    MaxKills = 1
INVARIANTS
    PlansAreAccepted
    NothingIsLeftBehind
    SuccessMeansExecuted
PROPERTIES
    LaunchEnds
CHECK_DEADLOCK FALSE
