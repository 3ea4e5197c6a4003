SPECIFICATION Spec
CONSTANTS
    BlurAvailable = TRUE
    ThumbnailsAvailable = FALSE
    DeveloperBuild = FALSE
    UserFiles <- MCUserFiles
    Packaged <- MCPackaged
    Themes <- MCThemes
    LastGeneration = 3
    BodySize = 48
    LeastBodySize = 8
    TextScale = 3
INVARIANTS
    LastKnownValidWasPublished
    SnapshotHasItsThemes
    
