SPECIFICATION FairShellSpec
CONSTANTS
    MaxGeneration = 2
    MaxEpoch = 2
    MaxFaults = 1
    MaxStarts = 2
    MaxRefusals = 2
INVARIANTS
    ClientInvariant
    SurfacesOfOwner
    PresentsOrLeaves
PROPERTIES
    RetainsOnceOwnerKnown
    ComesIntoStep
CHECK_DEADLOCK FALSE
