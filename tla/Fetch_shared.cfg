SPECIFICATION Spec
CONSTANTS
    f1 = f1
    f2 = f2
    Broken = Broken
    NoFile = NoFile
    Fetchers <- Pair
    Objects <- MCObjects
    Links <- MCLinks
    Packs <- MCPacks
    Holds <- MCHolds
    Starts <- Shared
INVARIANTS
    CacheTroubleStaysOut
CHECK_DEADLOCK FALSE
