SPECIFICATION Spec
CONSTANTS
    f1 = f1
    f2 = f2
    Broken = Broken
    NoFile = NoFile
    Fetchers <- Pair
    Objects <- MCObjects
    Links <- MCLinks
    Packs <- MCPacks
    Holds <- MCHolds
    Starts <- SomeStarts
INVARIANTS
    TypeOK
    FailsOnlyForCause
    VouchedIsThere
    OnlyVerifiedPublished
PROPERTIES
    RoundsBounded
CHECK_DEADLOCK FALSE
