SPECIFICATION Spec
CONSTANTS
    None = None
    h = h
    a = a
    ab = ab
    abc = abc
    az = az
    d = d
    Paths <- MCPaths
    Parent <- MCParent
    Above <- MCAbove
    Protected = {h}
    Invalid = {az}
    Starts <- MCStarts
    Asks <- MCAsks
    MaxPushes = 1
    MaxOther = 2
INVARIANTS
    RootsStay
    ResidueNeverBlocks
    LeavesNoLitter
PROPERTY FilesLostOnlyInGap
CHECK_DEADLOCK FALSE
