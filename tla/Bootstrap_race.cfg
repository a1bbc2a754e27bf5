SPECIFICATION Spec
CHECK_DEADLOCK FALSE
CONSTANTS
    a = a
    b = b
    c = c
    Helpers <- Pair
    Depth = 1
    Folders <- EmptyFolder
    Paths <- Whole
INVARIANTS
    LoserProceeds
