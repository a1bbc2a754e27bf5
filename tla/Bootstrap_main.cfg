SPECIFICATION Spec
CHECK_DEADLOCK FALSE
SYMMETRY PairSymmetry
CONSTANTS
    a = a
    b = b
    c = c
    Helpers <- Pair
    Depth = 1
    Folders <- AnyFolder
    Paths <- AnyPath
INVARIANTS
    TypeOK
    OnlyOursOrEmptyTouched
    ReadyIsComplete
    PartialIsCompleted
    ParentsOnlyAsAsked
    BarredForCause
