SPECIFICATION FairSpec
CONSTANTS
    s1 = s1
    s2 = s2
    s3 = s3
    Absent = Absent
    Garbage = Garbage
    Sessions <- MCSessions
    MisreportedCreate = TRUE
INVARIANTS
    ForeignTrashOnlyInGap
PROPERTIES
    ImplementsSingleWriter
    LockFreed
CHECK_DEADLOCK FALSE
