SPECIFICATION Spec
CONSTANTS
    s1 = s1
    s2 = s2
    s3 = s3
    Absent = Absent
    Garbage = Garbage
    Sessions <- Pair
    MisreportedCreate = FALSE
INVARIANT ReleaseOnEveryExit
CHECK_DEADLOCK FALSE
