SPECIFICATION FairSpec
CHECK_DEADLOCK FALSE
CONSTANTS
    MaxLines = 6
    Capacity = 1
    MaxRivals = 1
INVARIANTS
    TypeOK
    OnlyWhatGitMeant
    AnswersFit
    BatchMeetsAdvertised
    LockFreedOnExit
    HonestExit
PROPERTIES
    Answered
