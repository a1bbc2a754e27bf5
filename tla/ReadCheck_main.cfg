SPECIFICATION Spec
CHECK_DEADLOCK FALSE
CONSTANTS
    CaseKey <- MCCaseKey
    CanonKey <- MCCanonKey
    FileKey <- MCCanonKey
    Names <- MCNames
    Cases <- MCCases
    Newcomers <- MCNewcomers
INVARIANTS
    FilesAgree
    NextFetchPasses
