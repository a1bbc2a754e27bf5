CONSTANTS
    Names <- MCNames
    CaseKey <- MCCaseKey
    CanonKey <- MCCanonKey
    Cases <- MCCases
    MaxEntries = 4
    MaxSkipEntries = 2
    MaxMacEntries = 3
SPECIFICATION Spec
INVARIANTS
    NoNewVariantPair
    RefusedOnlyAfterFailure
    RenameRefusedWhole
    MacKeepsFilesApart
PROPERTY PreflightShrinks
CHECK_DEADLOCK FALSE
