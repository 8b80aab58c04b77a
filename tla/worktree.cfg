CONSTANTS
    Part <- MCPart
    Words <- MCWords
    Reference <- MCReference
    GroupOf <- MCGroupOf
    Misspelt <- MCMisspelt
    Variable <- MCVariable
    Project <- MCProject
    Sanitized <- MCSanitized
    Suffix <- MCSuffix
    Scenarios <- MCScenarios
    MaxEdits = 1
SPECIFICATION Spec
INVARIANTS
    TypeOK
    CreateSpares
    SetTakesEffect
    LastSpeakerWins
    DiffExplained
    IgnoredAsTold
    BundleFaithful
    BundleExact
    RefusalKeepsBundle
    OrphansReal
    FailuresReported
    EmitWhole
CHECK_DEADLOCK FALSE
