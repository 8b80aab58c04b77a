CONSTANTS
    Part <- MCPart
    Words <- MCWords
    Reference <- MCReference
    GroupOf <- MCGroupOf
    Misspelt <- MCMisspelt
    Variable <- MCVariable
    Project <- MCProject
    Sanitized <- MCSanitized
    Suffix <- MCSuffix
    Scenarios <- CaptureScenarios
    MaxEdits = 1
SPECIFICATION Spec
INVARIANT
    BundleFaithful
CHECK_DEADLOCK FALSE
