CONSTANTS
    Part <- MCPart
    Words <- MCWords
    Reference <- MCReference
    GroupOf <- MCGroupOf
    Misspelt <- MCMisspelt
    Variable <- MCVariable
    Project <- MCProject
    Sanitized <- MCSanitized
    Suffix <- MCSuffix
    Scenarios <- StaleScenarios
    MaxEdits = 1
SPECIFICATION Spec
INVARIANT
    UndecryptableReported
CHECK_DEADLOCK FALSE
