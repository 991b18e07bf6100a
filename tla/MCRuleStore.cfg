SPECIFICATION Spec
CONSTANTS
    Answer <- MCAnswer
    Asks <- MCAsks
    FirstRules <- MCFirstRules
    FormRules <- MCFormRules
    HandRules <- MCHandRules
    Requests <- MCRequests
    NewModules <- MCNewModules
    Wraps = {"gh"}
    NewId = 10
    Paths = {5, 6, 10}
    MaxSaves = 2
    MaxEdits = 1
    MaxAsks = 1
CHECK_DEADLOCK FALSE
INVARIANTS
    DecidedAsWritten
    RuleHasModule
PROPERTIES
    HandEditsSurvive
