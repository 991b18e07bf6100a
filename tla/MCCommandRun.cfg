SPECIFICATION Spec
CONSTANTS
    A = A
    B = B
    x = x
    y = y
    op = op
    pass = pass
    odd = odd
    Names = {A, B}
    Refs <- MCRefs
    Scenarios <- MCScenarios
    Configs <- MCConfigs
    BuiltIn <- MCBuiltIn
    Value <- MCValue
    Bytes = {x, y, NL, CR}
    NL = NL
    CR = CR
    MaxBytes = 4
    PipeCap = 2
    None = None
INVARIANTS OutputIsMaskedWhole SurvivorsAreNotSignalled ChildEnvIsAsMeant
PROPERTIES CommandReturns
CHECK_DEADLOCK FALSE
