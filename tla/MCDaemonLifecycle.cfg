SPECIFICATION Spec
CONSTANTS
    c1 = c1
    c2 = c2
    Clients = {c1, c2}
    Operators = {op}
    Build <- Upgraded
    FirstBuild = "old"
    SshAgent = FALSE
    MaxTries = 2
    MaxDaemons = 2
    MaxInodes = 2
    None = None
INVARIANTS SingletonUnlessForced IdleExitStrandsNoAsk
SYMMETRY Symmetry
CHECK_DEADLOCK FALSE
