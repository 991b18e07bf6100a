SPECIFICATION LearningSpec
CONSTANTS
    Answer <- MCAnswer
    LoggedAsks <- MCAsks
    FirstLogs <- MCFirstLogs
    StartRules <- MCFirstRules
    LoadedModules <- MCModules
    BrokenGlob <- MCBroken
    MIN_CLUSTER_SIZE = 2
    Window = 1
    HistoryLimit = 2
    MaxRows = 2
    MaxChanges = 1
    MaxWriters = 1
    Days = {1, 3}
CHECK_DEADLOCK FALSE
INVARIANTS
    LearnedApprovalsHavePrecedent
    ReplayAgrees
    HistoryTellsTheTruth
