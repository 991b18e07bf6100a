CONSTANTS
    a = a
    b = b
    NoThread = NoThread
    Threads <- MixedThreads
    Keys = {a, b}
    Request <- MixedRequest
    Kind <- MixedKind
    TtlKeys = {b}
SPECIFICATION Spec
INVARIANTS
    SingleFlight
    NoOrphanWaiter
    ReadyMeansCached
    RepliesAreComplete
    FailureHasCause
PROPERTIES
    EveryCallReturns
