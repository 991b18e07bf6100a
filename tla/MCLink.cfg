SPECIFICATION Spec
CONSTANTS
    p1 = p1
    p2 = p2
    Phones = {p1, p2}
    Nick <- SameNick
    Threads = {t1, t2}
    Clients = {c1}
    Ttl = 1
    MaxFailed = 2
    MaxStreams = 1
    Room = 1
    MaxNow = 1
    MaxTokens = 1
    MaxRequests = 1
    MaxHashes = 2
    MaxSigned = 1
    MaxRestarts = 1
    None = None
INVARIANTS TokenIsSpentOnce DecidedOnce AttachedPageIsCurrent
SYMMETRY Symmetry
CHECK_DEADLOCK FALSE
