SPECIFICATION ScopedSpec
CONSTANTS
    a1 = a1
    x = x
    y = y
    z = z
    Agents = {a1}
    Guests = {g1, g2, g3}
    Refs = {x, y, z}
    Allow <- MCAllow
    Ttl = 1
    MaxConns = 2
    Steps = {"forward", "back"}
    MaxTime = 1
    None = None
INVARIANTS ReleasedWasShown
PROPERTIES SilentReleaseIsRecent BacklogDrains
CHECK_DEADLOCK FALSE
