CONSTANTS
    sh = sh
    ide = ide
    s1 = s1
    s2 = s2
    x = x
    y = y
    self = self
    None = None
    Asks <- SessionAsks
    Ask <- SessionAsk
    Wraps = {"gh", "run"}
    SessionFrames = {"zsh"}
    TransportFrames = {"ssh"}
    SelfName = "secreq"
    Unknown = Unknown
    MaxChain = 3
    MaxWalk = 4
    MaxDisplay = 2
    Processes = {sh, ide, self}
    Sessions = {s1, s2}
    Secrets = {x, y}
    TtlSecrets = {x}
    MaxClicks = 1
SPECIFICATION Spec
INVARIANTS
    ReleaseNeedsConsent
PROPERTIES
    ApprovedIsAnswered
    CardsClear
