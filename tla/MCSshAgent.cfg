CONSTANTS
    zsh = zsh
    git = git
    make = make
    self = self
    push = push
    pull = pull
    fwd = fwd
    SessionFrames = {"zsh", "-zsh"}
    TransportFrames = {"ssh"}
    SelfName = "secreq"
    Unknown = Unknown
    MaxChain = 2
    MaxWalk = 4
    MaxDisplay = 2
    NoPeer = NoPeer
    NoAnchor = NoAnchor
    Conns = {1, 2, 3}
    Process <- MCProcess
    Ancestry <- MCAncestry
    Identities = {"github", "deploy"}
    KeyIds = {"github", "deploy"}
    Data = {"d1", "d2"}
    Wants <- MCWants
    Rules <- MCRules
    Choices = {"approve", "session", "session all", "deny"}
    MaxConns = 2
    GrantTtl = 1
    MaxRequests = 1
    MaxClock = 1
SPECIFICATION Spec
INVARIANTS
    SignNeedsAuthority
    TimeoutIsClean
    SilentSignStaysInSession
PROPERTIES
    EveryClientIsServed
