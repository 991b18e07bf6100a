CONSTANTS
    u1 = u1
    UserLines = {u1}
    Processes = {"tty", "x"}
    Terminal = "tty"
    FileSeq <- MCFileSeq
    DotSeq <- MCDotSeq
    OneFilesystem = TRUE
    MaxStarts = 3
    MaxKills = 1
    MaxEdits = 1
    Binaries = {"gh"}
    Config = "config"
    ShimDirs = {"bin", "opt"}
    Installs <- MCInstalls
SPECIFICATION HostSpec
VIEW View
CHECK_DEADLOCK FALSE
INVARIANTS
    NoWorkIsLost
    StampMeansDone
    UserTextSurvives
    ShimHasWrap
