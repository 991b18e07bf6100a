CONSTANTS
    c1 = c1
    k1 = k1
    Clients = {c1}
    Keys = {k1}
    KeyOf <- Shared
    Windows = {1, 2}
    SuppressAfter = 2
    MaxLate = 1
    MaxCrashes = 1
SPECIFICATION Spec
PROPERTIES
    PromptIsRaised
    PromptGoesAway
