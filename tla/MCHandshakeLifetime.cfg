SPECIFICATION FairSpec
CONSTANTS
    None = None
    InitiatorConfigs <- Dialers
    ResponderConfigs <- Listeners
    MaxRetries = 2
    RtoInitial = 1
    RtoMax = 2
    LingerReplays = 4
    MaxHonored = 2
    CookieLifetime = 3
    MaxDials = 1
    MaxLost = 1
    MaxLate = 0
    MaxResponders = 1
PROPERTY
    ResponderEnds
CHECK_DEADLOCK FALSE
