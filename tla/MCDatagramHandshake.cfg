SPECIFICATION FairSpec
CONSTANTS
    None = None
    InitiatorConfigs <- Dialers
    ResponderConfigs <- Listeners
    MaxRetries = 2
    RtoInitial = 1
    RtoMax = 2
    LingerReplays = 4
    MaxHonored = 2
    CookieLifetime = 1
    MaxDials = 1
    MaxLost = 3
    MaxLate = 1
    MaxResponders = 2
INVARIANTS
    AgreeOnKeys
    LossTolerated
    LingerCovers
PROPERTIES
    DialReturns
CHECK_DEADLOCK FALSE
