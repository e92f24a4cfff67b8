SPECIFICATION Spec
CONSTANTS
    None = None
    InitiatorConfigs <- Dialers
    ResponderConfigs <- Listeners
    MaxRetries = 2
    RtoInitial = 1
    RtoMax = 2
    LingerReplays = 4
    MaxHonored = 2
    CookieLifetime = 1
    MaxDials = 1
    MaxLost = 2
    MaxLate = 1
    MaxResponders = 2
INVARIANTS
    EveryDialTolerates
CHECK_DEADLOCK FALSE
