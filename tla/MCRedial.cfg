SPECIFICATION Spec
CONSTANTS
    None = None
    InitiatorConfigs <- Dialers
    ResponderConfigs <- Listeners
    MaxRetries = 2
    RtoInitial = 1
    RtoMax = 2
    LingerReplays = 4
    MaxHonored = 2
    CookieLifetime = 3
    MaxDials = 2
    MaxLost = 0
    MaxLate = 0
    MaxResponders = 2
INVARIANTS
    EveryDialTolerates
CHECK_DEADLOCK FALSE
