SPECIFICATION FairSpec
CONSTANTS
    None = None
    a = a
    r1 = r1
    r2 = r2
    Sources <- OneSource
    Receivers <- TwoReceivers
    MaxHalfOpen = 2
    InboxCap = 2
    EarlyCap = 1
    MaxHellos = 1
    MaxArrivals = 1
    MaxData = 0
    Talking <- FirstSession
    MaxSessions = 1
PROPERTY
    CloseEnds
CHECK_DEADLOCK FALSE
