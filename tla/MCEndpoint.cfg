SPECIFICATION FairSpec
CONSTANTS
    None = None
    a = a
    r1 = r1
    r2 = r2
    Sources <- OneSource
    Receivers <- TwoReceivers
    MaxHalfOpen = 2
    InboxCap = 1
    EarlyCap = 1
    MaxHellos = 2
    MaxArrivals = 2
    MaxData = 2
    Talking <- FirstSession
    MaxSessions = 2
INVARIANTS
    HalfOpenExact
    NoHelloStranded
    EarlyNeverLost
PROPERTIES
    DrainEnds
CHECK_DEADLOCK FALSE
