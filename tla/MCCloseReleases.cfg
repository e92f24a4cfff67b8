SPECIFICATION Spec
CONSTANTS
    Initiator = Initiator
    Responder = Responder
    None = None
    s1 = s1
    s2 = s2
    r1 = r1
    InitiatorSenders <- OneSender
    ResponderSenders <- NoSenders
    Closers <- BothClose
    MaxSends = 1
    MaxWriteFailures = 0
    HighWater = 1
    MaxPackets = 8
    WindowSize = 16
INVARIANTS
    CloseReleases
CHECK_DEADLOCK FALSE
