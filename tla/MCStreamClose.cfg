SPECIFICATION FairSpec
CONSTANTS
    Initiator = Initiator
    Responder = Responder
    None = None
    s1 = s1
    s2 = s2
    r1 = r1
    InitiatorSenders <- OneSender
    ResponderSenders <- OnePeerSender
    Closers <- BothClose
    MaxSends = 1
    MaxWriteFailures = 1
    HighWater = 1
    MaxPackets = 8
    WindowSize = 16
PROPERTIES
    CloseReturns
    RekeyCompletes
CHECK_DEADLOCK FALSE
