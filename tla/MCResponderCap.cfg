SPECIFICATION Spec
CONSTANTS
    Initiator = Initiator
    Responder = Responder
    None = None
    s1 = s1
    s2 = s2
    r1 = r1
    InitiatorSenders <- OneSender
    ResponderSenders <- OnePeerSender
    Closers <- NoClosers
    MaxSends = 3
    MaxWriteFailures = 0
    HighWater = 1
    MaxPackets = 2
    WindowSize = 16
INVARIANTS
    CapOnlyDuringRekey
CHECK_DEADLOCK FALSE
