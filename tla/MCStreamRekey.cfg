SPECIFICATION Spec
CONSTANTS
    Initiator = Initiator
    Responder = Responder
    None = None
    s1 = s1
    s2 = s2
    r1 = r1
    InitiatorSenders <- TwoSenders
    ResponderSenders <- OnePeerSender
    Closers <- NoClosers
    MaxSends = 2
    MaxWriteFailures = 0
    HighWater = 2
    MaxPackets = 3
    WindowSize = 16
SYMMETRY MCSymmetry
INVARIANTS
    RecordsOpen
    NonceNeverReused
    KeyWearBounded
PROPERTIES
    ImplementsRatchet
CHECK_DEADLOCK FALSE
