SPECIFICATION Spec
CONSTANTS
    I = I
    R = R
    Initiator = I
    Responder = R
    Speakers <- Nobody
    MaxSends = 0
    MaxRekeys = 2
    MaxSeq = 3
    RetryCeiling = 0
    TimeOuts = TRUE
    Closers <- Nobody
    InboxCap = 2
    MaxPackets = 2
    EpochMod = 3
    Word = 1000
INVARIANTS
    NeverDesync
CHECK_DEADLOCK FALSE
