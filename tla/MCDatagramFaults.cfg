SPECIFICATION LocalFairSpec
CONSTANTS
    I = I
    R = R
    Initiator = I
    Responder = R
    Speakers <- OnlyR
    MaxSends = 1
    MaxRekeys = 2
    MaxSeq = 3
    RetryCeiling = 0
    TimeOuts = TRUE
    Closers <- OnlyR
    InboxCap = 2
    MaxPackets = 1
    EpochMod = 3
    Word = 1000
INVARIANTS
    EpochsAdjacent
    NonceNeverReused
PROPERTIES
    RekeyReturns
CHECK_DEADLOCK FALSE
