SPECIFICATION FairSpec
CONSTANTS
    I = I
    R = R
    Initiator = I
    Responder = R
    Speakers <- OnlyI
    MaxSends = 2
    MaxRekeys = 3
    MaxSeq = 3
    RetryCeiling = 0
    TimeOuts = FALSE
    Closers <- Nobody
    InboxCap = 2
    MaxPackets = 2
    EpochMod = 3
    Word = 1000
INVARIANTS
    EpochKeysAgree
    HeaderNamesKey
PROPERTIES
    ImplementsRatchet
    RekeyCompletes
CHECK_DEADLOCK FALSE
