SPECIFICATION FairSpec
CONSTANTS
    None = None
    InitiatorConfigs <- Initiators
    ResponderConfigs <- Responders
    MaxConns = 2
    MaxRotations = 2
INVARIANTS
    AgreeOnKeys
    OnlyCompatibleComplete
    CompatibleSucceed
    TicketHonoured
PROPERTIES
    HandshakesReturn
CHECK_DEADLOCK FALSE
