SPECIFICATION Spec
CONSTANTS
    u1 = u1
    u2 = u2
    u3 = u3
    Users <- ThreeUsers
    Triers <- OneTrier
    MinConns = 1
    MaxConns = 1
    MaxCalls = 3
    MaxDials = 3
INVARIANT
    IdleOrInUse
CHECK_DEADLOCK FALSE
