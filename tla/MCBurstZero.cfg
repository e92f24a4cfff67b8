SPECIFICATION Spec
CONSTANTS
    c1 = c1
    c2 = c2
    c3 = c3
    a1 = a1
    a2 = a2
    Conns <- Three
    IPs <- Addresses
    IPOf <- Address
    Callers <- TwoCallers
    MaxPerIP = 1
    RateLimited = TRUE
    Burst = 0
    Limit = 2
    ResultsCap = 1
    MaxCalls = 2
INVARIANTS
    FirstAllowed
CHECK_DEADLOCK FALSE
