SPECIFICATION Spec
CONSTANTS
    None = None
    a = a
    b = b
    c = c
    Messages <- Sent
    FragmentSizes <- Sizes
    MaxSources = 2
    MaxConcurrent = 2
    MaxMessageSize = 5
    Timeout = 1
INVARIANTS
    RetryNotWedged
CHECK_DEADLOCK FALSE
