CONSTANTS
    c1 = c1
    c2 = c2
    Client <- MCClient
    LeaseSeconds = {2}
    TTLBuffer = 1
    MaxTime = 4
    MaxTokens = 3
    MaxAttempts = 2
SYMMETRY MCSymmetry
SPECIFICATION SpecR
INVARIANT LeaseHeldMeansOtherHolder
CHECK_DEADLOCK FALSE
