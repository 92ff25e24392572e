CONSTANTS
    r1 = r1
    r2 = r2
    r3 = r3
    r4 = r4
    None = None
    t1 = t1
    t2 = t2
    t3 = t3
    e1 = e1
    e2 = e2
    c1 = c1
    d1 = d1
    pa = pa
    Base = Base
    Stranger = Stranger
    s1 = s1
    s2 = s2
    l1 = l1
    l2 = l2
    k1 = k1
    Request <- MCRequest
    Present <- MCPresent
    ChunkSize = 2
    MaxRetries = 2
    MaxInput = 4
\* The permutations rename batch requests only, which no temporal property
\* mentions.
SYMMETRY MCSymmetry
SPECIFICATION PartsSpec

\* Each call ends: it returns or raises; the clock and the callers stop.
CHECK_DEADLOCK FALSE

INVARIANTS
    TypeOK
    CompleteOnSuccess
    RetryBound
    OutcomeInSegmentOrder
    RateBound
    ConcurrencyBound
    ClientOnLiveSession
    AssumeSpacing

PROPERTIES
    WaitersServed
    EnsureReturns
    ScanEnds
