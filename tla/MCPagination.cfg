CONSTANTS
    g1 = g1
    b1 = b1
    PartitionKey <- MCPartitionKey
    Verifies <- MCVerifies
    MaxRetries = 2
    Reads <- MCReads
    None = None
    N = 3
    IndexName <- MCIndexName
    GSI <- MCIndexName
    Limits = {1, 2}
    FilterSet <- MCFilterSet

SPECIFICATION Spec

\* The read ends; afterwards nothing happens.
CHECK_DEADLOCK FALSE

INVARIANTS
    TypeOK
    ReadAllComplete
    CursorRoundTrip
    RetryOutcome

PROPERTIES
    OwnCursorAccepted
    ReadTerminates
