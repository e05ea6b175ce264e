CONSTANTS
    Callers <- MCCallers
    Ttl = 2
    LockTtl = 2
    WaitTimeout = 1
    MaxLoad = 2
    None = None
SPECIFICATION FairSpec
INVARIANTS
    SingleFlight
    BoundedStaleness
PROPERTIES
    OverwrittenOnlyThen
    EveryCallEnds
    ImplementsReadThrough
