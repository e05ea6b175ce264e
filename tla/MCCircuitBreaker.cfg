CONSTANTS
    Calls <- MCCalls
    FailureThreshold = 2
    RecoveryTimeout = 2
    HalfOpenMax = 2
    MaxCancels = 2
SPECIFICATION FairSpec
INVARIANTS
    ClosedBelowThreshold
    WedgedOnlyByCancels
PROPERTIES
    Recovers
