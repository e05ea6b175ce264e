CONSTANTS
    Calls <- MCCalls
    FailureThreshold = 2
    RecoveryTimeout = 1
    HalfOpenMax = 1
    MaxCancels = 1
SPECIFICATION FairSpec
PROPERTY HalfOpenIsLeft
