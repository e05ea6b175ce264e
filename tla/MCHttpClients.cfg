CONSTANTS
    Calls <- MCCalls
    FailureThreshold = 2
    RecoveryTimeout = 1
    HalfOpenMax = 1
    MaxCancels = 1
    Budget = 1
    Items = 2
    MaxPages = 1
SPECIFICATION FairSpec
INVARIANTS
    ClaimsHaveEvidence
    BudgetBounds
PROPERTIES
    CallsEnd
