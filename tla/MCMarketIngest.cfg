CONSTANTS
    Jobs <- MCJobs
    Times <- MCTimes
    Windows <- MCWindows
    Staged <- MCStaged
    MaxRev <- MCMaxRev
    MaxCalls = 4
SPECIFICATION FairSpec
CHECK_DEADLOCK FALSE
INVARIANTS
    StagingComplete
    ReplayReproduces
PROPERTIES
    BarsGoBackOnlyThen
    JobsEnd
