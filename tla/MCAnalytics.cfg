CONSTANTS
    Types <- MCTypes
    Dates <- MCDates
    YearOf <- MCYearOf
    Positions <- MCPositions
    Metrics <- MCMetrics
    PayloadsOf <- MCPayloadsOf
    None = None
    MediumFrom = 2
    HighFrom = 3
    Quarter = 1
    Filed <- MCFiled
    AllowedDates <- MCAllowed
    MaxVersions = 3
    PageSize = 1
    Paged <- MCPaged
    MaxCalls = 2
SPECIFICATION Spec
INVARIANTS
    RoutesTellTheSame
    ReadsCoverTheirCall
    PagesLoseNothing
    NewestAreReconciled
    SummariesAddUp
CHECK_DEADLOCK FALSE
