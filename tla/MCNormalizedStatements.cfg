CONSTANTS
    Registry <- MCRegistry
    Documents <- MCDocuments
    Currency = "USD"
    Taxonomy = "gaap"
    Cik = "c"
    Contexts <- MCContexts
    Bases <- MCBases
    Ids <- MCIds
    Contents <- MCContents
    None = None
    MaxEdits = 1
    Unlisted = Unlisted
    Garbled = Garbled
    Callers = {"c1", "c2"}
    Today = 3
    Reports <- MCReports
    Requests <- MCRequests
    Jobs = {j1, j2}
    Statements = {1}
    Uuids = {1, 2}
    Identity <- MCIdentity
    ByDate <- MCByDate
    Codes = {1, 2}
    Values <- MCValues
    Payloads <- MCPayloads
    Lookbacks = {2}
    AnomalyLimit = 1
    MaxReplaced = 2
    MaxRuns = 2
    Judgeable = {"REVENUE", "NET_INCOME", "TOTAL_ASSETS"}
    Figures <- MCFigures
    Dimensions = {1, 2}
    Ranking <- MCRanking
    RequiredOf <- MCRequiredOf
    KeyMetrics = {"REVENUE", "NET_INCOME"}
    NonNegative = {"REVENUE"}
    Multiplier = 10
    MinObservations = 2
    Volatile = {"REVENUE", "NET_INCOME"}
    MaxNow = 2
    MaxPast = 2
    Types = {"BS", "CF"}
    Years = {1, 2}
    MonthOf <- MCMonthOf
    Versions = {1, 2}
    Booked = {1, 2, 3}
    Amounts <- MCAmounts
    Slices <- MCSlices
    Rulebook <- MCRules
    Tolerance = 1
    MaxListed = 2
    MaxFacts = 3
SPECIFICATION PartsSpec
SYMMETRY Symmetry
CHECK_DEADLOCK FALSE
INVARIANTS
    DecidedByTable
    OrderIsIrrelevant
    OverlayCoversItsRun
    RunsJudgeOnePayload
    BooksTie
    JudgesAgree
    SyncsCoverTheirWindow
