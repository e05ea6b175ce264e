CONSTANTS
    Requests = {r1, r2, r3}
    Hashes = {h1, h2}
    MaxExpiries = 2
    NoRow = NoRow
    None = None
    Keys = {1}
    Capacity = 2
    Unit = 2
    PerTick = 1
    PerSecond = 2
    MaxNow = 8
    MaxTaken = 5
    Agents = {a1, a2}
    Sizes = {1, 2}
    Cap = 1
    MaxBars = 3
    MaxWalks = 2
    Tickers = {1, 2}
    Asked <- MCAsked
    LastDay = 3
    MaxCalls = 3
    Lookback = 1
    RowLimit = 2
SPECIFICATION PartsSpec
SYMMETRY Symmetry
CHECK_DEADLOCK FALSE
INVARIANTS
    AtMostOneEffect
    ReplayUnlessDisturbed
    PagesReadEverything
    RetriesMayHelp
    OmittedOnlyWhenCut
    LimitKeepsItsWord
PROPERTIES
    StoredResponseStays
    QuotesGoBackOnlyThen
