CONSTANTS
    Jobs = {j1, j2, j3}
    Requests <- MCRequests
    Filings <- MCFilings
    Types <- MCTypes
    Dates <- MCDates
    DateOf <- MCDateOf
    YearOf <- MCYearOf
    Filed <- MCFiled
    Payloads = {"old", "new"}
    MaxCalls = 4
    MaxRows = 2
    None = None
    Versions <- MCVersions
    Batches <- MCBatches
    Calls = {j1, j2, j3}
SPECIFICATION PartsSpec
SYMMETRY Symmetry
CHECK_DEADLOCK FALSE
INVARIANTS
    TablesStayTrue
    FactsFromIdentity
    NoWaitCycle
    BatchesStayWhole
PROPERTIES
    HistoryPreserved
