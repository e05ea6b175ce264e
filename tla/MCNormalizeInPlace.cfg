CONSTANTS
    Jobs = {j1}
    Requests <- TenKRequests
    Filings <- MCFilings
    Types <- MCTypes
    Dates <- MCDates
    DateOf <- MCDateOf
    YearOf <- MCYearOf
    Filed <- MCFiled
    Payloads = {"old", "new"}
    MaxCalls = 2
    MaxRows = 2
    None = None
SPECIFICATION Spec
CHECK_DEADLOCK FALSE
INVARIANT NormalizesInPlace
