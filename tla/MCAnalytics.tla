------------------------------ MODULE MCAnalytics ------------------------------
(* Two dates in one year, one in the next; two types; at most three versions.
   The windows of trailing growth are of one period, so that two make a figure.
   Full has what every figure of an income statement needs, Low no interest.     *)
EXTENDS Analytics

MCTypes     == {1, 2}
MCDates     == {1, 2, 3}
MCYearOf    == [d \in MCDates |-> IF d = 3 THEN 2 ELSE 1]
MCFiled     == {<<1, 1>>, <<1, 2>>, <<1, 3>>, <<2, 2>>}
MCPositions == {1, 2, 3}
Figures ==
    {"REVENUE", "NET_INCOME", "OPERATING_INCOME", "DA", "CAPEX", "INCOME_BEFORE_TAX",
     "INCOME_TAX_EXPENSE", "INTEREST_EXPENSE", "INTEREST_INCOME", "TOTAL_EQUITY", "CASH",
     "SHORT_TERM_DEBT", "CURRENT_PORTION_OF_LONG_TERM_DEBT", "LONG_TERM_DEBT"}
MCMetrics == Figures \cup {"CURRENT_ASSETS", "CURRENT_LIABILITIES"}

Low  == [REVENUE |-> 0, INCOME_BEFORE_TAX |-> 2, INCOME_TAX_EXPENSE |-> 1, DA |-> 1, CAPEX |-> -2]
Full == [m \in Figures |->
            CASE m = "REVENUE" -> 2 [] m = "INCOME_BEFORE_TAX" -> 5 [] m = "TOTAL_EQUITY" -> 7
              [] m \in {"DA", "INTEREST_EXPENSE"} -> 3 [] OTHER -> 1]
MCPayloadsOf == [type \in MCTypes |->
                    IF type = 1 THEN {Low, Full}
                    ELSE {[CURRENT_ASSETS |-> 3, CURRENT_LIABILITIES |-> 2]}]

MCAllowed == {2, 3}
MCPaged   == {{<<1, 1>>, <<2, 1>>}}
=============================================================================
