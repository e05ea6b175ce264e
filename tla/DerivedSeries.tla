----------------------------- MODULE DerivedSeries -----------------------------
(***************************************************************************)
(* DerivedMetricsEngine over the payloads of a series, each with those of  *)
(* earlier dates for its history.  A series has one payload of a date, so  *)
(* that it is a set in the order of its dates.  A value is kept as         *)
(* numerator and denominator; rounding, and the guard against denominators *)
(* smaller than any reported figure, are left out.                         *)
(***************************************************************************)
EXTENDS StatementVersions

CONSTANTS Quarter  \* periods of a trailing window: 4

ASSUME QuarterAssumption == Quarter \in Nat \ {0}

-----------------------------------------------------------------------------
(* DERIVED_METRIC_SPECS: the types a metric is for, the inputs that have   *)
(* to be there, the history it needs.                                      *)

Spec3(types, inputs, history) == [types |-> types, inputs |-> inputs, history |-> history]

OfIncome(inputs) == Spec3({Income}, inputs, 0)
OfReturn(inputs) == Spec3({Income, Balance}, inputs, 0)
Growing(m, history) == Spec3({Income}, {m}, history)

Debt == {"SHORT_TERM_DEBT", "CURRENT_PORTION_OF_LONG_TERM_DEBT", "LONG_TERM_DEBT"}

Specs ==
    [GROSS_MARGIN       |-> OfIncome({"REVENUE", "GROSS_PROFIT"}),
     OPERATING_MARGIN   |-> OfIncome({"REVENUE", "OPERATING_INCOME"}),
     NET_MARGIN         |-> OfIncome({"REVENUE", "NET_INCOME"}),
     REVENUE_GROWTH_YOY |-> Growing("REVENUE", 1),
     REVENUE_GROWTH_QOQ |-> Growing("REVENUE", 1),
     REVENUE_GROWTH_TTM |-> Growing("REVENUE", 2 * Quarter - 1),
     EPS_DILUTED_GROWTH |-> Growing("DILUTED_EPS", 1),
     EBITDA             |-> OfIncome({"OPERATING_INCOME", "DA"}),
     EBIT               |-> OfIncome({"INCOME_BEFORE_TAX", "INTEREST_EXPENSE", "INTEREST_INCOME"}),
     LEVERED_FREE_CASH_FLOW   |-> Spec3({CashFlow}, {"CFO", "CAPEX"}, 0),
     UNLEVERED_FREE_CASH_FLOW |-> OfIncome({"INCOME_BEFORE_TAX", "INCOME_TAX_EXPENSE", "DA", "CAPEX"}),
     WORKING_CAPITAL    |-> Spec3({Balance}, {"CURRENT_ASSETS", "CURRENT_LIABILITIES"}, 0),
     DEBT_TO_EQUITY     |-> Spec3({Balance}, Debt \cup {"CASH", "TOTAL_EQUITY"}, 0),
     INTEREST_COVERAGE  |-> OfIncome({"INCOME_BEFORE_TAX", "INTEREST_EXPENSE", "INTEREST_INCOME"}),
     ROE                |-> OfReturn({"NET_INCOME", "TOTAL_EQUITY"}),
     ROA                |-> OfReturn({"NET_INCOME", "TOTAL_ASSETS"}),
     ROIC               |-> OfReturn({"INCOME_BEFORE_TAX", "INCOME_TAX_EXPENSE", "TOTAL_EQUITY", "CASH",
                                      "INTEREST_INCOME", "INTEREST_EXPENSE"} \cup Debt)]

-----------------------------------------------------------------------------
(* Formulas.                                                               *)

Missing == [reason |-> "MISSING_INPUT"]
Zero    == [reason |-> "ZERO_DENOMINATOR"]
Value(num, den) == [num |-> num, den |-> den]
IsValue(result) == DOMAIN result = {"num", "den"}

\* _safe_divide, for inputs that are there.
Divide(num, den) == IF den = 0 THEN Zero ELSE Value(num, den)

\* The last of the chosen payloads.
LastOf(payloads) ==
    IF payloads = {} THEN None ELSE CHOOSE p \in payloads : \A q \in payloads : q.date <= p.date

\* _select_prior_payload by years_back; every fiscal period is FY.
Prior(v, history, years) ==
    LastOf({p \in history : p.type = v.type /\ Year(p) = Year(v) - years})

\* _select_prior_payload by quarters_back, which is only compared with None.
Previous(v, history) ==
    LastOf({p \in history : p.type = v.type /\ p.date < v.date})

Growth(v, prior, m) ==
    IF prior = None THEN Missing
    ELSE IF ~Has(prior, m) THEN Missing
    ELSE Divide(v.payload[m] - prior.payload[m], prior.payload[m])

SumOver(payloads, m) == MapThenSumSet(LAMBDA p : p.payload[m], payloads)

\* The payloads that have at least first and fewer than last newer ones.
Recent(payloads, first, last) ==
    {p \in payloads : Cardinality({q \in payloads : q.date > p.date}) \in first..(last - 1)}

\* _revenue_growth_ttm: the last Quarter periods against the Quarter before them.
Trailing(v, history, m) ==
    LET all  == {p \in history : p.type = v.type} \cup {v}
        now  == Recent(all, 0, Quarter)
        then == Recent(all, Quarter, 2 * Quarter)
    IN  IF Cardinality(all) < 2 * Quarter THEN Missing
        ELSE IF \E p \in now \cup then : ~Has(p, m) THEN Missing
        ELSE Divide(SumOver(now, m) - SumOver(then, m), SumOver(then, m))

Ratio(v, num, den) == Divide(v.payload[num], v.payload[den])

OrZero(v, m) == IF Has(v, m) THEN v.payload[m] ELSE 0

NetDebt(v) == MapThenSumSet(LAMBDA m : OrZero(v, m), Debt) - OrZero(v, "CASH")

HasEbit(v) == {"INCOME_BEFORE_TAX", "INTEREST_EXPENSE", "INTEREST_INCOME"} \subseteq DOMAIN v.payload
Ebit(v) == v.payload.INCOME_BEFORE_TAX + v.payload.INTEREST_EXPENSE - v.payload.INTEREST_INCOME

\* EBIT * (1 - tax rate), over INCOME_BEFORE_TAX.
NopatTimesIncome(v) == Ebit(v) * (v.payload.INCOME_BEFORE_TAX - v.payload.INCOME_TAX_EXPENSE)

Unlevered(v) ==
    LET income == v.payload.INCOME_BEFORE_TAX
    IN  IF ~HasEbit(v) THEN Missing
        ELSE Divide(NopatTimesIncome(v) + (v.payload.DA + v.payload.CAPEX) * income, income)

ReturnOnCapital(v) ==
    Divide(NopatTimesIncome(v), v.payload.INCOME_BEFORE_TAX * (v.payload.TOTAL_EQUITY + NetDebt(v)))

Formula(name, v, history) ==
    CASE name = "GROSS_MARGIN"       -> Ratio(v, "GROSS_PROFIT", "REVENUE")
      [] name = "OPERATING_MARGIN"   -> Ratio(v, "OPERATING_INCOME", "REVENUE")
      [] name = "NET_MARGIN"         -> Ratio(v, "NET_INCOME", "REVENUE")
      [] name = "REVENUE_GROWTH_YOY" -> Growth(v, Prior(v, history, 1), "REVENUE")
      [] name = "REVENUE_GROWTH_QOQ" -> Growth(v, Previous(v, history), "REVENUE")
      [] name = "REVENUE_GROWTH_TTM" -> Trailing(v, history, "REVENUE")
      [] name = "EPS_DILUTED_GROWTH" -> Growth(v, Prior(v, history, 1), "DILUTED_EPS")
      [] name = "EBITDA"             -> Value(v.payload.OPERATING_INCOME + v.payload.DA, 1)
      [] name = "EBIT"               -> Value(Ebit(v), 1)
      [] name = "LEVERED_FREE_CASH_FLOW" ->
           Value(IF Has(v, "FREE_CASH_FLOW") THEN v.payload.FREE_CASH_FLOW
                 ELSE v.payload.CFO + v.payload.CAPEX, 1)
      [] name = "UNLEVERED_FREE_CASH_FLOW" -> Unlevered(v)
      [] name = "WORKING_CAPITAL"    -> Value(v.payload.CURRENT_ASSETS - v.payload.CURRENT_LIABILITIES, 1)
      [] name = "DEBT_TO_EQUITY"     -> Divide(NetDebt(v), v.payload.TOTAL_EQUITY)
      [] name = "INTEREST_COVERAGE"  -> Divide(Ebit(v), v.payload.INTEREST_EXPENSE)
      [] name = "ROE"                -> Ratio(v, "NET_INCOME", "TOTAL_EQUITY")
      [] name = "ROA"                -> Ratio(v, "NET_INCOME", "TOTAL_ASSETS")
      [] name = "ROIC"               -> ReturnOnCapital(v)

\* _compute_metric: the type, the required inputs, the length of the history, then
\* the formula.
ComputeMetric(name, v, history) ==
    LET spec == Specs[name]
    IN  IF \/ v.type \notin spec.types
           \/ ~(spec.inputs \subseteq DOMAIN v.payload)
           \/ Cardinality(history) < spec.history
        THEN Missing
        ELSE Formula(name, v, history)

-----------------------------------------------------------------------------
(* The series of a set of versions, at most one of a date.                 *)

HistoryOfPoints(versions, v, names) ==  \* mutant: a payload that makes no point is not kept
    {p \in versions : p.date < v.date /\ \E name \in names : IsValue(ComputeMetric(name, p, {}))}

\* What a point can look back at: all payloads before it, those that make no point too.
HistoryOf(versions, v, names) == {p \in versions : p.date < v.date}

\* A point of the derived series: the version and the requested metrics that have a value.
Point(versions, v, names) ==
    LET results == {<<name, ComputeMetric(name, v, HistoryOf(versions, v, names))>> : name \in names}
    IN  [version |-> v, values |-> {r \in results : IsValue(r[2])}]

\* A payload none of whose metrics has a value makes no point.
PointsOf(versions, names) ==
    {point \in {Point(versions, v, names) : v \in versions} : point.values # {}}

\* Without a choice of metrics all of them are computed.
Points(versions) == PointsOf(versions, DOMAIN Specs)

\* build_fundamentals_timeseries: a point for every payload.
Fundamentals(versions) == {[version |-> v, values |-> v.payload] : v \in versions}
=============================================================================
