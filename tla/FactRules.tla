------------------------------ MODULE FactRules ------------------------------
(***************************************************************************)
(* Two judges of one statement that share no code.  FactDQEngine.evaluate  *)
(* judges its normalized facts, one by one, against listed facts of the    *)
(* past; evaluate_statement_quality judges its core metrics as a whole,    *)
(* against the statement before it.                                        *)
(***************************************************************************)
EXTENDS Integers, FiniteSets, Sequences, SequencesExt

CONSTANTS
    Metrics,         \* metric codes
    Values,          \* of facts
    Dimensions,      \* dimension keys, numbers in their order; 1 is the whole company
    Places,          \* where facts of the past are: <<statement_date, version_sequence, dimension>>
    RequiredOf,      \* metrics a statement needs, by its type
    KeyMetrics,      \* FactDQConfig: metrics that have to be there
    NonNegative,     \* FactDQConfig: metrics that should not be negative
    Multiplier,      \* FactDQConfig.history_outlier_multiplier
    MinObservations, \* FactDQConfig.history_min_observations
    Volatile,        \* metrics whose growth is looked at
    MaxNow,          \* bound: facts of the statement
    MaxPast,         \* bound: facts of the past
    None

\* Assumed of the constants, and checked where they are given.
FactRulesAssumption ==
    /\ Values \subseteq Int
    /\ Dimensions \subseteq Nat /\ 1 \in Dimensions
    /\ \A p \in Places : p \in Nat \X Nat \X Dimensions
    /\ \A t \in DOMAIN RequiredOf : RequiredOf[t] \subseteq Metrics
    /\ KeyMetrics \cup NonNegative \cup Volatile \subseteq Metrics
    /\ MinObservations \in Nat \ {0}
    /\ {MaxNow, MaxPast} \subseteq Nat

\* Assumed where the judges are compared, and true of FactDQConfig's defaults: key metrics
\* are metrics an income statement needs, and what outgrew its past did so by a factor
\* that the other judge looks at.
ConfigsMatch ==
    /\ "INCOME_STATEMENT" \in DOMAIN RequiredOf => KeyMetrics \subseteq RequiredOf["INCOME_STATEMENT"]
    /\ Multiplier \in Nat /\ Multiplier >= 3

\* EdgarNormalizedFact, of the statement and of the past.
NowFact  == [metric : Metrics, dimension : Dimensions, value : Values]
PastFact == [metric : Metrics, place : Places, value : Values]

VARIABLES
    type,     \* type of the statement
    now,      \* its facts, at most one of a metric and a dimension
    past,     \* the history, in the order listed
    judged    \* what the judges found, None before

case == <<type, now, past, judged>>

TypeOK ==
    /\ type \in DOMAIN RequiredOf
    /\ now \subseteq NowFact /\ Cardinality(now) <= MaxNow
    /\ past \in BoundedSeq(PastFact, MaxPast)

Init ==
    /\ type \in DOMAIN RequiredOf
    /\ now = {}
    /\ past = <<>>
    /\ judged = None

-----------------------------------------------------------------------------
(* FactDQEngine.                                                           *)

Earlier(p, q) ==
    \/ p[1] < q[1]
    \/ p[1] = q[1] /\ p[2] < q[2]
    \/ p[1] = q[1] /\ p[2] = q[2] /\ p[3] < q[3]

\* Where the history has facts of the metric.
HistoryOf(m, list) == {i \in DOMAIN list : list[i].metric = m}

LastListed(m, list) ==  \* mutant: the index is not sorted
    list[CHOOSE i \in HistoryOf(m, list) : \A j \in HistoryOf(m, list) : j <= i]

\* The last fact of the metric's sorted history, whichever dimension it is of.
LastOf(m, list) ==
    LET own == {list[i] : i \in HistoryOf(m, list)}
    IN  CHOOSE f \in own : \A g \in own : ~Earlier(f.place, g.place)

\* The ratio of the values exceeds the multiplier; there is none to zero.
Outgrows(value, last) ==
    \/ last > 0 /\ value > Multiplier * last
    \/ last < 0 /\ value < Multiplier * last

\* Anomalies that name no dimension are of no fact.
Missing(facts) ==
    {[metric |-> m, dimension |-> None, rule |-> "MISSING_KEY_METRIC", severity |-> "HIGH"] :
        m \in KeyMetrics \ {f.metric : f \in facts}}

About(f, rule, severity) ==
    [metric |-> f.metric, dimension |-> f.dimension, rule |-> rule, severity |-> severity]

\* _evaluate_fact_rules.
FactAnomalies(f, list) ==
    {a \in {About(f, "NEGATIVE_VALUE", "HIGH")} : f.metric \in NonNegative /\ f.value < 0}
    \cup
    {a \in {About(f, "HISTORY_OUTLIER_HIGH", "MEDIUM")} :
        /\ Cardinality(HistoryOf(f.metric, list)) >= MinObservations
        /\ Outgrows(f.value, LastOf(f.metric, list).value)}

AnomaliesOf(facts, list) == Missing(facts) \cup UNION {FactAnomalies(f, list) : f \in facts}

\* _build_fact_quality.  Severities are compared as strings and none exceeds "NONE".
FactQuality(f, anomalies) ==
    LET own == {a \in anomalies : a.metric = f.metric /\ a.dimension = f.dimension}
    IN  [metric |-> f.metric, dimension |-> f.dimension, severity |-> "NONE",
         is_non_negative |-> IF \E a \in own : a.rule = "NEGATIVE_VALUE" THEN "false" ELSE "null",
         is_consistent_with_history |->
             IF \E a \in own : a.rule = "HISTORY_OUTLIER_HIGH" THEN "false" ELSE "null",
         has_known_issue |-> own # {}]

-----------------------------------------------------------------------------
(* evaluate_statement_quality.                                             *)

\* CanonicalStatementPayload.core_metrics, of the statement and of the one before it:
\* what their facts about the whole company say.
Core(facts) == {f \in facts : f.dimension = 1}

Before(list) ==
    LET whole == {f \in ToSet(list) : f.place[3] = 1}
        newest == {f \in whole : \A g \in whole : ~Earlier(f.place, g.place)}
    IN  {[metric |-> f.metric, dimension |-> 1, value |-> f.value] : f \in newest}

Issue(code, severity, about) == [code |-> code, severity |-> severity, about |-> about]

AllMissing(core) ==  \* mutant: an issue only when every required metric is missing
    {i \in {Issue("MISSING_CORE_METRICS", "ERROR", {})} :
        RequiredOf[type] \cap {f.metric : f \in core} = {}}

\* _check_core_metric_presence.
MissingCore(core) ==
    {i \in {Issue("MISSING_CORE_METRICS", "ERROR", {})} :
        ~(RequiredOf[type] \subseteq {f.metric : f \in core})}

\* _check_basic_signs.
BadSigns(core) ==
    {Issue(IF f.metric = "REVENUE" THEN "NEGATIVE_REVENUE" ELSE "NEGATIVE_TOTAL_ASSETS",
           IF f.metric = "REVENUE" THEN "WARNING" ELSE "ERROR", {f.metric}) :
        f \in {g \in core : g.metric \in {"REVENUE", "TOTAL_ASSETS"} /\ g.value < 0}}

Distance(a, b) == IF a < b THEN b - a ELSE a - b

\* _check_growth_volatility: a change of twice the previous value or more.
Swings(core, before) ==
    {Issue("EXTREME_VOLATILITY", "WARNING", {f.metric}) :
        f \in {g \in core : g.metric \in Volatile /\ \E b \in before :
                  b.metric = g.metric /\ b.value # 0
                  /\ Distance(g.value, b.value) >= 2 * Distance(b.value, 0)}}

\* _check_currency_consistency.
OtherCurrency(differs) == {i \in {Issue("CURRENCY_MISMATCH", "WARNING", {})} : differs}

\* evaluate_statement_quality; compares when the caller passes a payload from before.
Issues(core, compare, before, differs) ==
    MissingCore(core) \cup BadSigns(core)
    \cup IF compare THEN OtherCurrency(differs) \cup Swings(core, before) ELSE {}

\* _compute_score, of at most seven issues.
Score(issues) ==
    LET errors   == {i \in issues : i.severity = "ERROR"}
        warnings == {i \in issues : i.severity = "WARNING"}
        lost     == 20 * Cardinality(errors) + 10 * Cardinality(warnings)
    IN  IF lost > 100 THEN 0 ELSE 100 - lost

ModelingSafe(issues) == (\A i \in issues : i.severity # "ERROR") /\ Score(issues) >= 80

-----------------------------------------------------------------------------

\* A fact of the statement is stored.
AddFact ==
    /\ judged = None
    /\ Cardinality(now) < MaxNow
    /\ \E f \in NowFact :
         /\ \A g \in now : g.metric # f.metric \/ g.dimension # f.dimension
         /\ now' = now \cup {f}
    /\ UNCHANGED <<type, past, judged>>

\* The caller lists a fact of the past, in no order.  Bound: of a metric the statement
\* has; facts of others are looked at by neither judge.
AddPast ==
    /\ judged = None
    /\ Len(past) < MaxPast
    /\ \E f \in PastFact :
         /\ f.metric \in {g.metric : g \in now}
         /\ \A g \in ToSet(past) : g.metric # f.metric \/ g.place # f.place
         /\ past' = Append(past, f)
    /\ UNCHANGED <<type, now, judged>>

\* FactDQEngine.evaluate and evaluate_statement_quality.
Evaluate ==
    /\ judged = None
    /\ now # {}
    /\ \E compare, differs \in BOOLEAN :
         LET anomalies == AnomaliesOf(now, past)
             issues    == Issues(Core(now), compare, Before(past), differs)
         IN  judged' = [anomalies |-> anomalies,
                        quality   |-> {FactQuality(f, anomalies) : f \in now},
                        compared  |-> compare,
                        issues    |-> issues,
                        safe      |-> ModelingSafe(issues)]
    /\ UNCHANGED <<type, now, past>>

\* The caller has the results; neither judge keeps anything.
Return ==
    /\ judged # None
    /\ judged' = None
    /\ UNCHANGED <<type, now, past>>

Next == AddFact \/ AddPast \/ Evaluate \/ Return

Spec == Init /\ [][Next]_case

-----------------------------------------------------------------------------
(* Properties.                                                             *)

\* What the judges say of a statement stands.  The order in which the past is listed
\* changes no anomaly.  A fact's row says that it has an issue exactly when an
\* anomaly is about it, and every anomaly about a fact is told by its row.  And
\* the two judges do not contradict each other about an income statement: when the one
\* misses a key metric the other calls it unsafe to model, and a metric of the
\* whole company, whose growth both look at, that outgrew the statement before it
\* is volatile to the other.
JudgesAgree ==
    judged # None =>
        /\ \A list \in SetToSeqs(ToSet(past)) : AnomaliesOf(now, list) = judged.anomalies
        /\ \A row \in judged.quality :
             row.has_known_issue <=>
                 \E a \in judged.anomalies : a.metric = row.metric /\ a.dimension = row.dimension
        /\ \A a \in judged.anomalies : a.dimension = None \/
             \E row \in judged.quality : row.metric = a.metric /\ row.dimension = a.dimension
                                         /\ "false" \in {row.is_non_negative, row.is_consistent_with_history}
        /\ type = "INCOME_STATEMENT" =>
             /\ (\E a \in judged.anomalies : a.rule = "MISSING_KEY_METRIC") => ~judged.safe
             /\ \A a \in judged.anomalies :
                  /\ judged.compared /\ a.rule = "HISTORY_OUTLIER_HIGH"
                  /\ a.dimension = 1 /\ a.metric \in Volatile
                  /\ \E b \in Before(past) : b.metric = a.metric /\ b.value = LastOf(a.metric, past).value
                  => \E i \in judged.issues : i.code = "EXTREME_VOLATILITY" /\ a.metric \in i.about
=============================================================================
