---------------------------- MODULE StatementRoutes ----------------------------
(***************************************************************************)
(* What a client is answered about a listing: the routes of edgar_router,  *)
(* over EdgarController and EdgarPresenter, and of fundamentals_router,    *)
(* over the functions of fundamentals_presenter.  The two routers use the  *)
(* same queries and disagree in what they check first, in the status of an *)
(* error and in how they build a body.                                     *)
(*                                                                         *)
(* The EDGAR routes are those of a controller put in for                   *)
(* get_edgar_controller, which by itself only raises NotImplementedError.  *)
(* Parameters are well-formed: FastAPI and the first lines of each handler *)
(* turn others away.  Order within a body is left out.                     *)
(***************************************************************************)
EXTENDS Restatements, DerivedSeries

Answer(body)    == [status |-> 200, body |-> body]
Refusal(status) == [status |-> status, body |-> None]

\* The except clauses of every handler of a router.
EdgarStatus        == [Mapping |-> 500, Ingestion |-> 502, Other |-> 503]
FundamentalsStatus == [Mapping |-> 400, Ingestion |-> 502, Other |-> 500]

\* A figure as a str and as a Decimal.
Text(n)    == IF n = None THEN None ELSE [text |-> n]
Decimal(n) == [decimal |-> n]

TextOrNone == [text : Int] \cup {None}

ASSUME FiguresAssumption ==
    /\ None \notin [text : Int] \cup [decimal : Int]
    /\ \A name \in DOMAIN Specs : {name} # None

\* Strict: a Decimal is not taken for a str.
RestatementMetricDeltaDTO ==
    [metric : Metrics, old_value : TextOrNone, new_value : TextOrNone, diff : TextOrNone]

Summary(compared, changed) ==
    [total_metrics_compared |-> compared, total_metrics_changed |-> changed,
     has_material_change |-> changed > 0]

-----------------------------------------------------------------------------
(* The restatement delta of two versions: compute_restatement_delta behind *)
(* both routes.                                                            *)

ComputeError(list, from, to) ==
    IF from >= to THEN "Mapping"
    ELSE IF \/ ~({from, to} \subseteq {v.seq : v \in ToSet(list)})
            \/ ~Normalized(BySequence(list, from)) \/ ~Normalized(BySequence(list, to))
    THEN "Ingestion"
    ELSE "Mapping"  \* two statements

\* The bodies of edgar_schemas.
RestatementMetricDeltaHTTP == RestatementMetricDeltaDTO
RestatementSummaryHTTP ==
    [total_metrics_compared : Nat, total_metrics_changed : Nat, has_material_change : BOOLEAN]
RestatementDeltaHTTP ==
    [from : Positions, to : Positions, summary : RestatementSummaryHTTP,
     metrics : SUBSET RestatementMetricDeltaHTTP]
RestatementLedgerEntryHTTP ==
    [from : Positions, to : Positions, summary : RestatementSummaryHTTP,
     deltas : SUBSET RestatementMetricDeltaHTTP]
RestatementLedgerHTTP == [total_hops : Nat, entries : Seq(RestatementLedgerEntryHTTP)]
RestatementMetricTimelineHTTP ==
    [by_metric : SUBSET SUBSET (Nat \X [text : Int]), restatement_frequency : SUBSET Nat,
     per_metric_max_delta : SUBSET [text : Int], timeline_severity : {"NONE", "LOW", "MEDIUM", "HIGH"}]

\* A body that is none of its schema is an error inside the route.
BuiltAs(body, schema) == IF body \in schema THEN Answer(body) ELSE Refusal(EdgarStatus.Other)

DeltaLines(from, to, form) ==
    LET changes == Delta(from, to)
        Show(n) == IF form = "str" THEN Text(n) ELSE Decimal(n)
    IN  {[metric |-> m, old_value |-> Show(from.payload[m]), new_value |-> Show(to.payload[m]),
          diff |-> Show(changes[m])] : m \in DOMAIN changes}

SwappedDelta(list, from, to) ==  \* mutant: the versions are taken in the wrong order
    LET lines   == DeltaLines(BySequence(list, to), BySequence(list, from), "str")
        changed == {line \in lines : line.diff \notin {None, Text(0)}}
    IN  [from |-> from, to |-> to, deltas |-> lines,
         summary |-> Summary(Cardinality(lines), Cardinality(changed))]

\* EdgarController.compute_restatement_delta: strings, and a summary counted again.
EdgarDelta(list, from, to) ==
    LET lines   == DeltaLines(BySequence(list, from), BySequence(list, to), "str")
        changed == {line \in lines : line.diff \notin {None, Text(0)}}
    IN  [from |-> from, to |-> to, deltas |-> lines,
         summary |-> Summary(Cardinality(lines), Cardinality(changed))]

\* EdgarPresenter.present_restatement_delta: the dto, line by line.
DeltaBody(dto) == [from |-> dto.from, to |-> dto.to, summary |-> dto.summary, metrics |-> dto.deltas]

\* GET /v1/edgar/statements/restatements/delta.
EdgarDeltaRoute(list, from, to) ==
    IF from > to THEN Refusal(400)
    ELSE IF ComputeAnswers(list, from, to) THEN BuiltAs(DeltaBody(EdgarDelta(list, from, to)), RestatementDeltaHTTP)
    ELSE Refusal(EdgarStatus[ComputeError(list, from, to)])

\* fundamentals_presenter.present_restatement_delta: Decimals, where the dto wants
\* strings.
FundamentalsDelta(list, from, to) ==
    LET lines == DeltaLines(BySequence(list, from), BySequence(list, to), "Decimal")
    IN  [from |-> from, to |-> to, deltas |-> lines,
         summary |-> Summary(Cardinality(lines), Cardinality(lines))]

\* GET /v1/fundamentals/restatement-delta.
FundamentalsDeltaRoute(list, from, to) ==
    LET dto == FundamentalsDelta(list, from, to)
    IN  IF from >= to THEN Refusal(400)
        ELSE IF ~ComputeAnswers(list, from, to)
        THEN Refusal(FundamentalsStatus[ComputeError(list, from, to)])
        ELSE IF dto.deltas \subseteq RestatementMetricDeltaDTO THEN Answer(DeltaBody(dto))
        ELSE Refusal(FundamentalsStatus.Other)

-----------------------------------------------------------------------------
(* The ledger and the timeline, on the EDGAR router only.                  *)

ValueOf(v, m) == IF Has(v, m) THEN Text(v.payload[m]) ELSE None

\* EdgarController.get_restatement_ledger: an entry of the use case, with a line for
\* every metric compared.
LedgerEntryDTO(from, to) ==
    LET entry == Entry(from, to)
    IN  [from |-> entry.from, to |-> entry.to,
         summary |-> Summary(entry.compared, entry.changed),
         deltas  |-> {[metric |-> m, old_value |-> ValueOf(from, m), new_value |-> ValueOf(to, m),
                       diff |-> Text(entry.diffs[m])] : m \in DOMAIN entry.diffs}]

\* EdgarPresenter.present_restatement_ledger; entries are in order already.
LedgerBody(list) ==
    LET versions == NormalizedOf(list)
        hops     == Len(versions) - 1
    IN  [total_hops |-> hops,
         entries    |-> [i \in 1..hops |-> LedgerEntryDTO(versions[i], versions[i + 1])]]

\* GET /v1/edgar/statements/restatements/ledger.
EdgarLedgerRoute(list) ==
    IF LedgerAnswers(list) THEN BuiltAs(LedgerBody(list), RestatementLedgerHTTP)
    ELSE Refusal(EdgarStatus.Ingestion)

\* EdgarPresenter.present_restatement_timeline: the hops of each metric, as strings.
TimelineBody(list) ==
    LET timeline == Timeline(list)
    IN  [by_metric |-> [m \in DOMAIN timeline.byMetric |->
                          {<<hop[1], Text(hop[2])>> : hop \in timeline.byMetric[m]}],
         restatement_frequency |-> timeline.frequency,
         per_metric_max_delta  |-> [m \in DOMAIN timeline.most |-> Text(timeline.most[m])],
         timeline_severity     |-> timeline.severity]

\* GET /v1/edgar/companies/{cik}/statements/restatement-timeline.
EdgarTimelineRoute(list) ==
    IF TimelineAnswers(list) THEN
        LET body == TimelineBody(list)
        IN  IF [f \in DOMAIN body |-> IF f = "timeline_severity" THEN body[f] ELSE Range(body[f])]
                    \in RestatementMetricTimelineHTTP
            THEN Answer(body) ELSE Refusal(EdgarStatus.Other)
    ELSE Refusal(IF LedgerAnswers(list) THEN EdgarStatus.Mapping ELSE EdgarStatus.Ingestion)

-----------------------------------------------------------------------------
(* The time series.                                                        *)

\* The points that have at least first and fewer than last earlier ones.
Slice(points, first, last) ==
    {p \in points :
        Cardinality({q \in points : q.version.date < p.version.date}) \in first..(last - 1)}

PageFromZero(points, page, size) ==  \* mutant: the first page is page 0
    Slice(points, page * size, (page + 1) * size)

\* present_fundamentals_time_series and present_derived_time_series: a slice of the
\* whole series, which the use case builds anew for every page.
Page(points, page, size) == Slice(points, (page - 1) * size, page * size)

\* metric_views: the bundles of metrics, of which there is one.
MetricViews ==
    [core_fundamentals |->
        {"GROSS_MARGIN", "OPERATING_MARGIN", "NET_MARGIN", "REVENUE_GROWTH_YOY", "REVENUE_GROWTH_QOQ",
         "REVENUE_GROWTH_TTM", "EPS_DILUTED_GROWTH", "EBITDA", "EBIT", "LEVERED_FREE_CASH_FLOW",
         "UNLEVERED_FREE_CASH_FLOW", "WORKING_CAPITAL", "DEBT_TO_EQUITY", "INTEREST_COVERAGE",
         "ROE", "ROA", "ROIC"}]

\* EdgarController.get_derived_metrics_timeseries: by metrics, by bundle, or all.
EdgarPoints(versions, metrics, bundle) ==
    PointsOf(versions,
             IF bundle # None THEN MetricViews[bundle]
             ELSE IF metrics # None THEN metrics ELSE DOMAIN Specs)

\* GET /v1/edgar/derived-metrics/time-series: all points, no pages.
EdgarSeriesRoute(versions, metrics) == Answer(EdgarPoints(versions, metrics, None))

\* GET /v1/views/metrics: the bundles there are.
ViewsRoute == Answer({[code |-> bundle, metrics |-> MetricViews[bundle]] : bundle \in DOMAIN MetricViews})

\* GET /v1/views/metrics/{bundle_code}: the series of a bundle; metrics may not be named
\* as well.
ViewRoute(versions, bundle, metrics) ==
    IF metrics # None \/ bundle \notin DOMAIN MetricViews THEN Refusal(400)
    ELSE Answer(EdgarPoints(versions, None, bundle))

\* EdgarPresenter.present_derived_metrics_catalog: what the engine says of its metrics.
Catalog ==
    [name \in DOMAIN Specs |->
        [required_statement_types |-> Specs[name].types, required_inputs |-> Specs[name].inputs,
         history_periods |-> Specs[name].history]]

\* GET /v1/edgar/derived-metrics/catalog.
CatalogRoute == Answer(Catalog)

-----------------------------------------------------------------------------

\* The fundamentals point that a growth figure of a point compares with, if any.
Before(series, point, name) ==
    LET earlier == {p \in series :
            /\ p.version.date < point.version.date
            /\ name # "REVENUE_GROWTH_QOQ" => Year(p.version) = Year(point.version) - 1}
    IN  {p \in earlier : \A q \in earlier : q.version.date <= p.version.date}

\* What a figure says about the fundamentals series of the same payloads, and about
\* the other figures of its point.
SaysOf(series, point, name, result) ==
    LET m     == CHOOSE n \in Specs[name].inputs : TRUE
        here  == point.version.payload
        upTo  == {p \in series : p.version.date <= point.version.date}
        n     == Cardinality(upTo)
        Sum(points) == SumOver({[p.version EXCEPT !.payload = p.values] : p \in points}, m)
        Of(other) == CHOOSE r \in {x[2] : x \in {y \in point.values : y[1] = other}} : TRUE
        Computed  == {x[1] : x \in point.values}
    IN  CASE name \in {"REVENUE_GROWTH_YOY", "REVENUE_GROWTH_QOQ", "EPS_DILUTED_GROWTH"} ->
               \E prior \in Before(series, point, name) :
                  result = Value(here[m] - prior.values[m], prior.values[m])
          [] name = "REVENUE_GROWTH_TTM" ->
               /\ n >= 2 * Quarter
               /\ result.den = Sum(Slice(upTo, n - 2 * Quarter, n - Quarter))
               /\ result.num = Sum(Slice(upTo, n - Quarter, n)) - result.den
          [] name = "ROIC" /\ "UNLEVERED_FREE_CASH_FLOW" \in Computed ->
               LET free == Of("UNLEVERED_FREE_CASH_FLOW")
               IN  result.num = free.num - (here.DA + here.CAPEX) * free.den
          [] name = "INTEREST_COVERAGE" ->
               "EBIT" \in Computed /\ result.num = Of("EBIT").num
          [] OTHER -> TRUE

\* What the catalog says of a metric covers its formula: what passes the checks of type,
\* inputs and history fails only for a zero denominator, for a year before that is not
\* there or lacks the metric, or for the interest that UNLEVERED_FREE_CASH_FLOW leaves
\* to its formula.
SpecsSuffice(versions) ==
    \A v \in versions, name \in DOMAIN Specs :
        (/\ v.type \in CatalogRoute.body[name].required_statement_types
         /\ CatalogRoute.body[name].required_inputs \subseteq DOMAIN v.payload
         /\ ComputeMetric(name, v, HistoryOf(versions, v, DOMAIN Specs)) = Missing)
        => \/ CatalogRoute.body[name].history_periods > 0
           \/ name = "UNLEVERED_FREE_CASH_FLOW" /\ ~HasEbit(v)

\* A series of one metric of the catalog is that metric's part of the series of all; the
\* series of a bundle that is listed has what is listed for it, which for the one there
\* is is all.  Each growth figure compares with the point it should: the last of the year
\* before, the one before, or the two windows side by side; figures made of the same
\* parts agree, none divides by zero, and none is missing whose inputs are there.  Pages
\* of any size are together what EDGAR answers in one.
SeriesAgree(versions) ==
    LET whole  == EdgarSeriesRoute(versions, None)
        points == Points(versions)
        Dated(name, body) ==
            UNION {{<<p.version, r[2]>> : r \in {r \in p.values : r[1] = name}} : p \in body}
    IN  /\ \A view \in ViewsRoute.body :
             /\ view.metrics \subseteq DOMAIN CatalogRoute.body
             /\ ViewRoute(versions, view.code, None) = whole
        /\ \A name \in DOMAIN CatalogRoute.body :
             Dated(name, EdgarSeriesRoute(versions, {name}).body) = Dated(name, whole.body)
        /\ \A point \in points : \A x \in point.values :
             x[2].den # 0 /\ SaysOf(Fundamentals(versions), point, x[1], x[2])
        /\ SpecsSuffice(versions)
        /\ \A size \in 1..2 :
             LET pages == {Page(points, n, size) : n \in 1..Cardinality(points)}
             IN  /\ UNION pages = whole.body
                 /\ \A page \in pages : Cardinality(page) <= size

\* The routes of one listing answer alike.  Where fundamentals answers a delta, EDGAR
\* answers the same one, and fundamentals answers all of those in which nothing
\* changed and no other (a change makes it fail: its presenter gives Decimals for
\* strings); both have 502 for the same requests, and what EDGAR finds invalid
\* fundamentals does.  An answered timeline has an answered ledger, every hop of it
\* restates in the timeline what its entry restates, and an entry between two
\* versions with sequences of their own has the summary and the changed lines of
\* their delta.
RoutesAgree(list) ==
    LET ledger   == EdgarLedgerRoute(list)
        timeline == EdgarTimelineRoute(list)
        Alone(seq) == Cardinality({i \in 1..Len(list) : list[i].seq = seq}) = 1
        Changed(lines) == {line \in lines : line.diff \notin {None, Text(0)}}
    IN  /\ \A from, to \in Positions :
             LET edgar == EdgarDeltaRoute(list, from, to)
                 fundamentals == FundamentalsDeltaRoute(list, from, to)
             IN  /\ fundamentals.status = 200 => fundamentals = edgar
                 /\ edgar.status = 200 =>
                      fundamentals.status = IF edgar.body.summary.has_material_change THEN 500 ELSE 200
                 /\ (edgar.status = 502) <=> (fundamentals.status = 502)
                 /\ edgar.status = 400 => fundamentals.status = 400
        /\ timeline.status = 200 => ledger.status = 200
        /\ ledger.status = 200 =>
             \A i \in 1..ledger.body.total_hops :
                LET entry == ledger.body.entries[i]
                    delta == EdgarDeltaRoute(list, entry.from, entry.to)
                    RestatedAt(m) == {hop[1] : hop \in timeline.body.by_metric[m]}
                IN  /\ Alone(entry.from) /\ Alone(entry.to) /\ delta.status = 200 =>
                         /\ delta.body.metrics = Changed(entry.deltas)
                         /\ delta.body.summary.total_metrics_changed = entry.summary.total_metrics_changed
                         /\ delta.body.summary.has_material_change = entry.summary.has_material_change
                    /\ timeline.status = 200 =>
                         {line.metric : line \in Changed(entry.deltas)} =
                           {m \in DOMAIN timeline.body.by_metric : i \in RestatedAt(m)}
=============================================================================
