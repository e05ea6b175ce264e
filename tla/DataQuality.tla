----------------------------- MODULE DataQuality -----------------------------
(***************************************************************************)
(* Data quality of normalized statements: run_statement_dq judges the      *)
(* facts of a statement and stores a run, get_statement_with_dq_overlay    *)
(* reads a statement with the verdicts on it.  Tables:                     *)
(* edgar_normalized_facts, edgar_dq_runs, edgar_fact_quality,              *)
(* edgar_dq_anomalies.                                                     *)
(*                                                                         *)
(* A job is one call of a use case on a session of its own, READ           *)
(* COMMITTED: each query sees what is committed when it runs, and facts    *)
(* may be replaced, and runs committed, between any two queries.           *)
(*                                                                         *)
(* Statements are the identities of one company and statement type.  Rows  *)
(* of statement_versions may share one: they differ in statement_date.     *)
(* Every repository call finds anew which row an identity stands for, the  *)
(* one with the lowest statement_version_id, and another may have been     *)
(* stored since the last.  A row has at most one fact of a metric.         *)
(***************************************************************************)
EXTENDS Integers, FiniteSets, Sequences, FiniteSetsExt, SequencesExt

CONSTANTS
    Jobs,         \* use cases that may be under way at once
    Statements,   \* identities of statements
    Uuids,        \* statement_version_ids, numbers since they are compared
    Identity,     \* of the row with an id
    ByDate,       \* Uuids in the order (statement_date, version_sequence)
    Metrics,      \* metric codes, numbers in the order of the codes
    Values,       \* values of facts
    None,         \* no fact, no row
    Payloads,     \* facts a statement can be given, by metric
    Lookbacks,    \* history_lookback a request may name
    AnomalyLimit, \* limit of list_anomalies_for_run
    MaxReplaced,  \* bound: replacements of the facts of a statement
    MaxRuns       \* bound: runs that are stamped

\* Assumed of the constants, and checked where they are given.
QualityAssumption ==
    /\ IsFiniteSet(Jobs)
    /\ Uuids \subseteq Nat /\ None \notin Uuids
    /\ Identity \in [Uuids -> Statements]
    /\ ByDate \in Seq(Uuids)
    /\ IsFiniteSet(Metrics) /\ Metrics \subseteq Nat
    /\ Values \subseteq Int /\ None \notin Values
    /\ Payloads \subseteq [Metrics -> Values \cup {None}]
    /\ Lookbacks \subseteq Nat \ {0}
    /\ AnomalyLimit \in Nat \ {0}
    /\ MaxReplaced \in Nat
    /\ MaxRuns \in Nat

Payload == [Metrics -> Values \cup {None}]
NoFacts == [m \in Metrics |-> None]

\* EdgarFactQuality: is_non_negative, is_consistent_with_history, severity.
Row == [metric : Metrics, nonNegative : BOOLEAN,
        consistent : {"true", "false", "null"}, severity : {"NONE", "LOW", "MEDIUM"}]

\* EdgarDQAnomaly; the severity of a rule is fixed.
Anomaly == [metric : Metrics, rule : {"NON_NEGATIVE", "HISTORY_SPIKE"}]
SeverityOf(anomaly) == IF anomaly.rule = "HISTORY_SPIKE" THEN "MEDIUM" ELSE "LOW"

Run == [id : Nat, statement : Statements, version : Uuids, rows : SUBSET Row,
        anomalies : SUBSET Anomaly]
NoRun == [id |-> 0, rows |-> {}, anomalies |-> {}]

VARIABLES
    stored,    \* ids of the rows of statement_versions
    facts,     \* committed facts by row and metric
    runs,      \* committed runs with their rows and anomalies
    stamped,   \* clock of executed_at
    replaced,  \* replacements of facts so far
    job        \* by job: a record of what the use case holds, Idle when there is none

vars == <<stored, facts, runs, stamped, replaced, job>>

Idle == [pc |-> "idle"]

\* run_statement_dq: the facts read at the start, verdicts and anomalies so far,
\* executed_at, the row the run is of; history: payloads the statement has had since
\* the call.
Judging == [pc : {"judging", "storing"}, stmt : Statements, lookback : Lookbacks, read : Payload,
            rows : SUBSET Row, found : SUBSET Anomaly, stamp : 0..MaxRuns,
            version : Uuids \cup {None}, had : SUBSET Payload]

\* get_statement_with_dq_overlay: the row whose latest run is asked for, the run named
\* in the answer, the quality rows read, the run whose anomalies are listed, these;
\* history: runs of the statement committed before the call.
Reading == [pc : {"run", "quality", "newest", "listing", "answered"}, stmt : Statements,
            version : Uuids \cup {None}, header : runs \cup {NoRun}, rows : SUBSET Row,
            latest : runs \cup {NoRun}, found : SUBSET Anomaly, earlier : SUBSET runs]

TypeOK ==
    /\ stored \subseteq Uuids
    /\ facts \in [Uuids -> Payload]
    /\ runs \subseteq Run
    /\ stamped \in 0..MaxRuns
    /\ replaced \in 0..MaxReplaced
    /\ \A j \in Jobs : job[j] = Idle \/ job[j] \in Judging \/ job[j] \in Reading

Init ==
    /\ stored \in SUBSET Uuids
    /\ facts = [u \in Uuids |-> NoFacts]
    /\ runs = {}
    /\ stamped = 0
    /\ replaced = 0
    /\ job = [j \in Jobs |-> Idle]

Set(j, record) == job' = [job EXCEPT ![j] = record]

\* The session is closed: what the job has not committed is gone.
End(j) == Set(j, Idle)

DQJobs == {j \in Jobs : job[j].pc \in {"judging", "storing"}}

VersionsOf(s) == {u \in stored : Identity[u] = s}

\* _resolve_statement_identity, _resolve_statement_version.
Resolved(s) == Min(VersionsOf(s))

RunsOf(s) == {r \in runs : r.statement = s}

\* The query of latest_run_for_statement: by executed_at, which is not the order of commits.
LatestRun(s, version) ==
    LET candidates == {r \in RunsOf(s) : r.version = version}
    IN  IF candidates = {} THEN NoRun
        ELSE CHOOSE r \in candidates : \A other \in candidates : other.id <= r.id

\* The first query of create_run and of latest_run_for_statement.
Resolve(j) ==
    /\ job[j].pc \in {"storing", "run", "newest"}
    /\ job[j].version = None
    /\ Set(j, [job[j] EXCEPT !.version = Resolved(job[j].stmt)])
    /\ UNCHANGED <<stored, facts, runs, stamped, replaced>>

\* Another row of a statement is stored by an ingest.
StoreVersion ==
    /\ \E u \in Uuids \ stored : stored' = stored \cup {u}
    /\ UNCHANGED <<facts, runs, stamped, replaced, job>>

-----------------------------------------------------------------------------
(* Facts: PersistNormalizedFactsForStatement, one transaction.             *)

ReplaceFacts(s) ==
    /\ VersionsOf(s) # {}
    /\ replaced < MaxReplaced
    /\ replaced' = replaced + 1
    /\ \E p \in Payloads \ {NoFacts} :
         /\ facts' = [facts EXCEPT ![Resolved(s)] = p]
         /\ job' = [j \in Jobs |->
               IF j \notin DQJobs THEN job[j]
               ELSE [job[j] EXCEPT !.had = IF job[j].stmt = s THEN @ \cup {p} ELSE @]]
    /\ UNCHANGED <<stored, runs, stamped>>

-----------------------------------------------------------------------------
(* run_statement_dq.                                                       *)

\* list_facts_history: the oldest facts of the metric, up to the limit.  The fact
\* that is judged is among them like any other.
History(m, limit) ==
    LET dated == SelectSeq(ByDate, LAMBDA u : facts[u][m] # None)
    IN  SubSeq(dated, 1, IF Len(dated) < limit THEN Len(dated) ELSE limit)

Abs(n) == IF n < 0 THEN -n ELSE n

\* HISTORY_SPIKE: the change from the last point of the history is more than fivefold.
Consistent(value, past, m) ==
    IF past = <<>> \/ facts[past[Len(past)]][m] = 0 THEN "null"
    ELSE LET last == facts[past[Len(past)]][m]
         IN  IF Abs(value - last) > 5 * Abs(last) THEN "false" ELSE "true"

StartRun(j) ==
    /\ job[j] = Idle
    /\ \E s \in Statements, limit \in Lookbacks :
         /\ VersionsOf(s) # {}
         /\ LET read == facts[Resolved(s)]
            IN  /\ read # NoFacts
                /\ Set(j, [pc |-> "judging", stmt |-> s, lookback |-> limit, read |-> read,
                           rows |-> {}, found |-> {}, stamp |-> 0, version |-> None,
                           had |-> {read}])
    /\ UNCHANGED <<stored, facts, runs, stamped, replaced>>

Unjudged(j) == {m \in Metrics : job[j].read[m] # None} \ {row.metric : row \in job[j].rows}

Verdict(m, value, consistent) ==
    [metric |-> m, nonNegative |-> value >= 0, consistent |-> consistent,
     severity |-> IF consistent = "false" THEN "MEDIUM" ELSE IF value < 0 THEN "LOW" ELSE "NONE"]

AnomaliesOf(row) ==
    {a \in Anomaly : /\ a.metric = row.metric
                     /\ IF a.rule = "NON_NEGATIVE" THEN ~row.nonNegative ELSE row.consistent = "false"}

JudgeStoredFact(j) ==  \* mutant: the fact is read again when its turn comes
    /\ job[j].pc = "judging"
    /\ Unjudged(j) # {}
    /\ LET m     == Min(Unjudged(j))
           value == facts[Resolved(job[j].stmt)][m]
           row   == Verdict(m, value, "null")
       IN  Set(j, IF value = None THEN [job[j] EXCEPT !.read[m] = None]
                  ELSE [job[j] EXCEPT !.rows = @ \cup {row}, !.found = @ \cup AnomaliesOf(row)])
    /\ UNCHANGED <<stored, facts, runs, stamped, replaced>>

\* _evaluate_rules for the next fact: one query for its history.
Judge(j) ==
    /\ job[j].pc = "judging"
    /\ Unjudged(j) # {}
    /\ LET m     == Min(Unjudged(j))
           value == job[j].read[m]
           row   == Verdict(m, value, Consistent(value, History(m, job[j].lookback), m))
       IN  Set(j, [job[j] EXCEPT !.rows = @ \cup {row}, !.found = @ \cup AnomaliesOf(row)])
    /\ UNCHANGED <<stored, facts, runs, stamped, replaced>>

\* executed_at is the time the evaluation ends, before the run is inserted.
Stamp(j) ==
    /\ job[j].pc = "judging"
    /\ Unjudged(j) = {}
    /\ stamped < MaxRuns
    /\ stamped' = stamped + 1
    /\ Set(j, [job[j] EXCEPT !.pc = "storing", !.stamp = stamped'])
    /\ UNCHANGED <<stored, facts, runs, replaced>>

\* EdgarDQRun with its rows and anomalies.
RunOf(j) == [id |-> job[j].stamp, statement |-> job[j].stmt, version |-> job[j].version,
             rows |-> job[j].rows, anomalies |-> job[j].found]

\* create_run and the commit.
StoreRun(j) ==
    /\ job[j].pc = "storing"
    /\ job[j].version # None
    /\ runs' = runs \cup {RunOf(j)}
    /\ End(j)
    /\ UNCHANGED <<stored, facts, stamped, replaced>>

-----------------------------------------------------------------------------
(* get_statement_with_dq_overlay: the run, the quality rows, the anomalies, *)
(* each by a query of its own; the facts are read first and not compared.   *)

StartOverlay(j) ==
    /\ job[j] = Idle
    /\ \E s \in Statements :
         /\ VersionsOf(s) # {}
         /\ Set(j, [pc |-> "run", stmt |-> s, version |-> None, header |-> NoRun, rows |-> {},
                    latest |-> NoRun, found |-> {}, earlier |-> RunsOf(s)])
    /\ UNCHANGED <<stored, facts, runs, stamped, replaced>>

ReadRun(j) ==
    /\ job[j].pc = "run"
    /\ job[j].version # None
    /\ Set(j, [job[j] EXCEPT !.pc = "quality", !.version = None,
                             !.header = LatestRun(job[j].stmt, job[j].version)])
    /\ UNCHANGED <<stored, facts, runs, stamped, replaced>>

QualityOfVersion(s) ==  \* mutant: rows are filtered as runs are
    UNION {r.rows : r \in {r \in RunsOf(s) : r.version = Resolved(s)}}

\* list_fact_quality_for_statement: the rows of every run of the statement, whatever row
\* of statement_versions they are of.
QualityOf(s) == UNION {r.rows : r \in RunsOf(s)}

ReadQuality(j) ==
    /\ job[j].pc = "quality"
    /\ Set(j, [job[j] EXCEPT !.pc = "newest", !.rows = QualityOf(job[j].stmt)])
    /\ UNCHANGED <<stored, facts, runs, stamped, replaced>>

\* list_anomalies_for_statement asks for the latest run again.
ReadLatest(j) ==
    /\ job[j].pc = "newest"
    /\ job[j].version # None
    /\ Set(j, [job[j] EXCEPT !.pc = "listing", !.version = None,
                             !.latest = LatestRun(job[j].stmt, job[j].version)])
    /\ UNCHANGED <<stored, facts, runs, stamped, replaced>>

\* list_anomalies_for_run: severities in descending order of their names, of which
\* NONE > MEDIUM > LOW, then cut off at the limit; ids decide the rest.
FirstAnomalies(all) ==
    {kept \in SUBSET all :
        /\ Cardinality(kept) = IF Cardinality(all) < AnomalyLimit THEN Cardinality(all) ELSE AnomalyLimit
        /\ \A a \in kept, b \in all \ kept : SeverityOf(b) = "MEDIUM" => SeverityOf(a) = "MEDIUM"}

ReadAnomalies(j) ==
    /\ job[j].pc = "listing"
    /\ \E kept \in FirstAnomalies(job[j].latest.anomalies) :
         Set(j, [job[j] EXCEPT !.pc = "answered", !.found = kept])
    /\ UNCHANGED <<stored, facts, runs, stamped, replaced>>

Answered(j) ==
    /\ job[j].pc = "answered"
    /\ End(j)
    /\ UNCHANGED <<stored, facts, runs, stamped, replaced>>

\* A query or an insert fails, or the request is cancelled: the unit of work rolls back.
Fail(j) ==
    /\ job[j].pc \notin {"idle", "answered"}
    /\ End(j)
    /\ UNCHANGED <<stored, facts, runs, stamped, replaced>>

DQ(j)      == StartRun(j) \/ Judge(j) \/ Stamp(j) \/ StoreRun(j)
Overlay(j) == StartOverlay(j) \/ ReadRun(j) \/ ReadQuality(j) \/ ReadLatest(j)
              \/ ReadAnomalies(j) \/ Answered(j)

Next ==
    \/ \E j \in Jobs : DQ(j) \/ Overlay(j) \/ Resolve(j) \/ Fail(j)
    \/ \E s \in Statements : ReplaceFacts(s)
    \/ StoreVersion

Spec == Init /\ [][Next]_vars

-----------------------------------------------------------------------------
(* What clients are answered: the DQ routes of edgar_router and of          *)
(* fundamentals_router, over edgar_dq_presenter.  Errors, which the routes  *)
(* map to a status, are left out: they are the jobs that Fail.              *)

Answer(body) == [status |-> 200, body |-> body]

Rank == [NONE |-> 0, LOW |-> 1, MEDIUM |-> 2]

WorstByName(severities) ==  \* mutant: severities are compared as strings
    IF severities = {} THEN None
    ELSE IF "NONE" \in severities THEN "NONE" ELSE IF "MEDIUM" \in severities THEN "MEDIUM" ELSE "LOW"

\* _max_severity of both use cases.
Worst(severities) ==
    IF severities = {} THEN None
    ELSE CHOOSE x \in severities : \A y \in severities : Rank[y] <= Rank[x]

MaxSeverity(rows, found) == Worst({row.severity : row \in rows} \cup {SeverityOf(a) : a \in found})

\* RunStatementDQResultHTTP, of the run just stored.
RunResult(run) ==
    [dq_run_id |-> run.id, facts_evaluated |-> Cardinality(run.rows),
     anomaly_count |-> Cardinality(run.anomalies), max_severity |-> MaxSeverity(run.rows, run.anomalies)]

\* FactQualityHTTP: the run a row is of is not shown.
FactQualityHTTP(row) ==
    [metric_code |-> row.metric, severity |-> row.severity, is_present |-> TRUE,
     is_non_negative |-> row.nonNegative, is_consistent_with_history |-> row.consistent,
     has_known_issue |-> FALSE]

\* DQAnomalyHTTP.
DQAnomalyHTTP(run, a) ==
    [dq_run_id |-> run.id, metric_code |-> a.metric, rule_code |-> a.rule, severity |-> SeverityOf(a)]

\* StatementDQOverlayHTTP; the facts it shows are left out.
OverlayBody(j) ==
    [dq_run_id    |-> IF job[j].header = NoRun THEN None ELSE job[j].header.id,
     max_severity |-> MaxSeverity(job[j].rows, job[j].found),
     fact_quality |-> {FactQualityHTTP(row) : row \in job[j].rows},
     anomalies    |-> {DQAnomalyHTTP(job[j].latest, a) : a \in job[j].found}]

\* GET .../dq/overlay and GET /v1/fundamentals/.../dq-overlay, when no query fails.
OverlayRoute(j) == Answer(OverlayBody(j))

\* POST .../dq/run, when the insert does not fail.
RunRoute(j) == Answer(RunResult(RunOf(j)))

-----------------------------------------------------------------------------
(* Properties.                                                             *)

\* The answer of the overlay, put together from four queries among which runs are
\* committed, misses nothing that was known at its call: every verdict of a run committed
\* before it is shown, and so are those of the run it names, and the severity is never
\* milder than what the run route told the clients of any of them, or than an anomaly of
\* the run its anomalies are from.  The run it names is the newest of those committed
\* before the call, and its anomalies are from no older one, except for runs of a row that
\* another row of the same statement, stored since, has come before.
OverlayCoversItsRun ==
    \A j \in Jobs : job[j].pc = "answered" =>
        LET body    == OverlayRoute(j).body
            header  == job[j].header
            latest  == job[j].latest
            current == Resolved(job[j].stmt)
        IN  /\ \A r \in job[j].earlier : r.version = current => r.id <= header.id
            /\ header # NoRun /\ header.version = current => header.id <= latest.id
            /\ \A r \in job[j].earlier \cup ({header} \ {NoRun}) :
                 /\ {FactQualityHTTP(row) : row \in r.rows} \subseteq body.fact_quality
                 /\ Rank[RunResult(r).max_severity] <= Rank[body.max_severity]
            /\ latest.anomalies # {} =>
                 Rank[Worst({SeverityOf(a) : a \in latest.anomalies})] <= Rank[body.max_severity]

\* A run about to be stored judges every fact of one payload that its statement had
\* at or since the call, and no other: facts replaced while it goes from metric to
\* metric do not get into it.  Its anomalies are those its rows speak of.
RunsJudgeOnePayload ==
    \A j \in Jobs : job[j].pc = "storing" =>
        LET run == job[j]
        IN  /\ \E p \in run.had :
                 /\ {row.metric : row \in run.rows} = {m \in Metrics : p[m] # None}
                 /\ \A row \in run.rows : row.nonNegative = (p[row.metric] >= 0)
                 /\ RunRoute(j).body.facts_evaluated = Cardinality({m \in Metrics : p[m] # None})
            /\ run.found = UNION {AnomaliesOf(row) : row \in run.rows}
=============================================================================
