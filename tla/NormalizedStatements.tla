------------------------- MODULE NormalizedStatements -------------------------
(***************************************************************************)
(* What a normalized statement is made of and what is said of it: the      *)
(* filings that are found for a company, the normalization of their        *)
(* statements, the judgement of the facts, and the reconciliation of       *)
(* statements.  Each part has tables of its own here, and what is shown of *)
(* one holds whatever the others do; how they meet in the statement tables *)
(* is in StatementPipeline.                                                *)
(***************************************************************************)
EXTENDS Normalization

\* Of data quality; see DataQuality, whose Metrics are the Codes.
CONSTANTS Jobs, Statements, Uuids, Identity, ByDate, Codes, Values, Payloads, Lookbacks, AnomalyLimit, MaxReplaced, MaxRuns
VARIABLES stored, facts, runs, stamped, replaced, job

DQ == INSTANCE DataQuality WITH Metrics <- Codes

ASSUME Quality == DQ!QualityAssumption

\* Of discovery; see FilingDiscovery.
CONSTANTS Reports, Requests, Callers, Today, Unlisted, Garbled
VARIABLES shown, filings, dated, known, place, ask, found, fresh, seen, had, corrected

FD == INSTANCE FilingDiscovery WITH at <- place

ASSUME Discovery == FD!DiscoveryAssumption

\* Of the two judges that no use case calls; see FactRules, whose Metrics are the Judgeable
\* and whose Values the Figures.
CONSTANTS Judgeable, Figures, Dimensions, Ranking, RequiredOf, KeyMetrics, NonNegative,
          Multiplier, MinObservations, Volatile, MaxNow, MaxPast
VARIABLES type, now, past, judged

FQ == INSTANCE FactRules WITH Metrics <- Judgeable, Values <- Figures, Places <- Ranking

ASSUME Judges == FQ!FactRulesAssumption /\ FQ!ConfigsMatch

\* Of reconciliation; see ReconciliationRules, whose Metrics are the Booked, whose Values
\* the Amounts and whose Rules the Rulebook.
CONSTANTS Types, Years, MonthOf, Versions, Booked, Amounts, Slices, Rulebook, Tolerance,
          MaxListed, MaxFacts
VARIABLES deep, sheets, ledger, results

RE == INSTANCE ReconciliationRules WITH
        Metrics <- Booked, Values <- Amounts, Rules <- Rulebook, listed <- sheets,
        facts <- ledger

ASSUME Reconciliation == RE!RulesAssumption

\* The answer of the overlay covers the run it names.  (get_statement_with_dq_overlay;
\* stated in DataQuality)
OverlayCoversItsRun == DQ!OverlayCoversItsRun

\* A run judges one payload of its statement and no mixture of two.  (run_statement_dq;
\* stated in DataQuality)
RunsJudgeOnePayload == DQ!RunsJudgeOnePayload

\* What a sync or an ingest was asked for and read is in the tables.
\* (sync_recent_filings, ingest_edgar_filing; stated in FilingDiscovery)
SyncsCoverTheirWindow == FD!SyncsCoverTheirWindow

\* Two judges that share no code do not contradict each other.  (FactDQEngine,
\* evaluate_statement_quality; stated in FactRules)
JudgesAgree == FQ!JudgesAgree

\* A verdict is the truth about complete books, in whatever order statements come.
\* (ReconciliationEngine.run; stated in ReconciliationRules)
BooksTie == RE!BooksTie
=============================================================================
