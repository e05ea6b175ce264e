------------------------------- MODULE Analytics -------------------------------
(***************************************************************************)
(* The queries over the statement versions of one company that read more   *)
(* than once, and the restatement queries, which read once:                *)
(*   get_derived_metrics_timeseries and get_fundamentals_timeseries read   *)
(*     one listing per fiscal year of their window, again for every page   *)
(*     that a client of the fundamentals router asks for;                  *)
(*   get_normalized_statement reads the latest version and then the        *)
(*     listing it is in;                                                   *)
(*   run_reconciliation_for_statement_identity reads one per year and      *)
(*     type, applies the rules and appends a row per check.                *)
(* Versions are ingested and normalized between any two reads (READ        *)
(* COMMITTED).  A query sees no write of another query, so that one at a   *)
(* time is followed.                                                       *)
(*                                                                         *)
(* The default rules need metrics the canonical metrics do not have, all   *)
(* but the one on the months a fiscal year may end in.                     *)
(***************************************************************************)
EXTENDS StatementRoutes

CONSTANTS
    Filed,         \* the statements there are filings of: <<type, date>>
    AllowedDates,  \* dates in a month of allowed_fye_months
    MaxVersions,   \* bound: versions stored
    PageSize,      \* points of a page
    Paged,         \* bound: windows, sets of listings, of which pages of both series are asked for
    MaxCalls       \* bound: queries called

Years == {YearOf[d] : d \in Dates}

ASSUME AnalyticsAssumption ==
    /\ Filed \subseteq Types \X Dates
    /\ AllowedDates \subseteq Dates
    /\ MaxVersions \in Nat
    /\ PageSize \in Nat \ {0}
    /\ \A window \in Paged : window \subseteq Years \X Types
    /\ MaxCalls \in Nat
    /\ None \notin {"fundamentals", "derived"}

Check == [run : 1..MaxCalls, type : Types, year : Years, seq : Positions,
          date : Dates, status : {"PASS", "FAIL"}]

VARIABLES
    versions,  \* committed sec.statement_versions
    checks,    \* committed edgar_reconciliation_checks
    calls,     \* queries so far; a reconciliation run has one's number
    query,     \* none, series, statement, reconcile
    pending,   \* listings still to be read: <<year, type>>
    picked,    \* versions chosen from the listings read
    asked,     \* history: all listings of the query
    atCall,    \* history: versions of those listings stored when the query was called
    client     \* who asks for the pages of a series

work == <<query, pending, picked, asked, atCall, client>>
vars == <<versions, checks, calls, work>>

\* of is the series asked for, which only an answer shows: the reading is the same.
\* page is the next page, total what the last answer said; got are the dates of the
\* points received.  History: first, the dates of the series of page 1; shown, those
\* of the last page's; vanished, how many dates left the series between two pages.
Client == [idle : BOOLEAN, of : {"fundamentals", "derived", None}, page : Nat \ {0}, total : Nat,
           got : SUBSET Dates, first : SUBSET Dates, shown : SUBSET Dates, vanished : Nat]

NoClient == [idle |-> FALSE, of |-> None, page |-> 1, total |-> 0, got |-> {},
             first |-> {}, shown |-> {}, vanished |-> 0]

TypeOK ==
    /\ client \in Client
    /\ versions \subseteq Version
    /\ checks \subseteq Check
    /\ calls \in 0..MaxCalls
    /\ query \in {"none", "series", "statement", "reconcile"}
    /\ pending \subseteq Years \X Types
    /\ picked \subseteq Version
    /\ asked \subseteq Years \X Types
    /\ atCall \subseteq Version

Init ==
    /\ versions = {}
    /\ checks = {}
    /\ calls = 0
    /\ query = "none"
    /\ pending = {}
    /\ picked = {}
    /\ asked = {}
    /\ atCall = {}
    /\ client = NoClient

-----------------------------------------------------------------------------
(* Writers.                                                                *)

\* uq_statement_versions_identity.  Bound: one version less while a second query runs.
StoreVersion ==
    /\ Cardinality(versions) + Max({1, calls}) <= MaxVersions
    /\ \E v \in [type : Types, date : Dates, seq : Positions, payload : {None}] :
         /\ <<v.type, v.date>> \in Filed
         /\ ~\E w \in versions : w.type = v.type /\ w.date = v.date /\ w.seq = v.seq
         /\ versions' = versions \cup {v}
    /\ UNCHANGED <<checks, calls, work>>

\* update_normalized_payload; a payload once there is the filing's and stays.
NormalizeVersion ==
    /\ \E v \in versions : \E p \in PayloadsOf[v.type] :
         /\ ~Normalized(v)
         /\ versions' = (versions \ {v}) \cup {[v EXCEPT !.payload = p]}
    /\ UNCHANGED <<checks, calls, work>>

-----------------------------------------------------------------------------
(* Queries.                                                                *)

YearsBetween(from, to) == {y \in Years : from <= y /\ y <= to}

\* The rows of a listing.
Rows(listing) == {v \in versions : v.type = listing[2] /\ Year(v) = listing[1]}

\* Listings are read year by year and type by type.
Turn == {x \in pending : \A y \in pending : x[1] < y[1] \/ (x[1] = y[1] /\ x[2] <= y[2])}

Call(kind, listings) ==
    /\ query = "none"
    /\ calls < MaxCalls
    /\ calls = 0 \/ Cardinality(versions) < MaxVersions
    /\ calls' = calls + 1
    /\ query' = kind
    /\ pending' = listings
    /\ picked' = {}
    /\ asked' = listings
    /\ atCall' = {v \in versions : <<Year(v), v.type>> \in asked'}
    /\ UNCHANGED client

End ==
    /\ query' = "none"
    /\ pending' = {}
    /\ picked' = {}
    /\ asked' = {}
    /\ atCall' = {}
    /\ client' = NoClient

\* A window of dates is one of whole years here.  Only a reconciliation leaves anything
\* behind: other queries are followed as the first one.
CallSeries ==
    /\ calls = 0
    /\ \E type \in Types, from, to \in Years :
         /\ from <= to
         /\ Call("series", YearsBetween(from, to) \X {type})
    /\ UNCHANGED <<versions, checks>>

NewestByDateOrNone(rows) ==  \* mutant: the newest version of a date is taken before its payload is looked at
    {v \in rows : Normalized(v) /\ \A w \in rows : w.date = v.date => w.seq <= v.seq}

\* The versions of a listing with a payload, the newest of each date.
NewestByDate(rows) ==
    {v \in rows : Normalized(v) /\ \A w \in rows : w.date = v.date /\ Normalized(w) => w.seq <= v.seq}

ReadYear ==
    /\ query = "series"
    /\ \E listing \in Turn :
         /\ picked' = picked \cup NewestByDate(Rows(listing))
         /\ pending' = pending \ {listing}
    /\ UNCHANGED <<versions, checks, calls, query, asked, atCall, client>>

HasRead == query = "series" /\ pending = {} /\ ~client.idle

SeriesOf(name) == IF name = "derived" THEN Points(picked) ELSE Fundamentals(picked)

DatesOf(points) == {point.version.date : point \in points}

\* A page, or all there is: the client goes on by the total of the envelope.
AnswerPage ==
    /\ HasRead
    /\ \E name \in {"fundamentals", "derived"} :
       LET points == SeriesOf(name)
           dates  == DatesOf(points)
       IN  /\ client.of \in {name, None}
           /\ name = "derived" => asked \in Paged
           /\ client' = [idle |-> TRUE, of |-> name, page |-> client.page + 1, total |-> Cardinality(points),
                         got |-> client.got \cup DatesOf(Page(points, client.page, PageSize)),
                         first |-> IF client.page = 1 THEN dates ELSE client.first,
                         shown |-> dates,
                         vanished |-> client.vanished + Cardinality(client.shown \ dates)]
    /\ picked' = {}
    /\ atCall' = {}
    /\ UNCHANGED <<versions, checks, calls, query, pending, asked>>

MorePages == (client.page - 1) * PageSize < client.total

AskNextPage ==
    /\ client.idle
    /\ MorePages
    /\ asked \in Paged
    /\ client' = [client EXCEPT !.idle = FALSE]
    /\ pending' = asked
    /\ UNCHANGED <<versions, checks, calls, query, picked, asked, atCall>>

\* With all pages or before.
ClientLeaves ==
    /\ client.idle
    /\ End
    /\ UNCHANGED <<versions, checks, calls>>

CallStatement ==
    /\ calls = 0
    /\ \E type \in Types, year \in Years : Call("statement", {<<year, type>>})
    /\ UNCHANGED <<versions, checks>>

LatestByDate(rows) ==  \* mutant: by statement date
    {v \in rows : \A w \in rows : w.date <= v.date}

\* latest_statement_version_for_company: the highest version_sequence, by random id
\* among equals.
LatestOf(rows) == {v \in rows : \A w \in rows : w.seq <= v.seq}

ReadLatestVersion ==
    /\ query = "statement"
    /\ picked = {}
    /\ \E listing \in pending : \E v \in LatestOf(Rows(listing)) :
         /\ Normalized(v)
         /\ picked' = {v}
    /\ UNCHANGED <<versions, checks, calls, query, pending, asked, atCall, client>>

\* EdgarIngestionError: 502.
NoLatestVersion ==
    /\ query = "statement"
    /\ picked = {}
    /\ \E listing \in pending :
         \/ Rows(listing) = {}
         \/ \E v \in LatestOf(Rows(listing)) : ~Normalized(v)
    /\ End
    /\ UNCHANGED <<versions, checks, calls>>

\* The listing is the history; the presenter then fails on the domain's versions, and
\* the route answers 500.
ReadHistory ==
    /\ query = "statement"
    /\ picked # {}
    /\ End
    /\ UNCHANGED <<versions, checks, calls>>

\* The year asked for and fiscal_year_window years before it, every type of each.
CallReconcile ==
    /\ calls = 0 \/ checks # {}
    /\ \E from, to \in Years :
         /\ from <= to
         /\ Call("reconcile", YearsBetween(from, to) \X Types)
    /\ UNCHANGED <<versions, checks>>

LatestNormalized(rows) ==  \* mutant: versions without a payload are left out first
    LET with == {v \in rows : Normalized(v)}
    IN  IF with = {} THEN {{}} ELSE {{v} : v \in LatestOf(with)}

\* The version of the highest version_sequence, the first listed of several, which may
\* be any; without a payload the type and year are left out, whatever older versions have.
Latest(rows) ==
    IF rows = {} THEN {{}} ELSE {{w \in {v} : Normalized(w)} : v \in LatestOf(rows)}

ReadLatest ==
    /\ query = "reconcile"
    /\ \E listing \in Turn :
         /\ \E latest \in Latest(Rows(listing)) : picked' = picked \cup latest
         /\ pending' = pending \ {listing}
    /\ UNCHANGED <<versions, checks, calls, query, asked, atCall, client>>

\* EdgarIngestionError.
NothingToReconcile ==
    /\ query = "reconcile"
    /\ pending = {}
    /\ picked = {}
    /\ End
    /\ UNCHANGED <<versions, checks, calls>>

\* _apply_calendar_rule.
Status(v) == IF v.date \in AllowedDates THEN "PASS" ELSE "FAIL"

SameIdentity(v, w) == v.type = w.type /\ Year(v) = Year(w) /\ v.seq = w.seq

\* append_results and the commit.  The version a check belongs to is looked up by
\* its identity; of several rows with that identity any may be found.
AppendChecks ==
    /\ query = "reconcile"
    /\ pending = {}
    /\ picked # {}
    /\ \E row \in [picked -> versions] :
         /\ \A v \in picked : SameIdentity(v, row[v])
         /\ checks' = checks \cup
              {[run |-> calls, type |-> v.type, year |-> Year(v), seq |-> v.seq,
                date |-> row[v].date, status |-> Status(v)] : v \in picked}
    /\ End
    /\ UNCHANGED <<versions, calls>>

\* _present_result: one check of a run.
ReconciliationResultHTTP(v) ==
    [statement_type |-> v.type, fiscal_year |-> Year(v), version_sequence |-> v.seq, status |-> Status(v)]

\* POST /v1/edgar/reconciliation/run, once the checks are stored.
RunRoute ==
    IF picked = {} THEN Refusal(EdgarStatus.Ingestion)
    ELSE Answer({ReconciliationResultHTTP(v) : v \in picked})

InOrder(c, d) ==
    \/ c.year < d.year
    \/ (c.year = d.year /\ c.seq < d.seq)
    \/ (c.year = d.year /\ c.seq = d.seq /\ c.run < d.run)

Newest(rows, limit) ==  \* mutant: the limit keeps the newest
    {c \in rows : Cardinality({d \in rows : InOrder(c, d)}) < limit}

Oldest(rows, limit) == {c \in rows : Cardinality({d \in rows : InOrder(d, c)}) < limit}

\* list_for_window: the rows of all runs, by year and version before anything else.
WindowRows(type, from, to, limit) ==
    Oldest({c \in checks : c.type = type /\ from <= c.year /\ c.year <= to}, limit)

\* list_for_statement: all rows of one identity, by run.
StatementRows(type, year, seq) ==
    {c \in checks : c.type = type /\ c.year = year /\ c.seq = seq}

\* GetReconciliationLedgerUseCase: a filter by status after the limit.  (Its route
\* always answers 500: the request it builds has no from_primitives.)
LedgerOf(type, year, seq, statuses, limit) ==
    {c \in Oldest(StatementRows(type, year, seq), limit) : c.status \in statuses}

CountOf(rows, status) == Cardinality({c \in rows : c.status = status})

\* GetReconciliationSummaryUseCase: the rows the limit leaves, by year and version.
Buckets(rows) ==
    {LET own == {c \in rows : c.year = r.year /\ c.seq = r.seq}
     IN  [year |-> r.year, seq |-> r.seq,
          pass_count |-> CountOf(own, "PASS"), fail_count |-> CountOf(own, "FAIL")] : r \in rows}

\* GET /v1/edgar/reconciliation/summary.
SummaryRoute(type, from, to, limit) ==
    IF from > to THEN Refusal(400) ELSE Answer(Buckets(WindowRows(type, from, to, limit)))

\* A read or the insert fails, or the request is cancelled.
Fail ==
    /\ query # "none"
    /\ End
    /\ UNCHANGED <<versions, checks, calls>>

Next ==
    \/ StoreVersion \/ NormalizeVersion
    \/ CallSeries \/ ReadYear \/ AnswerPage \/ AskNextPage \/ ClientLeaves
    \/ CallStatement \/ ReadLatestVersion \/ NoLatestVersion \/ ReadHistory
    \/ CallReconcile \/ ReadLatest \/ NothingToReconcile \/ AppendChecks
    \/ Fail

Spec == Init /\ [][Next]_vars

-----------------------------------------------------------------------------
(* Properties.                                                             *)

\* The restatement queries agree with each other on every listing of every type and
\* year, in whatever order versions were stored and normalized, and the routes that
\* show them to a client agree too.  So do those of the derived series: a figure is
\* the same whatever other figures are asked for, by name or by bundle, although a
\* payload none of whose figures was asked for makes no point; it is what its own
\* points and windows say.  (What can be stored does not depend on the queries, and
\* what a series is made of is what is stored at some time: the states before the
\* first call have it all.)
RoutesTellTheSame ==
    calls = 0 => \A type \in Types :
        /\ \A year \in Years : \A list \in Listings(versions, type, year) :
             ViewsAgree(list) /\ RoutesAgree(list)
        /\ SeriesAgree(NewestByDate({v \in versions : v.type = type}))

\* A series put together from one listing per year, with versions stored and
\* normalized in between, has exactly one point for every date that had a payload
\* at the call, of a version no older than the newest then; a version still without
\* a payload hides nothing.
SeriesCoversItsWindow ==
    (HasRead /\ client.page = 1) =>
         /\ \A v, w \in picked : v.type = w.type /\ (v.date = w.date => v = w)
         /\ \A v \in atCall : Normalized(v) =>
              \E w \in picked : w.date = v.date /\ w.seq >= v.seq

\* A client that asks for page after page, while versions are stored and normalized
\* and each page is cut from a series built anew, misses no date the fundamentals
\* series had at its first page; of the derived series it misses at most as many as
\* there were points that vanished on the way, as one does when a newer version of
\* its date lacks the inputs.
PagesLoseNothing ==
    (client.idle /\ ~MorePages) =>
         /\ client.of = "fundamentals" => client.vanished = 0
         /\ Cardinality(client.first \ client.got) <= client.vanished

\* Of the two reads of get_normalized_statement the second is no older: what the
\* first called latest is in the history, and a version in it that is newer was
\* stored after the call.
LatestIsInTheHistory ==
    (query = "statement" /\ picked # {}) =>
        \A at \in asked, v \in picked :
            /\ v \in Rows(at)
            /\ \A w \in Rows(at) :
                 w.seq > v.seq => ~\E u \in atCall : u.date = w.date /\ u.seq = w.seq

\* What an answer put together from several reads covers: all of what was there at
\* its call.  (Series and statements are different queries.)
ReadsCoverTheirCall == SeriesCoversItsWindow /\ LatestIsInTheHistory

\* A run judges, of each type and year it was asked for, at most one version: none
\* stored before its call supersedes it, whatever versions were stored, normalized
\* or left without a payload since; and a version with a payload that was and stayed
\* the only newest one is judged.  What is stored of a run names one version of each
\* type and year that has a payload, and unless versions of two dates share its
\* identity, the status is that of the date stored beside it.
NewestAreReconciled ==
    /\ (query = "reconcile" /\ pending = {}) =>
         /\ \A v, w \in picked : v.type = w.type /\ Year(v) = Year(w) => v = w
         /\ RunRoute.status = 200 => Cardinality(RunRoute.body) = Cardinality(picked)
         /\ \A v \in picked, w \in atCall : v.type = w.type /\ Year(v) = Year(w) => w.seq <= v.seq
         /\ \A v \in atCall : Normalized(v) =>
              \/ v \in picked
              \/ \E w \in versions \ {v} : v.type = w.type /\ Year(v) = Year(w) /\ w.seq >= v.seq
    /\ \A c \in checks :
         /\ \A d \in checks : c.run = d.run /\ c.type = d.type /\ c.year = d.year => c = d
         /\ LET rows == {v \in versions : v.type = c.type /\ Year(v) = c.year /\ v.seq = c.seq}
            IN  /\ \E v \in rows : Normalized(v) /\ Status(v) = c.status
                /\ Cardinality(rows) = 1 => \A v \in rows : v.date = c.date

\* The summary of a window counts what the ledgers of its statements list, over all
\* runs, a statement's check once for each run that judged it.  A limit cuts off the
\* newest: only the last of the buckets may be short, and a statement without one
\* comes after it.
SummariesAddUp ==
    (query = "none" /\ checks # {}) =>
        \A type \in Types, from, to \in Years, limit \in 1..(Cardinality(checks) + 1) : from <= to =>
            LET buckets == SummaryRoute(type, from, to, limit).body
                rows    == {c \in checks : c.type = type /\ c.year \in from..to}
                Counted == MapThenSumSet(LAMBDA b : b.pass_count + b.fail_count, buckets)
                All(c, status) == Cardinality(LedgerOf(type, c.year, c.seq, {status}, MaxCalls))
                Later(c, d) == c.year > d.year \/ (c.year = d.year /\ c.seq > d.seq)
            IN  /\ Counted = Min({limit, Cardinality(rows)})
                /\ \A b \in buckets :
                     \/ b.pass_count = All(b, "PASS") /\ b.fail_count = All(b, "FAIL")
                     \/ Counted = limit /\ ~\E other \in buckets : Later(other, b)
                /\ \A c \in rows :
                     \/ \E b \in buckets : b.year = c.year /\ b.seq = c.seq
                     \/ Counted = limit /\ \A b \in buckets : Later(c, b)
=============================================================================
