# arche-api: verification project

TLA+ models of the stateful parts of arche-api, a FastAPI service that ingests
EDGAR filings and Marketstack prices, stores versioned statements and facts, and
serves them over HTTP. Paths below are relative to `src/src/arche_api/`.

Model-check a module with `tlc -config MCx.cfg MCx`, check the proofs with
`tlapm CircuitBreakerProofs.tla` (likewise `HttpClientsProofs`, `RequestsProofs`,
`SingleFlightCacheProofs`, `StatementTablesProofs`, `NormalizedStatementsProofs`,
`AnalyticsProofs` and `MarketIngestProofs`).
`PROJECT.json` ties every definition to the lines it models.

## Inventory

One process runs one asyncio loop; several processes share PostgreSQL and Redis.
A step that contains no `await` is therefore atomic inside a process, and nothing
but the database and Redis orders steps of different processes.

| Component | State | Operations | Hard part | What makes it correct |
| --- | --- | --- | --- | --- |
| Circuit breaker (`infrastructure/resilience/circuit_breaker.py`) | `_state`, `_failures`, `_opened_at`, `_half_open_calls` | entry and exit of `guard()` | late results of calls admitted in another state, cancelled calls | a CLOSED breaker is below its threshold; slots equal probes; it closes again when the upstream recovers |
| HTTP idempotency (`infrastructure/middleware/idempotency.py`, `adapters/repositories/idempotency_repository.py`) | one row per key: hash, state, response, expiry | lookup, create or restart, run the handler, save the result | concurrent and aborted requests, expiry while running, partial UPDATEs | one effect per record, a replay answers its own request |
| EDGAR ingest and sync (`application/use_cases/external_apis/edgar`) | `sec.filings`, `sec.statement_versions` | ingest one filing, sync a window, process a filing | overlapping transactions, repeated calls, a conflict half-way through a batch | filings and versions appear together; normal return means stored; no circular wait |
| Normalization and fact store (`application/use_cases/statements`) | payload of a version, `sec.edgar_normalized_facts` | normalize, update payload, persist facts | the identity is resolved twice, two versions share one identity | facts belong to the identity they are stored under; history is preserved |
| Unit of work (`adapters/uow/sqlalchemy_uow.py`) | a session, committed and rolled-back flags | enter, commit, rollback, exit | commit twice, no commit at all | what was reported as stored is stored |
| JSON cache (`infrastructure/caching/json_cache.py`) | data and lock keys in Redis | get, set, single flight | lock expiry, slow and failing loaders, Redis down | a value is a loaded one; loaders are not run needlessly; nobody waits for ever |
| Retry and HTTP clients (`infrastructure/resilience/retry.py`, `infrastructure/external_apis`) | attempt counter | attempt, back off, give up | retries around the breaker, unmapped errors | budget bounds the requests; every failure becomes a domain error |
| Market data staging and replay | ingest runs, raw payloads, bars | start, save, upsert, finish, replay | rollback of the ERROR mark, duplicate runs, replay over newer bars | bars equal the latest payload |
| Rate limiter (`infrastructure/middleware/rate_limit.py`) | token bucket per client and path | refill, take, refuse | rounding at the edge of the bucket, headers written after the answer | no more pass than the limit says; who waits as told passes |
| Quotes (`application/use_cases/quotes`, `adapters/gateways/marketstack_gateway.py`) | cache entries per quote and per page | latest quotes, a page of history | several awaits per entry, pages of different ages, a row limit across tickers | pages put together lose no bar; nothing is left out that exists |
| Data quality (`run_statement_dq`, the overlay) | runs, fact rows, anomalies | run rules, read overlay | facts replaced between queries, rows of several runs in one overlay | a run judges one payload; an overlay covers its run |
| Series and restatements (`get_*_timeseries`, `get_restatement_*`) | none: they read versions | fundamentals, derived metrics, delta, ledger, timeline | several queries per answer, versions of several dates under one sequence | four queries and two routers tell the same; nothing that was there is missed |
| Reconciliation (`application/use_cases/reconciliation`) | checks, alignments | run rules, ledger, summary, upsert alignments | stale choice of versions, update-then-insert side by side | the newest are reconciled; batches stay whole |
| Normalization and overrides | override rules | collect rules, decide, choose a fact | rules edited between queries, precedence | decided by the table as it was; order is irrelevant |
| HTTP surface, MCP client | none | status and body of an answer, advice to retry | errors renamed three times on the way | equal answers for equal questions; retry only when it may help |
| JWKS cache | key set with expiry, one client per request | get, forced refresh | none: nothing is shared | a known key verifies |

The use cases call the gateways (HTTP clients behind retry and breaker) and the
repositories inside one unit of work; the middleware wraps every write request;
the quotes use cases read and fill the cache. Ingest writes the versions that
normalization fills and that series, restatements, data quality and
reconciliation read. The remaining parts (metrics, logs, probes, migrations,
scripts) keep no state that a request's result depends on.

## Modules

Three modules compose components that share no state in the models, so that one run
and one proof module serve them: `Requests` (Idempotency, RateLimit, HistoricalQuotes,
LatestQuotes), `StatementTables` (StatementPipeline, StatementAlignment) and
`NormalizedStatements` (Normalization, DataQuality, FilingDiscovery, FactRules,
ReconciliationRules). Each instantiates its guests, states their assumptions and
repeats the name of the guests' properties; the MC module explores one part at a
time.

### CircuitBreaker

State: the breaker's four fields, with `_opened_at` replaced by the time since
(`openFor`, capped at the recovery window) and the calls inside `guard()`.
`AdmitClosed`, `StartProbing`, `AdmitProbe` and `Reject` are the ways through the
entry; `Fail` and `Succeed` are the two exit branches; `Cancel` is an exit that
runs neither, because `CancelledError` is not an `Exception`. Entry and exit are
atomic: their critical sections do not await. `_failures` saturates at the
threshold, beyond which the code only compares.

* `breaker` (3 calls, threshold 2, window 2, 2 slots, 2 cancellations): the
  failure budget, the wedge by cancellation, recovery.
  Three calls give two probes and a late result; two cancellations are as many
  as there are slots, so the wedge is reached.
* `breaker_wedge` (1 slot, 1 cancellation): the docstring's "HALF-OPEN -> allow
  limited calls; on success -> CLOSED; on failure -> OPEN" fails: one cancelled
  probe leaves the breaker rejecting for ever.

Fairness: `WF(Tick)` (the clock advances), `WF(Exit(c))` (httpx gives each request
a timeout, so a guarded call ends) and `WF(\E c : Enter(c))` (callers keep
calling whenever the breaker would let them in). Recovery is claimed only when
the upstream stays up, and only up to the wedge.

### Idempotency

One key. State: the row, and for every request with the key its position in
`dispatch()`, the row it read, its hash and its answer. `Lookup` is `get_active`
with the four answers that follow; `SelectRow`, then `InsertStarted`,
`InsertConflicts` or `Restart`, are `create_started`; `RunHandler` is the
downstream handler; `SaveResult` is `save_result`; `Abort` is an exception, a
disconnect or a crash on either side of the handler's effect; `Expire` is the
TTL. A flush writes only the columns that differ from what the session read
(`Column`), so racing writers can each leave columns in the row.

* `idempotency` (3 requests, 2 hashes, 2 expiries): apart from the two races
  named in the module (`raced`: a restart of a record that became active after
  the lookup; `outlived`: the record expires under a request) the handler takes
  effect at most once per record and every replay is the response to an equal
  request; even with them, state and status agree (proved only).
  Three requests are two racers and a retry; two expiries let a record be
  renewed and expire again.
* `idempotency_race` (no expiry): without the first exception the docstring's
  promise fails: two requests whose lookups both found nothing.

### StatementPipeline

The use cases that write filings, statement versions and facts of one company. A
job is a call slot; `Call` takes a request, a step is a database statement, and
each job runs in one READ COMMITTED transaction (`held` and `rows` are its
uncommitted work). A unique index makes an insert wait for an uncommitted
duplicate (`MustWait`) and fail on a committed one (`InsertConflict`).
Payloads are values of their own (`Payloads`: what a document maps to under the rules
of one day or of a later one): `Normalize` writes what it computed, `UpdatePayload`
puts what its caller supplies over whatever is there, and facts are named by the
payload they were flattened from. `overtaken` and `stale` record which persists and
which facts such an overwrite has left behind.

* `pipeline`, part `tables` (3 call slots, 4 calls, four filings on two dates,
  two types, two payloads): the tables can be believed (`TablesStayTrue`: unique keys, filings
  and versions together, a normal return means stored), facts belong to their
  identity unless their payload was overwritten, no circular wait unless the syncs
  under way have no common order of dates, history preserved. The requests contain
  the collisions that matter: same filing twice, two filings with one date, an
  identity shared by two dates, a payload that replaces another, and a late amendment
  whose sync takes the two dates in the opposite order of another's. Of the order of a
  batch only the gateway's own sort is assumed (`Filed`: filing date, then accession). `MaxRows = 2` never bites:
  an identity has two dates here, and one key cannot be held by two transactions.
* `normalize_in_place`, `ingest_idempotent` (1 job, 2 calls): two documented
  sentences that fail sequentially.

### StatementAlignment

`upsert_alignments` and the two queries over `sec.edgar_statement_alignment`.
`LookUp` resolves the identities of a batch, then each row is updated
(`Update`) or, when nothing was (`NothingUpdated`), inserted (`Insert`); an
uncommitted row of another call makes both wait. `ExitUseCase` is
`PersistStatementAlignmentUseCase`, whose `__aexit__` does not commit.

* `pipeline`, part `alignment` (3 calls, 3 versions of which two share an
  identity, 3 batches): committed calls can be ordered so that the rows are those
  of running them one after the other, although a batch locks row by row; the
  latest alignment of a key is the last of its timeline. Two batches in opposite
  orders and one whose records are taken for the same version are the ways a
  batch could be torn. The two parts share no table, so that one at a time is
  explored (`MCStatementTables`).

### ReadThroughCache and SingleFlightCache

`ReadThroughCache` is the contract of read-through caching for one key: a call
answers with the entry, or, having met it empty, with what it loads and stores.
It is `read_through_json`, with leave to look again before loading.
`SingleFlightCache` is `get_or_set_json_singleflight`: lookup, `SET NX EX`,
second lookup and load for the lock's holder, polling and a load without the lock
for the others. A value is known by its age, the ticks since the loader read the
source; TTLs and deadlines count down with `Tick`. `Raise` is an exception of
Redis or the loader or a cancellation at any `await`; a command whose reply is
lost may have been applied. Calls repeat without bound, so no counter is capped;
`MaxLoad` bounds the time from reading the source to the write.

* `single_flight` (3 calls, entry and lock 2 ticks, wait 1, load up to 2): loads
  overlap only when a lock was outlived or a wait was in vain; answers have a
  bounded age; an entry is overwritten only when the call that stores or the one that
  had stored has outlived its lock or waited in vain; every call ends; the contract is
  implemented (`ImplementsReadThrough`, refinement mapping `Phases`). A load can
  outlast each of the three durations, since the time before it reads the source
  is not bounded, and three calls are an outlived holder, its successor and a
  waiter.

Fairness: `WF(Tick)` (time passes) and `WF(Progress(c))` for a call under way
(Redis answers, the loader's HTTP client times out, `asyncio.sleep` returns).
No fairness is assumed of new calls or of getting the lock.

The function is exercised by its test only; the quotes use cases call
`get_json` and `set_json` themselves, which is read-through caching without the
lock: for them a bounded age holds, and entries are overwritten at will.

### HttpClients

`MarketstackClient` and `EdgarClient` over `CircuitBreaker` (INSTANCE). A call is a
public operation: it fetches a page, the pages of a listing, the submissions or the
candidate URLs of an XBRL document. `Send` enters the breaker, `Respond`, `Lost`,
`RespondLater` and `Cancelled` leave it, `Refused` is the breaker's `RuntimeError`,
`Rested` and `Wake` are the sleeps of `retry_async`; `ItemEnds` turns a result into
the next item or the outcome. Answers are told apart as far as a client treats them
differently.

* `http_clients` (2 calls, 1 retry, 2 items, threshold 2): what a client claims of
  several items is supported by what was answered for each; a call sends no more
  requests than its items and its budget allow; every call ends. Two items tell a
  listing cut short from a whole one: by `max_pages` (`MaxPages = 1`, kind `excerpt`),
  or by upstream, whose answer may have no rows, or be a list or something else that is
  no object. With two calls one trips the breaker under the other.

Fairness: `WF(Advance(c))`, that is, responses or time-outs come and sleeps end.

### FilingDiscovery

What sync and ingest see before they write: the provider's submissions document
(`Publish`, `Correct`), which the gateway reads (`ReadWindow`, `Locate`), and the
stored accessions a sync compares it with (`SelectNew`, `NothingNew`). `Store` and
`Conflict` are the writes, in one step; `CannotRead` is a row the gateway raises on,
`UnknownCompany` a company without a row in `ref.companies`, `Fail` the client or the
database.

* `normalized_statements`, part `discovery` (2 calls, 4 rows, 1 correction): what a
  call that returned had asked for and read is stored, nothing else is, a sync
  conflicts for a reason, and a window may be cut in two. The rows are a 10-K, its
  amendment of the same period, a 10-Q whose period is not a date and a form that is
  not listed; the columns of periods may be short.

### MarketIngest

Intraday ingest and replay over `ingest_runs`, `raw_payloads` and
`md_intraday_bars`: `StartRun`, `SavePayload`, `UpsertBar` (one row lock each),
`CommitIngest`; `ReadPayloads`, `UpsertBar`, `CommitReplay`; `IngestError` is the
ERROR mark that is rolled back with its run, `Abort` the database's answer to a
circle of waiting transactions, `Crash` the end of the process, `Revise` the
provider correcting a bar. The rows a job still has to upsert are a set with an
order (`Precedes`); `begun` and `saved` are the clocks of `started_at` and
`received_at`.

* `market_ingest` (2 jobs, 4 calls, 2 bars, nested windows, one correction): a
  SUCCESS and every bar have a stored payload; a replay leaves the bars of the last
  received payloads; bars go back only in three named ways; every job ends.
  A correction after the first ingest and one replay are needed for each of the
  ways.

Fairness: `WF(Step(j))`, that is, the database and the provider answer or fail.

### StatementVersions, Restatements, DerivedSeries, StatementRoutes, Analytics

`StatementVersions` is the table as queries see it, and the delta of two versions.
`Restatements` holds the four queries on a listing; the ledger has a comparison of
its own. `DerivedSeries` is the derived metrics engine with its formulas, specs and
histories; a history is a set of payloads, of which the code's sort by date takes the
newest (`Recent`). `StatementRoutes` is what the EDGAR and the fundamentals router make of
the answers: what each checks first, statuses, strings for decimals, schemas, pages,
bundles, the catalog. A series is a set of points, whose order is that of its dates: a
page is the points with the ranks of the page (`Slice`). `Analytics` adds time: `StoreVersion` and `NormalizeVersion`
go on between the reads (`ReadYear`, `ReadLatestVersion`, `ReadHistory`,
`ReadLatest`) of a query; `AnswerPage` and `AskNextPage` are a client that pages
through a series; `AppendChecks` stores what a reconciliation found, `SummaryRoute`
and `LedgerOf` read it back.

* `analytics` (2 types, 3 dates in 2 years, 3 versions, 2 queries): queries and
  routes tell the same; an answer covers what was there at its call; pages lose
  nothing; the newest are reconciled; summaries add up with ledgers.
  `PageSize = 1` makes every date a page, and only the versions of two dates
  (`Paged`) are paged through; after one query a second is followed only when it is
  a reconciliation, on one version less, since no other query writes. Three
  versions are an original, its restatement and one of another date. `Quarter = 1`
  shortens the trailing windows to one period, so that two versions fill them.

A check before the first call covers every listing that can be stored, because
queries write nothing that listings depend on.

### Normalization, DataQuality, ReconciliationRules, FactRules

`Normalization` reads rules concept by concept, in any order, while `EditRule` edits
the table, then decides and chooses facts; the database may return the rules of a
concept in any order. `ApplyOverrides` is the other way to the engine.
`DataQuality` is `run_statement_dq` (`StartRun`, `Judge` per metric, `Stamp`,
`StoreRun`) and the overlay (four queries), with `ReplaceFacts` and `StoreVersion` in
between, and what the routes answer. Every repository call resolves the identity of a
statement anew (`Resolved`): it stands for its row with the lowest
`statement_version_id`, which `StoreVersion`, a row of another date in the same year,
can change. `ReconciliationRules` is the engine with all categories over any
books; `FactRules` holds the two judges no use case calls. The index that the first
of them has of the past of a metric is a set of positions in the list of the past,
whose last by date (`LastOf`) a fact is compared with.

* `normalized_statements`: five parts that share no table (`part`; discovery is
  above). Every decision
  is the one the precedence makes over the table as it was read, a rule without a
  metric suppressing the concept, and order of
  documents and rows is irrelevant (2 rule ids, 1 edit during a call, six documents
  and thirteen rules chosen for precedence, dates, units and unusable facts); an
  overlay covers its run and a run judges one payload (2 jobs, a statement with one row
  and then two, of which the later has the lower id, 2 metrics, 2 replacements, 2 runs,
  of two anomalies one is cut off); verdicts are
  true of complete books and do not depend on order (2 statements or 3 facts);
  the judges do not contradict each other (2 facts, 2 of the past). Two statements
  of two years are what a rollforward relates; three facts are a parent and two
  children.

### QuoteRoutes, HistoricalQuotes, LatestQuotes, RateLimit

`QuoteRoutes` follows an error from the provider's status to what an agent is told.
`HistoricalQuotes` is an agent that reads page after page (`Walk`, `Hit`, `Miss`,
`Ask`, `Store`) while `Publish` puts bars in front and entries expire; a page is the set of its bars with the total it was answered with. `LatestQuotes`
reads tickers from the cache one by one, asks once for the rest (`Fetch`), stores
and merges; a call keeps positions of its request, so that a ticker that is asked
for twice may be found once and missing once. Either gateway of the settings is
covered.
`RateLimit` is one bucket: `LetThrough` and `Refuse` are `dispatch` up to its await,
`Respond` and `Raise` what follows.

* `idempotency` also explores these (`MCRequests`, `part`): pages put together lose
  no bar unless one came from an older cache entry or the page size exceeds what an
  intraday answer may have; an agent is told to retry exactly when that may help, but for
  JSON that is no object; a ticker is left out only when it has no bar in the days asked
  for or is cut off by newer rows; cached
  quotes go back only by a call that was overtaken; no window lets more requests
  pass than burst plus rate, and who waits as told passes.
  Two agents, three bars and two walks are a page that moves under a reader; three
  days, of which a request looks back one (`Lookback`), two rows and three requests an entry overtaken and a ticker cut off; one of
  the requests names a ticker twice; eight
  ticks of half a second and a burst of two empty the bucket and refill it;
  `MaxTaken = 5` requests let through are the burst and three refills.

`CHECK_DEADLOCK FALSE` in the runs of Idempotency, StatementPipeline, MarketIngest,
Analytics, MCRequests, MCStatementTables and MCNormalizedStatements: when all
requests are answered, all calls are spent or the provider's document is full, the
system has nothing left to do. A circular wait between
transactions is `NoWaitCycle`, an invariant, or `JobsEnd`.

## What is proved

For every value of the constants that satisfies the modules' assumptions. Each
proof module defines an inductive invariant `IInv`, shows that the initial states
satisfy it and that every action preserves it, and derives the properties.

* `CircuitBreakerProofs`: the safety properties of the breaker. `TypeOK` is not
  inductive: that the leaked slots stay below `HalfOpenMax` needs
  `SlotAccounting`, which needs that probes exist only while HALF_OPEN; the
  argument counts finite sets (`FS_AddElement`, `FS_RemoveElement`).
  `WedgeIsPermanent` shows that lost slots are never freed.
* `HttpClientsProofs`: slots are held exactly while a request is out, a call stays in
  its budget (`WithinBudget`: what was sent for the items before and the attempts made
  for this one, `Quota`), claims are founded (`EvidenceSoFar`: every item before the one
  being fetched has the rows or the 404 that lets the call go on).
* `RequestsProofs`, idempotency: all safety properties. `Always` holds whatever races
  (types, state and status agree in the row and in what each session has read,
  a running request has a row); `Quiet` holds until the first race (one
  execution, whose record is live, STARTED and its own; a stored response is one
  request's; what was read of an expired record is current). `RacesStay` lets the
  second part be assumed before every step after which no race is on record.
* `RequestsProofs`, limiter: `LimitKeepsItsWord` for any burst and any rate.
  `BucketInv` says of every moment remembered that what passed since then is at most
  the burst and the refill meanwhile, less what the bucket still holds: the bucket's
  content is what makes the bound inductive.
* `RequestsProofs`, historical quotes: `PagesReadEverything` and `RetriesMayHelp`, for
  any number of agents, bars, walks and page sizes. `IsPage` says of every page that is
  cached, read, kept from the walk before or about to be stored that it is the page of
  its number in the list as it was when the list had that total; `CountsRows`, that a
  walk goes on exactly while rows are missing. The first page that reaches back to a
  bar of the first total (a least number: the library's well-ordering) then contains
  it, since totals do not fall. A walk that was refused has the answer of its fault.
* `RequestsProofs`, latest quotes: `OmittedOnlyWhenCut` and `QuotesGoBackOnlyThen`, for
  any number of callers, tickers, days and rows. `CallInv` says that a ticker asked
  for is left, missing or found in the cache, and that what was fetched is the newest
  of the provider's page for the missing ones; a ticker without a row in that page has
  no bar in the window of the request or at least `RowLimit` rows ahead of its newest
  there, which counts finite sets.
  `QuotesInOrder`: the call that asked last brings no older quote than the cache or any
  other call has, so that only an overtaken call can put one back.
* `SingleFlightCacheProofs`: all safety properties and the refinement. A held
  grant implies that the lock is on, so that at most one is held; age and
  remaining TTL of an entry add up to a bounded sum; a call that loads under a
  live lock has found no entry in its second lookup, so that it meets none that was
  stored under a lock. `StepReadThrough` maps every action
  to an action of the contract or a stutter.
* `StatementTablesProofs`, pipeline: `TablesStayTrue` with its three parts, facts
  belong to their identity unless overwritten, history is preserved, for any number of jobs, filings,
  types and calls. The invariant relates committed and uncommitted rows: `Keys` (no
  two rows a transaction can see share a key, a key held by one is held by no other),
  `JobInv` (what a job has written and read so far, by its position). `Writes`,
  `Stored` and `HasRead` (what a persist has read is a payload of its identity, unless
  it was overtaken) are the conjuncts a statement can disturb.
  `NoWaitCycle` is proved on top of it: in every order of dates that a writer's request
  follows it takes its keys downwards (`LocksDown`), so that among writers with one
  order the one that holds the lowest key waits for nobody. Nothing in the code gives
  all batches one order of dates, and the property does not claim it: batches that take
  two dates in opposite orders do wait for each other, which PostgreSQL resolves by
  aborting one (`Fail`).
* `StatementTablesProofs`, alignment: `BatchesStayWhole`. `RowInv` names the call a
  row is from and the identity it is about, while it is pending and once it is
  committed; `CallInv` says that all versions of a committed batch have a row; and
  `Ordered`, that of what two committed batches both wrote neither is the last at one
  version and the other at another, follows from the locks a batch holds until it
  commits. `LastIsLatest` relates the two queries of a statement.
* `NormalizedStatementsProofs`, data quality: a run judges one payload
  (`JudgeInv`: what a job has judged is a part of the facts it read at once), an
  overlay covers its run (`OverlayInv`: each of the four queries saw at least what
  the one before it saw, `RunsInv`: a stored run carries the grades of its anomalies).
  Which row a statement stands for changes in one direction, to a lower id, and never
  comes back, so that a run of the row it stands for now was one of that row at every
  query before; of the runs of a row that was passed over, only the verdicts stay.
* `NormalizedStatementsProofs`, discovery: `SyncsCoverTheirWindow`. The document
  changes between the reads of a call, so that `CallInv` says of what a call has
  found only that the provider has published it (`Published`), that it was asked for
  and that what is missing in the tables is among what the call will write; a
  conflict has one of the named reasons (`Excused`). `TablesInv` gives each stored
  filing its versions and a call that asked for it.
* `NormalizedStatementsProofs`, normalization: `DecidedByTable` for any rules, registry,
  documents and edits between queries (`ReadInv`: every concept is pending or was read
  once, every rule that was read stood in the table at one of the queries), from two
  lemmas about the engine: searching scope by scope finds the one rule that outranks
  all others (`PrecedenceIsTotal`), and the fact chosen is the first in a strict total
  order (`FirstOfFinite`). `OrderIsIrrelevant` is a case of `AnyOrderWillDo`, for every
  reordering of facts and rules.
* `NormalizedStatementsProofs`, the two judges: `JudgesAgree` for any facts, past and
  metrics. `JudgesInv` says that no fact of the past is listed twice and that the
  verdicts are those of the facts as they are. A list without repetitions has as many
  entries of a metric as there are facts of it (`AsManyOfMetric`), in every order, and
  the last of them by the key of the sort is the same fact (`OrderOfPast`). `OutgrownSwings` is the
  arithmetic of the two thresholds. It has a hypothesis, `ConfigsMatch`: the key
  metrics are among those an income statement must have, and the multiplier is at
  least three. Both hold of the defaults; with a multiplier of two a fact that goes
  from 2 to 5 outgrows its history and does not swing.
* `NormalizedStatementsProofs`, reconciliation: `BooksTie` for any rules, statements
  and facts. `BooksInv` says that no statement is listed twice, a statement has one
  fact of a metric and slice, and the results are those of the books as they are. The
  library's sum is a recursion over sets that takes elements in an order of its own:
  that it is one function for all orders is `SumsExist` and `SumIsDetermined`, by least
  counterexamples, and with it the sum over the cells of a table is that over its
  metrics (`SumOfImages`, `CellsAreMetrics`). A rule passes by results of its own
  (`PassedByItself`), a year by its representative (`RepresentativeIsIn`), and with one
  version of a type and year the bucket of a year does not depend on the order
  (`WholeBucket`). The assumptions are those of the rule classes: rules have ids of
  their own, sides are metrics, one slice has no dimension.
* `AnalyticsProofs`: answers cover their call, paging loses nothing, the newest are
  reconciled, summaries add up, for any versions stored and normalized between the
  reads, any page size and any number of queries. `Reading` says where what was picked comes from,
  and of what was stored at the call that the table still has it (`Kept`): no version
  leaves the table and a payload stays. `SeriesInv`: of the listings read, every date
  with a payload at the call has one point, none older. `PagesInv`: the dates a client
  missed are no more than those that vanished between two pages, which for the
  fundamentals series is none. `StatementInv` orders the two reads of a statement;
  `ReconcileInv` keeps a version that was superseded at the call out of what is picked;
  `ChecksInv` says of which version each stored check is. `BucketsSum` is the sum of a
  summary's buckets.
* `AnalyticsProofs`, routes: `RoutesTellTheSame`, for any versions and payloads. Of the
  history of the tables it needs only that a list the query returns holds every
  version of its type and year once, in order (`IsListing`), and that the newest
  versions of the dates have dates of their own (`IsSeries`); all else is about the
  queries themselves. `MovesAddUp` is a sum along a ledger, `MovesAreBounded` bounds
  it by a timeline's largest change times its count; `ComputeIs` and `BetweenIs` find
  the versions two sequences mean; `TextsTellApart` says that figures written as
  strings differ when the figures do, so that lines can be compared as an answer shows
  them. `FormulasAre` and `ResultsAre` unfold each metric once. A growth figure
  compares with the latest of the points it may compare with (`GrowthIs`); the windows of
  a trailing one are counted from the newest point by the engine and from the oldest by
  the property, and a count of what lies before and after a point makes them the same
  (`WindowsAre`). `PagesAre` cuts a series by the places of its dates.
  Assumed of the constants: there are finitely many metrics (the enum's), and NULL is
  neither a figure nor a list of metrics (`VersionsAssumption`, `FiguresAssumption`).
* `MarketIngestProofs`: `StagingComplete`, `ReplayReproduces` and `BarsGoBackOnlyThen`,
  for any number of use cases, windows, bars and revisions. `CountInv` counts the
  stored runs of a window together with the use cases that will insert one;
  `IngestInv` and `ReplayInv` relate what a transaction has written to what is left
  and to where it came from; `WrittenUpTo` says of a replay by itself that the rows
  of a bar still left are those received after the one it has written, which at the
  end makes it the last; `DoneInv` carries that until the next call.

Some theorems state what no run lists: the type invariants, `ColumnsAgree`,
`SlotsAreAccounted`, `SlotsFollowRequests`, `WedgeIsPermanent`,
`VersionsAreUnique`, `FilingsComeWithVersions` and `OkIsStored`
(these three are the parts of `TablesStayTrue`), `PrecedenceIsTotal` and
`AnyOrderWillDo`.

Only model-checked:

* `Recovers`, `EveryCallEnds`, `CallsEnd` and `JobsEnd`: liveness under fairness is
  out of the prover's reach.
* The four refuted sentences, which are counterexamples.

## Disagreements between code and documentation

`PROJECT.json` lists them with their quotes: `HalfOpenIsLeft` (a cancelled probe
keeps its slot), `ReplayOwnRequest` (`create_started` resets a row that became
active after the lookup), `NormalizesInPlace` (the normalized version is inserted,
not updated) and `IngestIdempotent` (repeating an ingest fails on the unique key).

## Met while modelling

Facts about the code that no property refutes and a maintainer should know.

* Ingest: every period is stored as FY, `version_sequence` is the position of the
  type in the request, and payloads come from `normalize_xbrl_statement` only, which
  inserts; `update_normalized_payload` has no caller. It would put any payload over a
  stored one, although `ARCHITECTURE.md` says repositories never overwrite, and leave
  the facts those of the old payload until the next persist.
  Two syncs, of which one begins with a late amendment of an older period, can insert
  the same dates in opposite orders; the database ends one of them.
  `process_xbrl_for_filing` asks
  for fiscal year 0 and always ends with "no versions found". The quarterly series
  is always empty.
* Discovery: one row with a form that is not listed or a date that cannot be read ends
  every sync and ingest whose window has it; an amendment with the period of its
  original conflicts with it and fails the whole sync; a corrected filing date makes a
  stored filing look new; a short column of periods stores a wrong statement date for
  good, which can conflict later. The docstring of `fetch_recent_filings` gives an
  empty list for a limit that is not positive, where the code returns all.
* Market data: the ERROR mark is rolled back with its run; concurrent first
  `start_run`s insert two; `fetch_intraday_bars` reads one page; a windowed replay
  or overlapping jobs can send a bar back.
* Restatements: the fundamentals delta route answers 500 whenever something
  changed (decimals where strings are wanted); the delta may raise on another
  date's version without a payload. The normalized-statements route and the
  reconciliation ledger route (no `from_primitives`) always answer 500, the EDGAR
  routes answer 500 unless a controller is put in for `get_edgar_controller`, and
  "no facts" is answered 502. `include_normalized=False` still includes the
  payload. Pages of a derived series can miss points that vanish in between.
* Data quality: fact rows carry no run id, so that rows of two runs mix in an
  overlay. Once another row of the same identity with a lower id is stored, the overlay
  names no run or an older one while it still shows the fact rows of the newer.
  Anomalies are sorted by the name of their severity; the spike rule can
  compare the newest fact with itself. `FactDQEngine` always reports severity NONE
  on a fact, since severities are compared as strings; negative revenue is HIGH to
  one judge and "safe to model" to the other.
* Normalization: facts with context dimensions may be chosen; a rule moved between
  concepts during a call can be missed. Step 6 of the engine's docstring
  (`xbrl_mapping_overrides.py:248-251`) keeps the base metric under a rule that has no
  target and is not suppressive; the code (611-614) and the docstring of the rule
  (107-114) suppress it.
* Reconciliation: a missing metric is zero unless all are; a metric in two
  statements is counted twice; children with further dimensions are counted twice;
  fx is a stub; `allow_53_week` and `max_gap_days` are ignored; of the default rules
  only the calendar's is ever built. `persist_statement_alignment` never commits,
  although its docstring leaves that to the unit of work;
  `get_alignment_for_statement` ignores the sequence of its identity; records with
  equal identity and different dates hit one row; of two first upserts of a row one
  batch is refused as a whole.
* Quotes: a 200 whose JSON is no object raises `AttributeError` in
  `_validate_list_payload` (`marketstack_gateway.py:184`) and ends as a 500, which an
  agent is told to retry; a page without data ends a listing as if it were the last; a
  ticker with no bar in the last five days is left out. The ETag of `/v2/quotes` digests the tickers only, so that a client that
  sends it back gets 304 for ever; the quotes routes know no rate limit or quota
  error (500); intraday pages are clamped to 100 rows after the page size was
  accepted; the deterministic gateway has no latest quotes (503).
* Limiter: the settings describe the burst as the most requests per window, where
  the bucket allows burst plus rate times window; `main.py` never sets a rate below
  one per second; buckets are never evicted.

## Not modelled, and why

* XBRL parsing and the taxonomy tables: data, and reached by no path that finds a
  version. The default reconciliation rule sets but the calendar's: they need
  metrics the enum lacks. The classification of fiscal calendars and the override
  validator: used by tests only.
* The override trace: its use case asks a repository class that does not exist, so
  that it always answers 503, and its report iterates a record that cannot be
  iterated.
* The EDGAR listing routes (filings, versions): their use cases are protocols
  without an implementation.
* Redis connections, JWKS (a client per request shares nothing), metrics, logs,
  probes, settings, headers, migrations, scripts and dashboards: I/O around the
  use cases.
* Within the modelled parts: one idempotency key, one cache key, one bucket, one
  symbol and one company at a time, since different ones share no state; rounding;
  the numbers and texts inside payloads that nothing compares.

## Plan

What is left is `AtMostOneEffect` composed with ingest: what a retry through the
idempotency middleware finds in the statement tables.
