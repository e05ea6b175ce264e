------------------------------- MODULE Requests -------------------------------
(***************************************************************************)
(* Parts of the HTTP side that share no state: what main.py puts around    *)
(* every request, HTTP idempotency and the rate limiter, and the two       *)
(* routes for quotes with the caches behind them.  What is shown of one    *)
(* holds whatever the others do.                                           *)
(***************************************************************************)
EXTENDS Idempotency, Integers, Sequences, FiniteSetsExt

\* Of the limiter; see RateLimit.
CONSTANTS Keys, Capacity, Unit, PerTick, PerSecond, MaxNow, MaxTaken
VARIABLES now, buckets, waiting, taken, promised

\* Of the quotes; see HistoricalQuotes and LatestQuotes.
CONSTANTS Agents, Sizes, Cap, MaxBars, MaxWalks,
          Tickers, Asked, LastDay, MaxCalls, Lookback, RowLimit
VARIABLES gateway, query, published, pages, agent, walks,
          today, traded, quotes, call, calls

RL == INSTANCE RateLimit
HQ == INSTANCE HistoricalQuotes
LQ == INSTANCE LatestQuotes WITH Callers <- Agents

ASSUME Limiter == RL!LimiterAssumption
ASSUME Historical == HQ!HistoricalAssumption
ASSUME Latest == LQ!LatestAssumption

\* No more requests pass than the limit says, and who is told to come back passes.
\* (RateLimitMiddleware.dispatch; stated in RateLimit)
LimitKeepsItsWord == RL!LimitKeepsItsWord

\* Pages whose totals never fall miss no bar of the first.  (GetHistoricalQuotesUseCase;
\* stated in HistoricalQuotes)
PagesReadEverything == HQ!PagesReadEverything

\* An agent is told to retry exactly when that may help, unless the provider's JSON is no
\* object.  (to_mcp_error and the historical route; stated in HistoricalQuotes)
RetriesMayHelp == HQ!RetriesMayHelp

\* A ticker is left out only when it has no recent bar or is cut off.  (GetQuotes; stated in
\* LatestQuotes)
OmittedOnlyWhenCut == LQ!OmittedOnlyWhenCut

\* A cached quote goes back only by a call that was overtaken.  (GetQuotes; stated in
\* LatestQuotes)
QuotesGoBackOnlyThen == LQ!QuotesGoBackOnlyThen
=============================================================================
