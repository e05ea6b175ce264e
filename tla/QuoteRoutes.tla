----------------------------- MODULE QuoteRoutes -----------------------------
(***************************************************************************)
(* What becomes of a failed call for quotes on its way to an agent: the    *)
(* provider's answer, the gateway's exception, the status and code of the  *)
(* two routes and the error of the MCP client.  Nothing here has a state.  *)
(***************************************************************************)
EXTENDS Naturals

\* The ways in which the provider does not deliver a page: 429, 402, one of 400,
\* 401, 403 and 422, a 5xx or no connection, a body that is no JSON or an object
\* without a list of rows with the expected fields, and JSON that is no object at all.
Faults == {"limited", "quota", "refused", "down", "malformed", "no_object"}

\* The exception of the gateway.  It asks the payload for its keys before anything has
\* checked that it is an object.
ErrorOf ==
    [limited   |-> "MarketDataRateLimited",
     quota     |-> "MarketDataQuotaExceeded",
     refused   |-> "MarketDataBadRequest",
     down      |-> "MarketDataUnavailable",
     malformed |-> "MarketDataValidationError",
     no_object |-> "AttributeError"]

\* Every other exception goes to the application's handler.
Unhandled == [status |-> 500, code |-> "INTERNAL_ERROR"]

HistoricalAnswers ==
    [MarketDataValidationError |-> [status |-> 400, code |-> "VALIDATION_ERROR"],
     MarketDataRateLimited     |-> [status |-> 429, code |-> "RATE_LIMITED"],
     MarketDataQuotaExceeded   |-> [status |-> 402, code |-> "PROVIDER_QUOTA_EXCEEDED"],
     MarketDataBadRequest      |-> [status |-> 400, code |-> "UPSTREAM_SCHEMA_ERROR"],
     MarketDataUnavailable     |-> [status |-> 503, code |-> "MARKET_DATA_UNAVAILABLE"]]

\* The latest quotes know fewer exceptions.
LatestAnswers ==
    [MarketDataValidationError |-> [status |-> 500, code |-> "UPSTREAM_SCHEMA_ERROR"],
     MarketDataBadRequest      |-> [status |-> 502, code |-> "MARKET_DATA_BAD_REQUEST"],
     MarketDataUnavailable     |-> [status |-> 503, code |-> "MARKET_DATA_UNAVAILABLE"]]

Answered(answers, error) == IF error \in DOMAIN answers THEN answers[error] ELSE Unhandled

HistoricalAnswer(error) == Answered(HistoricalAnswers, error)
LatestAnswer(error)     == Answered(LatestAnswers, error)

RetriedStatusesToo == {402, 429, 500, 502, 503, 504}  \* mutant

\* to_mcp_error: its statuses that are worth another try.
RetriedStatuses == {429, 500, 502, 503, 504}

ToMcpError(answer) ==
    [type      |-> IF answer.status = 429 THEN "RATE_LIMITED" ELSE answer.code,
     retryable |-> answer.status \in RetriedStatuses]
=============================================================================
