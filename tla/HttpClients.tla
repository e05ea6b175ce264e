----------------------------- MODULE HttpClients -----------------------------
(***************************************************************************)
(* The outbound HTTP clients: MarketstackClient and EdgarClient, their     *)
(* retries (retry_async) and the circuit breaker every attempt passes.     *)
(*                                                                         *)
(* A call is one public operation of a client.  It fetches one item (a     *)
(* page, a JSON document) or several in order (the pages of a listing, the *)
(* candidate URLs of an XBRL document); each item is fetched by attempts   *)
(* of its own retry budget; each attempt enters and leaves the breaker     *)
(* that all calls of the client share.  Between two attempts a call        *)
(* sleeps, outside the breaker.  Calls interleave at every await.          *)
(*                                                                         *)
(* A response is told apart by how the client treats its status and body.  *)
(* Any response, whatever its status, is a success to the breaker.         *)
(***************************************************************************)
EXTENDS Naturals, FiniteSets

CONSTANTS
    Calls, FailureThreshold, RecoveryTimeout, HalfOpenMax, MaxCancels,  \* the breaker's
    Budget,     \* RetryPolicy.total
    Items,      \* pages a listing has; candidate URLs of an XBRL document
    MaxPages    \* max_pages of an excerpt

ASSUME ClientAssumption ==
    /\ Budget \in Nat
    /\ Items \in Nat \ {0}
    /\ MaxPages \in Nat \ {0}

VARIABLES
    state, failures, openFor, halfOpenCalls, guarded, upstream, probes, leaked, cancels,
    provider,  \* which client this is; its breaker is its own
    kind,      \* the operation each call performs
    pc,        \* idle, ready to send, waiting for the response, sleeping
    attempt,   \* retry_async's attempt, of the current item
    item,      \* page, or index of the candidate URL
    got,       \* pages collected
    outcome,   \* what the last call returned or raised
    sent,      \* history: requests this call has sent
    bare       \* history: items answered with nothing to read, and how

Breaker == INSTANCE CircuitBreaker

breakerVars == <<state, failures, openFor, halfOpenCalls, guarded, upstream, probes, leaked, cancels>>
callVars    == <<kind, pc, attempt, item, got, outcome, sent, bare>>
vars        == <<breakerVars, provider, callVars>>

\* An excerpt is a listing of at most MaxPages pages.
KindsOf(p) ==
    IF p = "marketstack" THEN {"page", "listing", "excerpt"} ELSE {"submissions", "xbrl"}

\* 200 with a usable body; with an empty list of rows, without a list, or with JSON that
\* is no object; with another body; 304, 404, 400/401/403/422, 402, 429 without and with
\* Retry-After, 5xx.
Answers == {"ok", "no_rows", "no_list", "no_object", "garbled", "not_modified", "not_found",
            "bad", "quota", "limited", "limited_hint", "server"}

\* MarketstackClient parses the body of a 404 and the like as that of a 200, and maps a
\* 429 with Retry-After in RespondLater; EdgarClient does not look for rows.
AnswersTo(p) ==
    Answers \ IF p = "marketstack" THEN {"not_found", "limited_hint"}
              ELSE {"no_rows", "no_list", "no_object"}

\* The answers that have nothing to read.
Bare == {"no_rows", "no_list", "no_object", "not_modified", "not_found"}

\* What an attempt returns, or the exception it raises.
Values == {"payload", "empty", "no_rows", "no_object"}
Raised == {"bad_request", "quota", "rate_limited", "unavailable", "invalid",   \* MarketData*
           "absent", "ingestion", "mapping",                                   \* Edgar*
           "runtime"}                                                          \* RuntimeError

\* Ends of a call that are not simply the exception of its last attempt; a program error
\* is an AttributeError or a TypeError.
Ends == {"page", "listing", "excerpt", "filings", "document", "missing", "cancelled",
         "program_error"}

TypeOK ==
    /\ Breaker!TypeOK
    /\ provider \in {"marketstack", "edgar"}
    /\ kind \in [Calls -> KindsOf(provider) \cup {"none"}]
    /\ pc \in [Calls -> {"idle", "ready", "waiting", "resting", "backoff"}]
    /\ attempt \in [Calls -> 0..Budget]
    /\ item \in [Calls -> 1..(Items + 1)]
    /\ got \in [Calls -> 0..Items]
    /\ outcome \in [Calls -> Raised \cup Ends \cup {"none"}]
    /\ sent \in [Calls -> Nat]
    /\ bare \in [Calls -> SUBSET (Bare \X (1..(Items + 1)))]

Init ==
    /\ Breaker!Init
    /\ provider \in {"marketstack", "edgar"}
    /\ kind = [c \in Calls |-> "none"]
    /\ pc = [c \in Calls |-> "idle"]
    /\ attempt = [c \in Calls |-> 0]
    /\ item = [c \in Calls |-> 1]
    /\ got = [c \in Calls |-> 0]
    /\ outcome = [c \in Calls |-> "none"]
    /\ sent = [c \in Calls |-> 0]
    /\ bare = [c \in Calls |-> {}]

Set(f, c, value) == [f EXCEPT ![c] = value]

-----------------------------------------------------------------------------
(* What one attempt amounts to.                                            *)

\* MarketstackClient: the page after the last has no rows; 304 gives {}, which has no
\* list either.
Marketstack(c, answer) ==
    CASE answer = "ok"                           -> IF item[c] <= Items THEN "payload" ELSE "no_rows"
      [] answer \in {"no_rows", "no_object"}     -> answer
      [] answer \in {"no_list", "not_modified"}  -> "empty"
      [] answer = "garbled"                      -> "invalid"
      [] answer = "bad"                          -> "bad_request"
      [] answer = "quota"                        -> "quota"
      [] answer = "limited"                      -> "rate_limited"
      [] answer = "server"                       -> "unavailable"

\* EdgarClient: 429 with Retry-After calls asyncio.run inside the running loop,
\* which raises RuntimeError.  Bytes are not parsed.
Edgar(c, answer) ==
    CASE answer = "ok"           -> "payload"
      [] answer = "garbled"      -> IF kind[c] = "xbrl" THEN "payload" ELSE "mapping"
      [] answer = "not_modified" -> "empty"
      [] answer = "not_found"    -> "absent"
      [] answer = "limited_hint" -> "runtime"
      [] answer \in {"bad", "quota", "limited", "server"} -> "ingestion"

Meaning(c, answer) == IF provider = "edgar" THEN Edgar(c, answer) ELSE Marketstack(c, answer)

\* RuntimeError of the breaker: mapped by EdgarClient, passed on by MarketstackClient.
Refusal == IF provider = "edgar" THEN "ingestion" ELSE "runtime"

\* httpx.RequestError: timeouts, connection failures.
TransportError == IF provider = "edgar" THEN "ingestion" ELSE "unavailable"

Retryable(x) == x \in IF provider = "edgar" THEN {"ingestion"} ELSE {"rate_limited", "unavailable"}

-----------------------------------------------------------------------------
(* The end of an attempt, of an item, of a call.                           *)

\* The outcomes that say something of all the items of a call.
Claims == {"listing", "excerpt", "missing"}

\* Of a call that is over only what a property looks at is kept: its outcome and,
\* when that is a claim, the evidence for it.
End(c, how) ==
    /\ pc' = Set(pc, c, "idle")
    /\ kind' = Set(kind, c, "none")
    /\ outcome' = Set(outcome, c, how)
    /\ attempt' = Set(attempt, c, 0)
    /\ sent' = Set(sent, c, 0)
    /\ item' = IF how \in Claims THEN item ELSE Set(item, c, 1)

NextItem(c) ==
    /\ pc' = Set(pc, c, "ready")
    /\ item' = Set(item, c, item[c] + 1)
    /\ attempt' = Set(attempt, c, 0)
    /\ UNCHANGED <<kind, outcome, sent>>

Note(c, seen) ==
    bare' = Set(bare, c, IF outcome'[c] \in Claims \cup {"none"} THEN bare[c] \cup seen ELSE {})

\* eod and intraday through the gateway: a payload without a list of rows is refused,
\* and asked for the list before it is known to be an object.
PageEnds(c, x) ==
    /\ kind[c] = "page"
    /\ \/ x \in {"payload", "no_rows"} /\ End(c, "page")
       \/ x = "empty" /\ End(c, "invalid")
       \/ x = "no_object" /\ End(c, "program_error")
       \/ x \in Raised /\ End(c, x)
    /\ UNCHANGED got

ListingKept(c, how) == End(c, kind[c]) /\ UNCHANGED got  \* mutant: the pages so far

\* An error ends the listing without its pages.
ListingFails(c, how) == End(c, how) /\ got' = Set(got, c, 0)

AtMaxPages(c) == kind[c] = "excerpt" /\ item[c] = MaxPages

\* _paged_all: pagination.total may end the listing at its last page and max_pages after
\* any, otherwise an empty page does; a payload without rows is taken for one, and so is
\* JSON that is no object when Python takes it for false.  A total may be no number.
ListingEnds(c, x) ==
    /\ kind[c] \in {"listing", "excerpt"}
    /\ \/ /\ x = "payload"
          /\ got' = Set(got, c, got[c] + 1)
          /\ \/ ~AtMaxPages(c) /\ NextItem(c)
             \/ (AtMaxPages(c) \/ item[c] = Items) /\ End(c, kind[c])
       \/ x \in {"empty", "no_rows", "no_object"} /\ End(c, kind[c]) /\ UNCHANGED got
       \/ x \in {"payload", "no_object"} /\ ListingFails(c, "program_error")
       \/ x \in Raised /\ ListingFails(c, x)

\* Submissions through the gateway: {} lacks the required keys, and one filing of
\* an unsupported form makes the whole answer unusable.
SubmissionsEnd(c, x) ==
    /\ kind[c] = "submissions"
    /\ \/ x = "payload" /\ End(c, "filings")
       \/ x = "payload" /\ End(c, "mapping")
       \/ x # "payload" /\ End(c, IF x \in Values THEN "ingestion" ELSE x)
    /\ UNCHANGED got

XbrlTriesOn(c, x) ==  \* mutant: any EdgarError moves on to the next candidate
    /\ kind[c] = "xbrl"
    /\ \/ x \in Values /\ End(c, "document")
       \/ x \in {"absent", "ingestion"} /\ item[c] < Items /\ NextItem(c)
       \/ x \in {"absent", "ingestion"} /\ item[c] = Items /\ End(c, "missing")
       \/ x = "runtime" /\ End(c, x)
    /\ UNCHANGED got

\* fetch_xbrl: EdgarNotFound moves on to the next candidate URL.
XbrlEnds(c, x) ==
    /\ kind[c] = "xbrl"
    /\ \/ x \in Values /\ End(c, "document")
       \/ x = "absent" /\ item[c] < Items /\ NextItem(c)
       \/ x = "absent" /\ item[c] = Items /\ End(c, "missing")
       \/ x \in Raised \ {"absent"} /\ End(c, x)
    /\ UNCHANGED got

ItemEnds(c, x) == PageEnds(c, x) \/ ListingEnds(c, x) \/ SubmissionsEnd(c, x) \/ XbrlEnds(c, x)

AttemptedOnceMore(c, x) ==  \* mutant: attempt > policy.total
    \/ /\ Retryable(x)
       /\ attempt[c] <= Budget
       /\ pc' = Set(pc, c, "backoff")
       /\ UNCHANGED <<kind, attempt, item, got, outcome, sent>>
    \/ /\ ~Retryable(x) \/ attempt[c] > Budget
       /\ ItemEnds(c, x)

\* retry_async: only an exception is retried, and the first result is returned
\* without asking.
Attempted(c, x) ==
    \/ /\ Retryable(x)
       /\ attempt[c] < Budget
       /\ pc' = Set(pc, c, "backoff")
       /\ UNCHANGED <<kind, attempt, item, got, outcome, sent>>
    \/ /\ ~Retryable(x) \/ attempt[c] >= Budget
       /\ ItemEnds(c, x)

-----------------------------------------------------------------------------
(* Steps of a call.                                                        *)

Call(c) ==
    /\ pc[c] = "idle"
    /\ pc' = Set(pc, c, "ready")
    /\ \E k \in KindsOf(provider) : kind' = Set(kind, c, k)
    /\ attempt' = Set(attempt, c, 0)
    /\ item' = Set(item, c, 1)
    /\ got' = Set(got, c, 0)
    /\ outcome' = Set(outcome, c, "none")
    /\ sent' = Set(sent, c, 0)
    /\ bare' = Set(bare, c, {})
    /\ UNCHANGED <<breakerVars, provider>>

Send(c) ==
    /\ pc[c] = "ready"
    /\ Breaker!Enter(c)
    /\ pc' = Set(pc, c, "waiting")
    /\ sent' = Set(sent, c, sent[c] + 1)
    /\ UNCHANGED <<provider, kind, attempt, item, got, outcome, bare>>

RefusedTriesAgain(c) ==  \* mutant: a refused attempt costs nothing
    /\ pc[c] = "ready"
    /\ Breaker!Reject(c)
    /\ UNCHANGED <<provider, callVars>>

Refused(c) ==
    /\ pc[c] = "ready"
    /\ Breaker!Reject(c)
    /\ Attempted(c, Refusal)
    /\ Note(c, {})
    /\ UNCHANGED provider

\* The request times out or the connection fails.
Lost(c) ==
    /\ pc[c] = "waiting"
    /\ Breaker!Fail(c)
    /\ Attempted(c, TransportError)
    /\ Note(c, {})
    /\ UNCHANGED provider

Respond(c) ==
    /\ pc[c] = "waiting"
    /\ Breaker!Succeed(c)
    /\ \E answer \in AnswersTo(provider) :
         /\ Attempted(c, Meaning(c, answer))
         /\ Note(c, ({answer} \cap Bare) \X {item[c]})
    /\ UNCHANGED provider

\* MarketstackClient sleeps the Retry-After of a 429 or 5xx before it raises, the
\* last attempt included.
RespondLater(c) ==
    /\ pc[c] = "waiting"
    /\ provider = "marketstack"
    /\ Breaker!Succeed(c)
    /\ pc' = Set(pc, c, "resting")
    /\ UNCHANGED <<provider, kind, attempt, item, got, outcome, sent, bare>>

Rested(c) ==
    /\ pc[c] = "resting"
    /\ \E x \in {"rate_limited", "unavailable"} : Attempted(c, x)
    /\ Note(c, {})
    /\ UNCHANGED <<breakerVars, provider>>

\* The end of the backoff sleep.
Wake(c) ==
    /\ pc[c] = "backoff"
    /\ attempt' = Set(attempt, c, attempt[c] + 1)
    /\ pc' = Set(pc, c, "ready")
    /\ UNCHANGED <<breakerVars, provider, kind, item, got, outcome, sent, bare>>

\* The caller's task is cancelled, in flight or asleep.
Cancelled(c) ==
    /\ \/ pc[c] = "waiting" /\ Breaker!Cancel(c)
       \/ pc[c] \in {"resting", "backoff"} /\ UNCHANGED breakerVars
    /\ End(c, "cancelled")
    /\ got' = Set(got, c, 0)
    /\ Note(c, {})
    /\ UNCHANGED provider

Environment ==
    /\ Breaker!Tick \/ Breaker!UpstreamChanges
    /\ UNCHANGED <<provider, callVars>>

Answered(c) == Lost(c) \/ Respond(c) \/ RespondLater(c)
Advance(c)  == Send(c) \/ Refused(c) \/ Answered(c) \/ Rested(c) \/ Wake(c)

Next == (\E c \in Calls : Call(c) \/ Advance(c) \/ Cancelled(c)) \/ Environment

Spec == Init /\ [][Next]_vars

\* httpx gives every request a timeout, sleeps end, and the event loop resumes
\* a call that can go on.
FairSpec == Spec /\ \A c \in Calls : WF_vars(Advance(c))

-----------------------------------------------------------------------------
(* Properties.                                                             *)

\* A call holds a place in the breaker exactly while its request is in flight:
\* no sleep, no retry and no error path keeps a HALF_OPEN slot.
SlotsOnlyInFlight == guarded = {c \in Calls : pc[c] = "waiting"}

\* "Outbound I/O uses bounded retries": whatever the answers, refusals and
\* timeouts, a call sends at most Budget + 1 requests per item.
BudgetBounds == \A c \in Calls : sent[c] <= item[c] * (Budget + 1)

\* What a client claims about several items, each of them fetched with retries of
\* its own, every answer supports.  fetch_xbrl reports that a filing has no XBRL
\* document only when EDGAR answered 404 for every candidate URL: an outage, a
\* refusal by the open breaker or a rate limit in between is never taken for an
\* absent document.  A listing that ends normally has every page or the number that was
\* asked for, unless upstream itself answered the page after those it has without rows:
\* a refusal, a time-out or an error of any page fails the listing as a whole.
ClaimsHaveEvidence ==
    \A c \in Calls :
        /\ outcome[c] = "missing" => \A i \in 1..Items : <<"not_found", i>> \in bare[c]
        /\ outcome[c] \in {"listing", "excerpt"} =>
             \/ got[c] = Items
             \/ outcome[c] = "excerpt" /\ got[c] = MaxPages
             \/ got[c] = item[c] - 1 /\ \E answer \in Bare : <<answer, item[c]>> \in bare[c]

\* Every call ends: a rejection, a rate limit or an outage that lasts costs at
\* most its budget.
CallsEnd == \A c \in Calls : pc[c] # "idle" ~> pc[c] = "idle"
=============================================================================
