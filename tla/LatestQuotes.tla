----------------------------- MODULE LatestQuotes -----------------------------
(***************************************************************************)
(* Latest quotes: GET /v2/quotes reads the quotes of its tickers from the  *)
(* cache, one by one, asks the provider once for those that are missing,   *)
(* stores the quotes it got, one by one, and answers with both.            *)
(*                                                                         *)
(* A quote is the day of its bar.  The provider answers with the first     *)
(* RowLimit rows of the days since today - Lookback, the newest day first; *)
(* an entry of the cache may expire at any time.                           *)
(***************************************************************************)
EXTENDS QuoteRoutes, Integers, Sequences, FiniteSets, FiniteSetsExt

CONSTANTS
    Callers,    \* requests under way
    Tickers,    \* numbers; the provider lists a day in their order
    Asked,      \* the lists of tickers asked for
    LastDay,    \* bound: days
    MaxCalls,   \* bound: requests
    Lookback,   \* days before today that are asked for
    RowLimit    \* rows the provider's answer has at most

\* What the constants have to be.
LatestAssumption ==
    /\ Tickers \subseteq Nat
    /\ Asked \subseteq Seq(Tickers)
    /\ LastDay \in Nat \ {0}
    /\ MaxCalls \in Nat \ {0}
    /\ Lookback \in Nat
    /\ RowLimit \in Nat \ {0}

Days == 1..LastDay

VARIABLES
    gateway,  \* "marketstack" or "deterministic", as the settings say
    today,    \* the day
    traded,   \* days on which a ticker has a bar, by ticker
    quotes,   \* the cache: the day of the quote by ticker, 0 for none
    call,     \* by caller
    calls     \* requests so far

latest == <<gateway, today, traded, quotes, call, calls>>

NoQuotes == [t \in Tickers |-> 0]

\* left: positions of the request that are still to be read or stored.  missing: those
\* not found in the cache.  seen and day: history, the days traded and the day when the
\* provider was asked.
\* overtaken: history, another call asked the provider later.
Call == [pc : {"idle", "reading", "storing", "answered"},
         asked : Seq(Tickers), left : SUBSET Nat, missing : SUBSET Nat,
         cached : [Tickers -> {0} \cup Days], fresh : [Tickers -> {0} \cup Days],
         seen : [Tickers -> SUBSET Days], day : {0} \cup Days, overtaken : BOOLEAN, status : Nat]

TypeOK ==
    /\ gateway \in {"marketstack", "deterministic"}
    /\ today \in Days
    /\ traded \in [Tickers -> SUBSET Days]
    /\ quotes \in [Tickers -> {0} \cup Days]
    /\ call \in [Callers -> Call]
    /\ calls \in 0..MaxCalls

Idle == [pc |-> "idle", asked |-> <<>>, left |-> {}, missing |-> {},
         cached |-> NoQuotes, fresh |-> NoQuotes,
         seen |-> [t \in Tickers |-> {}], day |-> 0, overtaken |-> FALSE, status |-> 200]

Init ==
    /\ gateway \in {"marketstack", "deterministic"}
    /\ today = 1
    /\ traded = [t \in Tickers |-> {1}]
    /\ quotes = NoQuotes
    /\ call = [c \in Callers |-> Idle]
    /\ calls = 0

Set(c, r) == call' = [call EXCEPT ![c] = r]

-----------------------------------------------------------------------------
(* get_latest_quotes of the gateway.                                       *)

OldestFirst(r, s) == r[2] < s[2] \/ (r[2] = s[2] /\ r[1] < s[1])  \* mutant

\* The provider lists day by day, the newest first.
Before(r, s) == r[2] > s[2] \/ (r[2] = s[2] /\ r[1] < s[1])

\* The days of a ticker since date_from.
Recent(t) == {d \in traded[t] : d >= today - Lookback}

FirstPage(tickers) ==
    LET rows == {r \in tickers \X Days : r[2] \in Recent(r[1])}
    IN  {r \in rows : Cardinality({s \in rows : Before(s, r)}) < RowLimit}

DaysOf(t, rows) == {r[2] : r \in {s \in rows : s[1] = t}}

SelectEarliest(t, rows) == IF DaysOf(t, rows) = {} THEN 0 ELSE Min(DaysOf(t, rows))  \* mutant

\* _select_latest_eod_by_symbol
SelectLatest(t, rows) == IF DaysOf(t, rows) = {} THEN 0 ELSE Max(DaysOf(t, rows))

LatestOf(tickers) == [t \in Tickers |-> SelectLatest(t, FirstPage(tickers))]

-----------------------------------------------------------------------------
(* A call.                                                                 *)

Request(c) ==
    /\ call[c].pc = "idle"
    /\ calls < MaxCalls
    /\ calls' = calls + 1
    /\ \E q \in Asked : Set(c, [Idle EXCEPT !.pc = "reading", !.asked = q, !.left = DOMAIN q])
    /\ UNCHANGED <<gateway, today, traded, quotes>>

\* The position whose turn it is.
Turn(c) == {i \in call[c].left : \A k \in call[c].left : i <= k}

\* If-None-Match holds the digest of the tickers: 304, and nothing is looked up.
NotModified(c) ==
    /\ call[c].pc = "reading"
    /\ call[c].left = DOMAIN call[c].asked
    /\ Set(c, [Idle EXCEPT !.pc = "answered", !.status = 304])
    /\ UNCHANGED <<gateway, today, traded, quotes, calls>>

\* A ticker that is asked for twice may be found once and missing once.
ReadCached(c) ==
    /\ call[c].pc = "reading"
    /\ \E i \in Turn(c) :
         LET t == call[c].asked[i]
         IN  IF quotes[t] = 0
               THEN Set(c, [call[c] EXCEPT !.left = @ \ {i}, !.missing = @ \cup {i}])
               ELSE Set(c, [call[c] EXCEPT !.left = @ \ {i}, !.cached[t] = quotes[t]])
    /\ UNCHANGED <<gateway, today, traded, quotes, calls>>

Missing(c) == {call[c].asked[i] : i \in call[c].missing}

NothingMissing(c) ==
    /\ call[c].pc = "reading"
    /\ call[c].left = {}
    /\ Missing(c) = {}
    /\ Set(c, [call[c] EXCEPT !.pc = "answered"])
    /\ UNCHANGED <<gateway, today, traded, quotes, calls>>

\* The other calls that are storing are overtaken: what they store is older.
Fetch(c) ==
    /\ call[c].pc = "reading"
    /\ call[c].left = {}
    /\ Missing(c) # {}
    /\ gateway = "marketstack"
    /\ LET found == LatestOf(Missing(c))
           mine  == [call[c] EXCEPT !.pc = "storing", !.fresh = found,
                                    !.seen = traded, !.day = today,
                                    !.left = {i \in call[c].missing : found[call[c].asked[i]] # 0}]
       IN  call' = [d \in Callers |->
                      IF d = c THEN mine
                      ELSE [call[d] EXCEPT !.overtaken = @ \/ call[d].pc = "storing"]]
    /\ UNCHANGED <<gateway, today, traded, quotes, calls>>

Store(c) ==
    /\ call[c].pc = "storing"
    /\ \E i \in Turn(c) :
         LET t == call[c].asked[i]
         IN  /\ quotes' = [quotes EXCEPT ![t] = call[c].fresh[t]]
             /\ Set(c, [call[c] EXCEPT !.left = @ \ {i}])
    /\ UNCHANGED <<gateway, today, traded, calls>>

Merge(c) ==
    /\ call[c].pc = "storing"
    /\ call[c].left = {}
    /\ Set(c, [call[c] EXCEPT !.pc = "answered"])
    /\ UNCHANGED <<gateway, today, traded, quotes, calls>>

AskedFor(c) == {call[c].asked[i] : i \in DOMAIN call[c].asked}

\* The quotes that are found, fresh ones first.
Answer(c) ==
    [t \in AskedFor(c) |->
        IF call[c].fresh[t] # 0 THEN call[c].fresh[t] ELSE call[c].cached[t]]

Raise(c, error) == Set(c, [Idle EXCEPT !.pc = "answered", !.status = LatestAnswer(error).status])

\* The deterministic gateway has no method for latest quotes.
NoMethod(c) ==
    /\ call[c].pc = "reading"
    /\ call[c].left = {}
    /\ Missing(c) # {}
    /\ gateway = "deterministic"
    /\ Raise(c, "MarketDataUnavailable")
    /\ UNCHANGED <<gateway, today, traded, quotes, calls>>

ProviderFails(c) ==
    /\ call[c].pc = "reading"
    /\ call[c].left = {}
    /\ Missing(c) # {}
    /\ gateway = "marketstack"
    /\ \E fault \in Faults : Raise(c, ErrorOf[fault])
    /\ UNCHANGED <<gateway, today, traded, quotes, calls>>

\* Redis raises; what was stored before stays.
CacheFails(c) ==
    /\ call[c].pc \in {"reading", "storing"}
    /\ call[c].left # {}
    /\ Raise(c, "RedisError")
    /\ UNCHANGED <<gateway, today, traded, quotes, calls>>

\* The answer is sent.
Done(c) ==
    /\ call[c].pc = "answered"
    /\ Set(c, Idle)
    /\ UNCHANGED <<gateway, today, traded, quotes, calls>>

\* Some of the tickers are traded on the next day.
NextDay ==
    /\ today < LastDay
    /\ today' = today + 1
    /\ \E S \in SUBSET Tickers :
          traded' = [t \in Tickers |-> IF t \in S THEN traded[t] \cup {today'} ELSE traded[t]]
    /\ UNCHANGED <<gateway, quotes, call, calls>>

Expire(t) ==
    /\ quotes[t] # 0
    /\ quotes' = [quotes EXCEPT ![t] = 0]
    /\ UNCHANGED <<gateway, today, traded, call, calls>>

Next ==
    \/ \E c \in Callers :
         \/ Request(c) \/ NotModified(c) \/ ReadCached(c) \/ NothingMissing(c) \/ Fetch(c)
         \/ Store(c) \/ Merge(c) \/ NoMethod(c) \/ ProviderFails(c) \/ CacheFails(c) \/ Done(c)
    \/ NextDay
    \/ \E t \in Tickers : Expire(t)

Spec == Init /\ [][Next]_latest

-----------------------------------------------------------------------------
(* Properties.                                                             *)

\* "Missing symbols are simply omitted": a ticker of the request is left out of its
\* answer only if the provider has no bar of it since date_from, as of the day it was
\* asked, or enough newer rows of the other tickers asked for to fill the page; and a
\* fresh quote is the newest one.  (GetQuotes.execute, get_latest_quotes)
InWindow(c, t) == {d \in call[c].seen[t] : d >= call[c].day - Lookback}

NewerRows(c, t) ==
    {r \in Missing(c) \X Days : r[2] \in InWindow(c, r[1]) /\ r[2] >= Max(InWindow(c, t))
                                 /\ r[1] # t}

OmittedOnlyWhenCut ==
    \A c \in Callers :
        (call[c].pc = "answered" /\ call[c].status = 200) =>
            \A t \in AskedFor(c) :
                /\ Answer(c)[t] = 0 =>
                     (InWindow(c, t) = {} \/ Cardinality(NewerRows(c, t)) >= RowLimit)
                /\ call[c].fresh[t] # 0 => call[c].fresh[t] = Max(InWindow(c, t))

\* A cached quote gives way to an older one only when the call that stores it asked the
\* provider before another call did.  (GetQuotes.execute: nothing locks an entry)
QuotesGoBackOnlyThen ==
    [][\A t \in Tickers : (quotes'[t] # 0 /\ quotes'[t] < quotes[t]) =>
          \E c \in Callers : Store(c) /\ call[c].overtaken]_latest
=============================================================================
