--------------------------- MODULE HistoricalQuotes ---------------------------
(***************************************************************************)
(* Historical bars, page by page: an agent reads the pages of one query    *)
(* (tickers, interval and window) through GET /v2/quotes/historical, while *)
(* the provider publishes bars at the front of the list.                   *)
(*                                                                         *)
(* A call looks its page up in the cache, asks the provider on a miss, and *)
(* stores the page: three awaits, between which other calls and the        *)
(* provider go on.  An entry may expire at any time: its age is bounded by *)
(* a time to live that is as long as the calls it is compared with.        *)
(*                                                                         *)
(* Bars are numbered in the order in which they were published.            *)
(***************************************************************************)
EXTENDS QuoteRoutes, Sequences

CONSTANTS
    Agents,    \* who reads
    Sizes,     \* the page sizes asked for
    Cap,       \* the rows an intraday answer has at most
    MaxBars,   \* bound: bars of the query
    MaxWalks   \* bound: times the pages are read, by all agents

\* What the constants have to be.
HistoricalAssumption ==
    /\ Sizes \subseteq Nat \ {0}
    /\ Cap \in Nat \ {0}
    /\ MaxBars \in Nat \ {0}
    /\ MaxWalks \in Nat \ {0}

VARIABLES
    gateway,    \* "marketstack" or "deterministic", as the settings say
    query,      \* daily or intraday bars, and the page size
    published,  \* bars the provider has
    pages,      \* the cache: the pages of the query
    agent,      \* the agents, with the call they make
    walks       \* times the pages were read

setting == <<gateway, query>>
history == <<setting, published, pages, agent, walks>>

\* The order of the bars in a page is that of their numbers.
PageRecord == [items : SUBSET (1..MaxBars), total : 0..MaxBars]

NoPage == [items |-> {}, total |-> 0]

Pages == 1..MaxBars + 1

\* An agent with the call it makes.  copies: the pages of its walk before.
Reader == [pc : {"idle", "lookup", "ask", "store"},
           read : Seq(PageRecord), copies : Seq(PageRecord), fresh : PageRecord,
           fault : Faults \cup {"none", "cache"},
           answer : {Unhandled} \cup {HistoricalAnswers[e] : e \in DOMAIN HistoricalAnswers}]

TypeOK ==
    /\ gateway \in {"marketstack", "deterministic"}
    /\ query \in [daily : BOOLEAN, size : Sizes]
    /\ published \in 1..MaxBars
    /\ pages \in [Pages -> PageRecord]
    /\ walks \in 0..MaxWalks
    /\ agent \in [Agents -> Reader]

Idle == [pc |-> "idle", read |-> <<>>, copies |-> <<>>, fresh |-> NoPage,
         fault |-> "none", answer |-> Unhandled]

Init ==
    /\ gateway \in {"marketstack", "deterministic"}
    /\ query \in [daily : BOOLEAN, size : Sizes]
    /\ published = 1
    /\ pages = [n \in Pages |-> NoPage]
    /\ agent = [a \in Agents |-> Idle]
    /\ walks = 0

-----------------------------------------------------------------------------
(* The gateways.                                                           *)

\* Intraday answers are capped, but not by the deterministic gateway.
RowsPerPage ==
    IF query.daily \/ query.size <= Cap \/ gateway = "deterministic" THEN query.size ELSE Cap

Offset(n) == (n - 1) * RowsPerPage

Total == IF gateway = "deterministic" THEN 1 ELSE published

\* The newest bar comes first: behind bar b are those with smaller numbers.
Window(n) == {b \in 1..Total : Offset(n) <= Total - b /\ Total - b < Offset(n) + RowsPerPage}

\* A digest of the page; the deterministic gateway returns one that is always the same.
SameEtag(p, other) == gateway = "deterministic" \/ p = other

PageOf(n) == [items |-> Window(n), total |-> Total]

-----------------------------------------------------------------------------
(* A call.                                                                 *)

Set(a, r) == agent' = [agent EXCEPT ![a] = r]

\* The page that is asked for: the one after those read.
Page(a) == Len(agent[a].read) + 1

CacheKeyNoPage(n) == 1  \* mutant

\* The key names the query, which is always the same here, and the page.
CacheKey(n) == n

Cached(a) == pages[CacheKey(Page(a))]

\* If-None-Match: the agent has the page from its last walk.
Copy(a) == IF Page(a) \in DOMAIN agent[a].copies THEN agent[a].copies[Page(a)] ELSE NoPage

\* 304 leaves the agent its copy.
Served(a, p) == IF Copy(a) # NoPage /\ SameEtag(Copy(a), p) THEN Copy(a) ELSE p

\* The next page, unless the rows are all there.
Receive(a, p) ==
    LET read == Append(agent[a].read, Served(a, p))
        more == Len(read) * query.size < Served(a, p).total
    IN  Set(a, [agent[a] EXCEPT !.read = read, !.fresh = NoPage,
                                !.pc = IF more THEN "lookup" ELSE "idle"])

\* An agent that has read the pages may read them again, with its copies.
Walk(a) ==
    /\ agent[a].pc = "idle"
    /\ walks < MaxWalks
    /\ walks' = walks + 1
    /\ Set(a, [Idle EXCEPT !.pc = "lookup", !.copies = agent[a].read])
    /\ UNCHANGED <<setting, published, pages>>

Hit(a) ==
    /\ agent[a].pc = "lookup"
    /\ Cached(a) # NoPage
    /\ Receive(a, Cached(a))
    /\ UNCHANGED <<setting, published, pages, walks>>

Miss(a) ==
    /\ agent[a].pc = "lookup"
    /\ Cached(a) = NoPage
    /\ Set(a, [agent[a] EXCEPT !.pc = "ask"])
    /\ UNCHANGED <<setting, published, pages, walks>>

Ask(a) ==
    /\ agent[a].pc = "ask"
    /\ Set(a, [agent[a] EXCEPT !.pc = "store", !.fresh = PageOf(Page(a))])
    /\ UNCHANGED <<setting, published, pages, walks>>

Store(a) ==
    /\ agent[a].pc = "store"
    /\ pages' = [pages EXCEPT ![CacheKey(Page(a))] = agent[a].fresh]
    /\ Receive(a, agent[a].fresh)
    /\ UNCHANGED <<setting, published, walks>>

\* The walk ends with the answer of the route.
Refused(a, fault, error) ==
    Set(a, [agent[a] EXCEPT !.pc = "idle", !.fresh = NoPage, !.fault = fault,
                            !.answer = HistoricalAnswer(error)])

ProviderFails(a) ==
    /\ agent[a].pc = "ask"
    /\ gateway = "marketstack"
    /\ \E fault \in Faults : Refused(a, fault, ErrorOf[fault])
    /\ UNCHANGED <<setting, published, pages, walks>>

\* Redis raises: at the lookup, or after the page was fetched.
CacheFails(a) ==
    /\ agent[a].pc \in {"lookup", "store"}
    /\ Refused(a, "cache", "RedisError")
    /\ UNCHANGED <<setting, published, pages, walks>>

Publish ==
    /\ published < MaxBars
    /\ published' = published + 1
    /\ UNCHANGED <<setting, pages, agent, walks>>

Expire(n) ==
    /\ pages[n] # NoPage
    /\ pages' = [pages EXCEPT ![n] = NoPage]
    /\ UNCHANGED <<setting, published, agent, walks>>

Next ==
    \/ \E a \in Agents :
         Walk(a) \/ Hit(a) \/ Miss(a) \/ Ask(a) \/ Store(a) \/ ProviderFails(a) \/ CacheFails(a)
    \/ Publish
    \/ \E n \in Pages : Expire(n)

Spec == Init /\ [][Next]_history

-----------------------------------------------------------------------------
(* Properties.                                                             *)

ReadBars(a) == UNION {agent[a].read[i].items : i \in 1..Len(agent[a].read)}

Finished(a) == agent[a].pc = "idle" /\ agent[a].read # <<>> /\ agent[a].fault = "none"

\* An agent that has read every page of its query (as counted by total and page_size of
\* the last) has every bar that was there at the first page, unless a page came from the
\* cache older than the one before it, or the pages asked for are larger than the rows an
\* intraday answer may have.  (GetHistoricalQuotesUseCase.execute, get_historical_bars)
OlderPage(a) ==
    \E i \in 1..Len(agent[a].read) - 1 : agent[a].read[i + 1].total < agent[a].read[i].total

PagesReadEverything ==
    \A a \in Agents :
        (Finished(a) /\ ~OlderPage(a) /\ (query.daily \/ query.size <= Cap)) =>
            1..agent[a].read[1].total \subseteq ReadBars(a)

\* An agent is told to try again when another try may help, and to give up when the quota
\* is spent, the plan or the key is refused or the provider's format has changed.  The
\* exception: JSON that is no object ends as a 500, which says try again.  (from
\* _handle_httpx_response over get_historical_quotes to to_mcp_error)
RetriesMayHelp ==
    \A a \in Agents :
        agent[a].fault \notin {"none", "no_object"} =>
            (ToMcpError(agent[a].answer).retryable <=>
                agent[a].fault \in {"limited", "down", "cache"})
=============================================================================
