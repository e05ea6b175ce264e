----------------------------- MODULE MCRequests -----------------------------
(* Parts of the HTTP side that share no state, one of which is explored at a time.

   Idempotency: three requests, two that race and a retry of one of them, or one
   for each of three records when the key expires twice.

   Historical quotes: two agents read the pages of one query twice in all, while
   the provider goes from one bar to three; two intraday rows do not fit.

   Latest quotes: two callers, three requests, two tickers and three days; two
   rows fit, so that the older of two tickers may be cut off, and the provider is
   asked for yesterday and today, so that a ticker may have older bars only.

   Limiter: one key (keys share nothing), a burst of two and one token per second,
   for four seconds in ticks of half a second.                                  *)
EXTENDS Requests, TLC

VARIABLE part

\* Two tickers, and one that is asked for twice.
MCAsked == {<<1, 2>>, <<2, 2>>}

historical == <<query, published, pages, agent, walks>>
latest     == <<today, traded, quotes, call, calls>>
limiter    == <<now, buckets, waiting, taken, promised>>

Keyed  == part = "idempotency" /\ UNCHANGED <<part, gateway, historical, latest, limiter>>
Walks  == part = "historical" /\ UNCHANGED <<part, vars, latest, limiter>>
Quotes == part = "latest" /\ UNCHANGED <<part, vars, historical, limiter>>
Limits == part = "limiter" /\ UNCHANGED <<part, vars, gateway, historical, latest>>

\* The parts that are not explored stay in one of their initial states.
PartsInit ==
    /\ part \in {"idempotency", "historical", "latest", "limiter"}
    /\ Init
    /\ HQ!Init
    /\ LQ!Init
    /\ RL!Init
    /\ part # "historical" => query = [daily |-> TRUE, size |-> 1]
    /\ part \in {"idempotency", "limiter"} => gateway = "marketstack"
    /\ part # "idempotency" => (\A r \in Requests : hasBody[r]) /\ (\A r \in Requests : hash[r] = CHOOSE h \in Hashes : TRUE)

PartsNext ==
    \/ Keyed /\ Expire
    \/ \E r \in Requests : Keyed /\ Dispatch(r)
    \/ \E a \in Agents :
         \/ Walks /\ HQ!Walk(a)
         \/ Walks /\ HQ!Hit(a)
         \/ Walks /\ HQ!Miss(a)
         \/ Walks /\ HQ!Ask(a)
         \/ Walks /\ HQ!Store(a)
         \/ Walks /\ HQ!ProviderFails(a)
         \/ Walks /\ HQ!CacheFails(a)
         \/ Quotes /\ LQ!Request(a)
         \/ Quotes /\ LQ!NotModified(a)
         \/ Quotes /\ LQ!ReadCached(a)
         \/ Quotes /\ LQ!NothingMissing(a)
         \/ Quotes /\ LQ!Fetch(a)
         \/ Quotes /\ LQ!Store(a)
         \/ Quotes /\ LQ!Merge(a)
         \/ Quotes /\ LQ!NoMethod(a)
         \/ Quotes /\ LQ!ProviderFails(a)
         \/ Quotes /\ LQ!CacheFails(a)
         \/ Quotes /\ LQ!Done(a)
    \/ Walks /\ HQ!Publish
    \/ \E n \in HQ!Pages : Walks /\ HQ!Expire(n)
    \/ Quotes /\ LQ!NextDay
    \/ \E t \in Tickers : Quotes /\ LQ!Expire(t)
    \/ Limits /\ RL!Tick
    \/ \E k \in Keys :
         \/ Limits /\ RL!LetThrough(k)
         \/ Limits /\ RL!Refuse(k)
         \/ Limits /\ RL!Respond(k)
         \/ Limits /\ RL!Raise(k)

PartsSpec == PartsInit /\ [][PartsNext]_<<part, vars, gateway, historical, latest, limiter>>

Symmetry == Permutations(Requests) \cup Permutations(Agents)
=============================================================================
