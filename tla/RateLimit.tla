------------------------------- MODULE RateLimit -------------------------------
(***************************************************************************)
(* RateLimitMiddleware: a token bucket for each client address and path.   *)
(* A request refills its bucket for the time since the last one and takes  *)
(* a token, with no await in between; the headers of its response are      *)
(* written when the handler has answered, from what is in the bucket then. *)
(*                                                                         *)
(* Time is in ticks and tokens in units, of which PerTick come in a tick;  *)
(* the limiter computes with floats, here numbers are exact.               *)
(***************************************************************************)
EXTENDS Integers, Sequences, FiniteSetsExt

CONSTANTS
    Keys,       \* <<client address, path>>
    Capacity,   \* burst, in tokens
    Unit,       \* units of a token
    PerTick,    \* units refilled in a tick
    PerSecond,  \* ticks of a second
    None,
    MaxNow,     \* bound: ticks
    MaxTaken    \* bound: requests let through

\* main.py sets at least one token per second and a burst of at least one.
LimiterAssumption ==
    /\ {Capacity, Unit, PerTick, PerSecond} \subseteq Nat \ {0}
    /\ PerTick * PerSecond >= Unit
    /\ MaxNow \in Nat
    /\ MaxTaken \in Nat
    /\ None \notin Nat \cup [tokens : Nat, last : Nat]

VARIABLES
    now,      \* time.monotonic
    buckets,  \* by key, None until the first request
    waiting,  \* requests let through and not yet answered, by key
    taken,    \* history: when requests were let through, by key
    promised  \* history: from when on the next request should pass, by key: the first of
              \* what was said since one was let through

vars == <<now, buckets, waiting, taken, promised>>

Init ==
    /\ now = 0
    /\ buckets = [k \in Keys |-> None]
    /\ waiting = [k \in Keys |-> 0]
    /\ taken = [k \in Keys |-> <<>>]
    /\ promised = [k \in Keys |-> None]

Tick ==
    /\ now < MaxNow
    /\ now' = now + 1
    /\ UNCHANGED <<buckets, waiting, taken, promised>>

RefilledPastBurst(k) ==  \* mutant: without the cap
    IF buckets[k] = None THEN Capacity * Unit
    ELSE buckets[k].tokens + (now - buckets[k].last) * PerTick

\* What a request of key k finds.
Refilled(k) ==
    IF buckets[k] = None THEN Capacity * Unit
    ELSE Min({Capacity * Unit, buckets[k].tokens + (now - buckets[k].last) * PerTick})

Bucket(k, tokens) == [buckets EXCEPT ![k] = [tokens |-> tokens, last |-> now]]

\* A token is spent before the handler is called.
LetThrough(k) ==
    /\ Len(taken[k]) < MaxTaken
    /\ Refilled(k) >= Unit
    /\ buckets' = Bucket(k, Refilled(k) - Unit)
    /\ waiting' = [waiting EXCEPT ![k] = @ + 1]
    /\ taken' = [taken EXCEPT ![k] = Append(@, now)]
    /\ promised' = [promised EXCEPT ![k] = None]
    /\ UNCHANGED now

\* Retry-After and X-RateLimit-Reset, in seconds.
RetryAfter(tokens) == Max({1, (Unit - tokens) \div (PerTick * PerSecond) + 1})

Sooner(t, u) == IF t = None THEN u ELSE Min({t, u})

RefuseForgetsRefill(k) ==  \* mutant: the time is taken, the refill is not
    /\ Refilled(k) < Unit
    /\ buckets' = Bucket(k, buckets[k].tokens)
    /\ promised' = [promised EXCEPT ![k] = Sooner(@, now + RetryAfter(Refilled(k)) * PerSecond)]
    /\ UNCHANGED <<now, waiting, taken>>

\* 429; the bucket is refilled all the same.
Refuse(k) ==
    /\ Refilled(k) < Unit
    /\ buckets' = Bucket(k, Refilled(k))
    /\ promised' = [promised EXCEPT ![k] = Sooner(@, now + RetryAfter(Refilled(k)) * PerSecond)]
    /\ UNCHANGED <<now, waiting, taken>>

Remaining(k) == buckets[k].tokens \div Unit

\* X-RateLimit-Remaining, which promises that many requests.
Respond(k) ==
    /\ waiting[k] > 0
    /\ waiting' = [waiting EXCEPT ![k] = @ - 1]
    /\ promised' = [promised EXCEPT ![k] = IF Remaining(k) > 0 THEN Sooner(@, now) ELSE @]
    /\ UNCHANGED <<now, buckets, taken>>

\* The handler fails or is cancelled: the token is gone.
Raise(k) ==
    /\ waiting[k] > 0
    /\ waiting' = [waiting EXCEPT ![k] = @ - 1]
    /\ UNCHANGED <<now, buckets, taken, promised>>

Next ==
    \/ Tick
    \/ \E k \in Keys : LetThrough(k) \/ Refuse(k) \/ Respond(k) \/ Raise(k)

Spec == Init /\ [][Next]_vars

-----------------------------------------------------------------------------
\* In any stretch of time no more requests of a key are let through than the burst and
\* what is refilled meanwhile, refusals and idle times included; and a client that is
\* told when to come back, by Retry-After or by a remaining count, is let through from
\* then on unless another request of its key took the token.  (RateLimitMiddleware.dispatch)
LimitKeepsItsWord ==
    \A k \in Keys :
        /\ \A i, j \in 1..Len(taken[k]) : i <= j =>
             (j - i + 1) * Unit <= Capacity * Unit + (taken[k][j] - taken[k][i]) * PerTick
        /\ promised[k] # None /\ now >= promised[k] => Refilled(k) >= Unit
=============================================================================
