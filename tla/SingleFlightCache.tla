-------------------------- MODULE SingleFlightCache --------------------------
(***************************************************************************)
(* get_or_set_json_singleflight of infrastructure/caching/json_cache.py,   *)
(* for one key: read-through caching with a best-effort lock in Redis.     *)
(*                                                                         *)
(* The lock is SET NX EX lock_ttl and is never deleted.  Who gets it looks *)
(* again and loads; the others poll until wait_timeout and then load       *)
(* without it.  A lock may expire under its holder.  Calls of any number   *)
(* of processes interleave at every Redis command and at the loader.       *)
(***************************************************************************)
EXTENDS Integers

CONSTANTS
    Callers,      \* concurrent calls for the key
    Ttl,          \* ttl of an entry, in ticks
    LockTtl,      \* lock_ttl
    WaitTimeout,  \* wait_timeout
    MaxLoad,      \* bound: ticks between reading the source and storing the value
    None          \* no value

ASSUME SingleFlightAssumption ==
    /\ Ttl \in Nat \ {0}
    /\ LockTtl \in Nat \ {0}
    /\ WaitTimeout \in Nat
    /\ MaxLoad \in Nat \ {0}
    /\ None \notin Int

VARIABLES
    stored,       \* the entry: the age of its value
    left,         \* what is left of its TTL
    lockLeft,     \* what is left of the lock's TTL; 0: no lock
    pc,           \* where each call is
    waitLeft,     \* ticks until its deadline
    got,          \* the value it has loaded
    answer,       \* what it returned
    grant,        \* history: why it may load: its lock is live, its lock has
                  \* expired, or it has waited in vain
    storedUnder   \* history: the grant under which the entry was stored

entry == <<stored, left, storedUnder>>
vars  == <<entry, lockLeft, pc, waitLeft, got, answer, grant>>

Grants == {"none", "held", "lost", "waited"}
Ages   == 0..(MaxLoad + Ttl)

\* Including: an entry has a TTL, only a waiting call has a deadline, and only a
\* call that has loaded holds a value.
TypeOK ==
    /\ stored \in Ages \cup {None}
    /\ left \in 0..Ttl
    /\ stored = None <=> left = 0
    /\ lockLeft \in 0..LockTtl
    /\ pc \in [Callers -> {"idle", "looking", "locking", "owner", "waiting", "loading", "fetched"}]
    /\ waitLeft \in [Callers -> 0..WaitTimeout]
    /\ got \in [Callers -> 0..MaxLoad \cup {None}]
    /\ answer \in [Callers -> Ages \cup {None}]
    /\ grant \in [Callers -> Grants]
    /\ storedUnder \in Grants
    /\ \A c \in Callers :
         /\ got[c] # None <=> pc[c] = "fetched"
         /\ grant[c] # "none" <=> pc[c] \in {"owner", "loading", "fetched"}

Init ==
    /\ stored = None
    /\ left = 0
    /\ lockLeft = 0
    /\ pc = [c \in Callers |-> "idle"]
    /\ waitLeft = [c \in Callers |-> 0]
    /\ got = [c \in Callers |-> None]
    /\ answer = [c \in Callers |-> None]
    /\ grant = [c \in Callers |-> "none"]
    /\ storedUnder = "none"

Goto(c, from, to) == pc[c] = from /\ pc' = [pc EXCEPT ![c] = to]

\* The call returns or raises.
Return(c, value) ==
    /\ pc' = [pc EXCEPT ![c] = "idle"]
    /\ answer' = [answer EXCEPT ![c] = value]
    /\ waitLeft' = [waitLeft EXCEPT ![c] = 0]
    /\ got' = [got EXCEPT ![c] = None]
    /\ grant' = [grant EXCEPT ![c] = "none"]

Call(c) ==
    /\ Goto(c, "idle", "looking")
    /\ answer' = [answer EXCEPT ![c] = None]
    /\ UNCHANGED <<entry, lockLeft, waitLeft, got, grant>>

-----------------------------------------------------------------------------
(* The lookups: on entry, after getting the lock, and while waiting.       *)

HitExtends(c) ==  \* mutant: reading an entry renews its TTL
    /\ pc[c] \in {"looking", "owner"} \/ (pc[c] = "waiting" /\ waitLeft[c] > 0)
    /\ stored # None
    /\ left' = Ttl
    /\ Return(c, stored)
    /\ UNCHANGED <<stored, storedUnder, lockLeft>>

Hit(c) ==
    /\ pc[c] \in {"looking", "owner"} \/ (pc[c] = "waiting" /\ waitLeft[c] > 0)
    /\ stored # None
    /\ Return(c, stored)
    /\ UNCHANGED <<entry, lockLeft>>

MissOnce(c) ==  \* mutant: no second lookup after getting the lock
    /\ \/ stored = None /\ Goto(c, "looking", "locking")
       \/ Goto(c, "owner", "loading")
    /\ UNCHANGED <<entry, lockLeft, waitLeft, got, answer, grant>>

Miss(c) ==
    /\ stored = None
    /\ Goto(c, "looking", "locking") \/ Goto(c, "owner", "loading")
    /\ UNCHANGED <<entry, lockLeft, waitLeft, got, answer, grant>>

-----------------------------------------------------------------------------
(* The lock.                                                               *)

AcquireLockAnyway(c) ==  \* mutant: SET without NX
    /\ Goto(c, "locking", "owner")
    /\ lockLeft' = LockTtl
    /\ grant' = [grant EXCEPT ![c] = "held"]
    /\ UNCHANGED <<entry, waitLeft, got, answer>>

AcquireLock(c) ==
    /\ lockLeft = 0
    /\ Goto(c, "locking", "owner")
    /\ lockLeft' = LockTtl
    /\ grant' = [grant EXCEPT ![c] = "held"]
    /\ UNCHANGED <<entry, waitLeft, got, answer>>

\* The lock is taken, or Redis raises; the command may have been applied even so.
AwaitOther(c) ==
    /\ Goto(c, "locking", "waiting")
    /\ waitLeft' = [waitLeft EXCEPT ![c] = WaitTimeout]
    /\ \/ UNCHANGED lockLeft
       \/ lockLeft = 0 /\ lockLeft' = LockTtl
    /\ UNCHANGED <<entry, got, answer, grant>>

GiveUpStartsOver(c) ==  \* mutant: a call that waited in vain tries for the lock again
    /\ waitLeft[c] = 0
    /\ Goto(c, "waiting", "locking")
    /\ UNCHANGED <<entry, lockLeft, waitLeft, got, answer, grant>>

GiveUp(c) ==
    /\ waitLeft[c] = 0
    /\ Goto(c, "waiting", "loading")
    /\ grant' = [grant EXCEPT ![c] = "waited"]
    /\ UNCHANGED <<entry, lockLeft, waitLeft, got, answer>>

-----------------------------------------------------------------------------
(* The loader and the write.                                               *)

Fetch(c) ==
    /\ Goto(c, "loading", "fetched")
    /\ got' = [got EXCEPT ![c] = 0]
    /\ UNCHANGED <<entry, lockLeft, waitLeft, answer, grant>>

FetchNothing(c) ==
    /\ pc[c] = "loading"
    /\ Return(c, None)
    /\ UNCHANGED <<entry, lockLeft>>

Keep(c) ==
    /\ stored' = got[c]
    /\ left' = Ttl
    /\ storedUnder' = grant[c]

StoreReleases(c) ==  \* mutant: the lock is deleted afterwards, whoever holds it
    /\ pc[c] = "fetched"
    /\ Keep(c)
    /\ Return(c, got[c])
    /\ lockLeft' = 0

StoreIfAbsent(c) ==  \* mutant: the data key is set with NX
    /\ pc[c] = "fetched"
    /\ \/ stored = None /\ Keep(c)
       \/ stored # None /\ UNCHANGED entry
    /\ Return(c, got[c])
    /\ UNCHANGED lockLeft

Store(c) ==
    /\ pc[c] = "fetched"
    /\ Keep(c)
    /\ Return(c, got[c])
    /\ UNCHANGED lockLeft

\* Redis or the loader raises, or the call is cancelled, at any await.  A command
\* whose reply is lost may have been applied.
Raise(c) ==
    /\ pc[c] # "idle"
    /\ Return(c, None)
    /\ \/ UNCHANGED <<entry, lockLeft>>
       \/ pc[c] = "fetched" /\ Keep(c) /\ UNCHANGED lockLeft
       \/ pc[c] = "locking" /\ lockLeft = 0 /\ lockLeft' = LockTtl /\ UNCHANGED entry

-----------------------------------------------------------------------------
(* Time.                                                                   *)

Older(age) == IF age = None THEN None ELSE age + 1
Less(ticks) == IF ticks = 0 THEN 0 ELSE ticks - 1

ExpiredLate == left = 0  \* mutant: the TTL reaches 0 with the entry in place

Expired == left <= 1

\* The lock and the entry expire in Redis; a load takes at most MaxLoad ticks
\* from reading the source to the write.
Tick ==
    /\ \A c \in Callers : got[c] # MaxLoad
    /\ stored' = IF Expired THEN None ELSE Older(stored)
    /\ left' = Less(left)
    /\ storedUnder' = IF Expired THEN "none" ELSE storedUnder
    /\ lockLeft' = Less(lockLeft)
    /\ waitLeft' = [c \in Callers |-> Less(waitLeft[c])]
    /\ got' = [c \in Callers |-> Older(got[c])]
    /\ grant' = [c \in Callers |->
                    IF grant[c] = "held" /\ lockLeft = 1 THEN "lost" ELSE grant[c]]
    /\ UNCHANGED <<pc, answer>>

-----------------------------------------------------------------------------

Progress(c) ==
    \/ Hit(c) \/ Miss(c) \/ AcquireLock(c) \/ AwaitOther(c) \/ GiveUp(c)
    \/ Fetch(c) \/ FetchNothing(c) \/ Store(c)

Next == Tick \/ \E c \in Callers : Call(c) \/ Progress(c) \/ Raise(c)

Spec == Init /\ [][Next]_vars

\* Time passes, and a call under way goes on: Redis answers, the loader ends
\* (the HTTP client gives every request a timeout) and sleeping calls wake up.
Fairness == WF_vars(Tick) /\ \A c \in Callers : WF_vars(Progress(c))

FairSpec == Spec /\ Fairness

-----------------------------------------------------------------------------
(* Safety.                                                                 *)

Loading(c) == pc[c] \in {"loading", "fetched"}

\* Two calls run the loader at once only if one of them has outlived lock_ttl or
\* has waited wait_timeout in vain; a lock that expired under its holder never
\* takes a later holder's lock with it.
SingleFlight ==
    \A c, d \in Callers :
        Loading(c) /\ Loading(d) /\ c # d => grant[c] # "held" \/ grant[d] # "held"

\* No answer is older than the longest load plus the TTL, however loads overlap.
BoundedStaleness == \A c \in Callers : answer[c] # None => answer[c] < MaxLoad + Ttl

\* An entry is overwritten, be it by an older value, only when one of the two calls
\* had no live lock any more: the call that stores, or the one that had stored, has
\* outlived lock_ttl or waited in vain.  In particular a call that comes by the lock
\* after another's load sees the entry in its second lookup and loads nothing.
OverwrittenOnlyThen ==
    [][\A c \in Callers :
         (Store(c) \/ (Raise(c) /\ entry' # entry)) /\ stored # None
             => grant[c] # "held" \/ storedUnder # "held"]_vars

-----------------------------------------------------------------------------
(* Liveness.                                                               *)

\* Every call ends, although the lock is never released, its holder may have
\* failed, and waiting calls may never see a value.
EveryCallEnds == \A c \in Callers : pc[c] # "idle" ~> pc[c] = "idle"

-----------------------------------------------------------------------------
(* Refinement.                                                             *)

\* A call that is after the lock, or waits for another, has missed.
Phase(at) == IF at \in {"locking", "owner", "waiting", "loading"} THEN "missed" ELSE at
Phases    == [c \in Callers |-> Phase(pc[c])]

ReadThrough == INSTANCE ReadThroughCache WITH pc <- Phases

\* The single flight is read-through caching: it adds further lookups and
\* delays, and never an answer or an entry that read_through_json could not give.
ImplementsReadThrough == ReadThrough!Spec
=============================================================================
