--------------------------- MODULE ReadThroughCache ---------------------------
(***************************************************************************)
(* What read-through caching of one key promises (read_through_json in     *)
(* infrastructure/caching/json_cache.py): a call answers with what the     *)
(* cache holds, or, having met it empty, with what it loads and stores     *)
(* itself.  A call may look again before it loads.                         *)
(*                                                                         *)
(* A value is told apart by its age: the ticks since the loader read the   *)
(* source.                                                                 *)
(***************************************************************************)
EXTENDS Integers

CONSTANTS
    Callers,  \* concurrent calls for the key
    Ttl,      \* ttl of an entry, in ticks, not 0
    MaxLoad,  \* bound: ticks between reading the source and storing the value
    None      \* no value, not a number

VARIABLES
    stored,  \* the entry's value
    left,    \* what is left of its TTL
    pc,      \* where each call is
    got,     \* the value it has loaded
    answer   \* what it returned

vars == <<stored, left, pc, got, answer>>

Init ==
    /\ stored = None
    /\ left = 0
    /\ pc = [c \in Callers |-> "idle"]
    /\ got = [c \in Callers |-> None]
    /\ answer = [c \in Callers |-> None]

Return(c, value) ==
    /\ pc' = [pc EXCEPT ![c] = "idle"]
    /\ answer' = [answer EXCEPT ![c] = value]

Call(c) ==
    /\ pc[c] = "idle"
    /\ pc' = [pc EXCEPT ![c] = "looking"]
    /\ answer' = [answer EXCEPT ![c] = None]
    /\ UNCHANGED <<stored, left, got>>

Hit(c) ==
    /\ pc[c] \in {"looking", "missed"}
    /\ stored # None
    /\ Return(c, stored)
    /\ UNCHANGED <<stored, left, got>>

Miss(c) ==
    /\ pc[c] = "looking"
    /\ stored = None
    /\ pc' = [pc EXCEPT ![c] = "missed"]
    /\ UNCHANGED <<stored, left, got, answer>>

Fetch(c) ==
    /\ pc[c] = "missed"
    /\ pc' = [pc EXCEPT ![c] = "fetched"]
    /\ got' = [got EXCEPT ![c] = 0]
    /\ UNCHANGED <<stored, left, answer>>

\* The source has no value: the answer is None and nothing is stored.
FetchNothing(c) ==
    /\ pc[c] = "missed"
    /\ Return(c, None)
    /\ UNCHANGED <<stored, left, got>>

Keep(c) ==
    /\ stored' = got[c]
    /\ left' = Ttl

Store(c) ==
    /\ pc[c] = "fetched"
    /\ Keep(c)
    /\ Return(c, got[c])
    /\ got' = [got EXCEPT ![c] = None]

\* The cache or the loader raises, or the call is cancelled: no answer, although
\* the write of a loaded value may have reached the cache.
Raise(c) ==
    /\ pc[c] # "idle"
    /\ Return(c, None)
    /\ got' = [got EXCEPT ![c] = None]
    /\ \/ UNCHANGED <<stored, left>>
       \/ pc[c] = "fetched" /\ Keep(c)

Older(age) == IF age = None THEN None ELSE age + 1

Expired == left <= 1

Tick ==
    /\ \A c \in Callers : got[c] # MaxLoad
    /\ stored' = IF Expired THEN None ELSE Older(stored)
    /\ left' = IF Expired THEN 0 ELSE left - 1
    /\ got' = [c \in Callers |-> Older(got[c])]
    /\ UNCHANGED <<pc, answer>>

Step(c) == Call(c) \/ Hit(c) \/ Miss(c) \/ Fetch(c) \/ FetchNothing(c) \/ Store(c) \/ Raise(c)

Next == Tick \/ \E c \in Callers : Step(c)

Spec == Init /\ [][Next]_vars
=============================================================================
