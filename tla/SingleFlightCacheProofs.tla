----------------------- MODULE SingleFlightCacheProofs -----------------------
(***************************************************************************)
(* Machine-checked safety of the single flight, and that it implements     *)
(* read-through caching, for any number of calls and any durations.        *)
(***************************************************************************)
EXTENDS SingleFlightCache, TLAPS

\* While a grant is held the lock is on, so that nobody else can get it; hence
\* at most one grant is held.
HeldIsLocked == \A c \in Callers : grant[c] = "held" => lockLeft > 0
HeldByOne    == \A c, d \in Callers : grant[c] = "held" /\ grant[d] = "held" => c = d

\* An entry's age and what is left of its TTL add up to no more than they did when
\* it was stored.
StoredAge == stored # None => stored + left <= MaxLoad + Ttl

\* Since a call that holds the lock has looked a second time, no other has stored
\* under a lock of its own.
HeldSawNothing ==
    \A c \in Callers : grant[c] = "held" /\ Loading(c) => stored = None \/ storedUnder # "held"

\* The inductive invariant.  SingleFlight follows from HeldByOne, which needs
\* HeldIsLocked to survive AcquireLock; TypeOK and BoundedStaleness need StoredAge
\* to bound an entry's age at every tick.
IInv ==
    /\ TypeOK
    /\ HeldIsLocked
    /\ HeldByOne
    /\ StoredAge
    /\ HeldSawNothing
    /\ BoundedStaleness

\* The initial state satisfies the inductive invariant.
LEMMA InitIInv == Init => IInv
    BY SingleFlightAssumption
    DEF SingleFlightAssumption, Init, IInv, TypeOK, Ages, Grants, HeldIsLocked, HeldByOne,
        StoredAge, HeldSawNothing, Loading, BoundedStaleness

\* One step per action: each of them preserves the inductive invariant.
LEMMA StepIInv == IInv /\ [Next]_vars => IInv'
<1> SUFFICES ASSUME IInv, [Next]_vars
             PROVE  IInv'
    OBVIOUS
<1> USE SingleFlightAssumption DEF SingleFlightAssumption, IInv, TypeOK, Ages, Grants,
        HeldIsLocked, HeldByOne, StoredAge, HeldSawNothing, Loading, BoundedStaleness, entry
<1>1. ASSUME NEW c \in Callers, Call(c)
      PROVE  IInv'
    BY <1>1, SMTT(60) DEF Call, Goto
<1>2. ASSUME NEW c \in Callers, Hit(c)
      PROVE  IInv'
    BY <1>2, SMTT(60) DEF Hit, Return
<1>3. ASSUME NEW c \in Callers, Miss(c)
      PROVE  IInv'
    BY <1>3, SMTT(60) DEF Miss, Goto
<1>4. ASSUME NEW c \in Callers, AcquireLock(c)
      PROVE  IInv'
    BY <1>4, SMTT(60) DEF AcquireLock, Goto
<1>5. ASSUME NEW c \in Callers, AwaitOther(c)
      PROVE  IInv'
    BY <1>5, SMTT(60) DEF AwaitOther, Goto
<1>6. ASSUME NEW c \in Callers, GiveUp(c)
      PROVE  IInv'
    BY <1>6, SMTT(60) DEF GiveUp, Goto
<1>7. ASSUME NEW c \in Callers, Fetch(c)
      PROVE  IInv'
    BY <1>7, SMTT(60) DEF Fetch, Goto
<1>8. ASSUME NEW c \in Callers, FetchNothing(c)
      PROVE  IInv'
    BY <1>8, SMTT(60) DEF FetchNothing, Return
<1>9. ASSUME NEW c \in Callers, Store(c)
      PROVE  IInv'
    BY <1>9, SMTT(60) DEF Store, Keep, Return
<1>10. ASSUME NEW c \in Callers, Raise(c)
      PROVE  IInv'
    BY <1>10, SMTT(60) DEF Raise, Keep, Return
<1>11. CASE Tick
    BY <1>11, SMTT(60) DEF Tick, Older, Less, Expired
<1>12. CASE UNCHANGED vars
    BY <1>12 DEF vars
<1> QED
    BY <1>1, <1>2, <1>3, <1>4, <1>5, <1>6, <1>7, <1>8, <1>9, <1>10, <1>11, <1>12
    DEF Next, Progress

\* The inductive invariant holds in every reachable state.
LEMMA SpecIInv == Spec => []IInv
    BY InitIInv, StepIInv, PTL DEF Spec

\* Every variable keeps its type: in particular no entry is without a TTL, and no
\* entry or answer is older than the ages that the bounds allow.
THEOREM TypeCorrect == Spec => []TypeOK
<1>1. IInv => TypeOK
    BY DEF IInv
<1> QED
    BY <1>1, SpecIInv, PTL

\* Two loads overlap only when one of them has outlived its lock or has waited in
\* vain, whatever the TTLs, the timeout and the number of calls.
THEOREM OneLoadPerLock == Spec => []SingleFlight
<1>1. IInv => SingleFlight
    BY DEF IInv, HeldByOne, SingleFlight
<1> QED
    BY <1>1, SpecIInv, PTL

\* No answer is older than the longest load plus the TTL.
THEOREM AnswersAreFresh == Spec => []BoundedStaleness
<1>1. IInv => BoundedStaleness
    BY DEF IInv
<1> QED
    BY <1>1, SpecIInv, PTL

\* Whatever the TTLs and however many calls there are, an entry is overwritten only when
\* one of the two loads was without a live lock.
THEOREM LocksSaveLoads == Spec => OverwrittenOnlyThen
<1>1. ASSUME IInv, [Next]_vars
      PROVE  [\A c \in Callers :
                (Store(c) \/ (Raise(c) /\ entry' # entry)) /\ stored # None
                    => grant[c] # "held" \/ storedUnder # "held"]_vars
  <2> SUFFICES ASSUME NEW c \in Callers, Store(c) \/ (Raise(c) /\ entry' # entry),
                      grant[c] = "held", storedUnder = "held", stored # None
               PROVE  FALSE
      OBVIOUS
  <2>1. Loading(c)
      BY DEF Store, Raise, Loading
  <2> QED
      BY <1>1, <2>1 DEF IInv, HeldSawNothing
<1> QED
    BY <1>1, SpecIInv, PTL DEF Spec, OverwrittenOnlyThen

-----------------------------------------------------------------------------
(* The refinement.                                                         *)

\* A step of one call changes one phase.
LEMMA PhaseStep ==
    ASSUME TypeOK, NEW c \in Callers, NEW at, pc' = [pc EXCEPT ![c] = at]
    PROVE  Phases' = [Phases EXCEPT ![c] = Phase(at)]
    BY DEF TypeOK, Phases, Phase

\* The initial state is an initial state of read-through caching.
LEMMA InitReadThrough == Init => ReadThrough!Init
    BY DEF Init, ReadThrough!Init, Phases, Phase

\* Every step is a step of read-through caching or changes nothing it sees.
LEMMA StepReadThrough == IInv /\ [Next]_vars => [ReadThrough!Next]_(ReadThrough!vars)
<1> SUFFICES ASSUME IInv, [Next]_vars
             PROVE  ReadThrough!Next \/ UNCHANGED ReadThrough!vars
    OBVIOUS
<1> USE DEF IInv, TypeOK, entry, ReadThrough!vars
<1>1. ASSUME NEW c \in Callers, Call(c)
      PROVE  ReadThrough!Call(c)
    BY <1>1, PhaseStep DEF Call, Goto, Phases, Phase, ReadThrough!Call
<1>2. ASSUME NEW c \in Callers, Hit(c)
      PROVE  ReadThrough!Hit(c)
    BY <1>2, PhaseStep DEF Hit, Return, Phases, Phase, ReadThrough!Hit, ReadThrough!Return
<1>3. ASSUME NEW c \in Callers, Miss(c)
      PROVE  ReadThrough!Miss(c) \/ UNCHANGED ReadThrough!vars
    BY <1>3, PhaseStep DEF Miss, Goto, Phases, Phase, ReadThrough!Miss
<1>4. ASSUME NEW c \in Callers, AcquireLock(c) \/ AwaitOther(c) \/ GiveUp(c)
      PROVE  UNCHANGED ReadThrough!vars
    BY <1>4, PhaseStep DEF AcquireLock, AwaitOther, GiveUp, Goto, Phases, Phase
<1>5. ASSUME NEW c \in Callers, Fetch(c)
      PROVE  ReadThrough!Fetch(c)
    BY <1>5, PhaseStep DEF Fetch, Goto, Phases, Phase, ReadThrough!Fetch
<1>6. ASSUME NEW c \in Callers, FetchNothing(c)
      PROVE  ReadThrough!FetchNothing(c)
    BY <1>6, PhaseStep DEF FetchNothing, Return, Phases, Phase, ReadThrough!FetchNothing,
        ReadThrough!Return
<1>7. ASSUME NEW c \in Callers, Store(c)
      PROVE  ReadThrough!Store(c)
    BY <1>7, PhaseStep DEF Store, Keep, Return, Phases, Phase, ReadThrough!Store,
        ReadThrough!Keep, ReadThrough!Return
<1>8. ASSUME NEW c \in Callers, Raise(c)
      PROVE  ReadThrough!Raise(c)
    BY <1>8, PhaseStep DEF Raise, Keep, Return, Phases, Phase, ReadThrough!Raise,
        ReadThrough!Keep, ReadThrough!Return
<1>9. CASE Tick
    BY <1>9, SingleFlightAssumption DEF SingleFlightAssumption, Tick, Older, Less, Expired,
        Phases, ReadThrough!Tick, ReadThrough!Older, ReadThrough!Expired, ReadThrough!Next
<1>10. CASE UNCHANGED vars
    BY <1>10 DEF vars, Phases
<1> QED
    BY <1>1, <1>2, <1>3, <1>4, <1>5, <1>6, <1>7, <1>8, <1>9, <1>10
    DEF Next, Progress, ReadThrough!Next, ReadThrough!Step

\* The single flight implements read-through caching, for all constants.
THEOREM SingleFlightImplements == Spec => ImplementsReadThrough
    BY InitReadThrough, StepReadThrough, SpecIInv, PTL
    DEF Spec, ImplementsReadThrough, ReadThrough!Spec
=============================================================================
