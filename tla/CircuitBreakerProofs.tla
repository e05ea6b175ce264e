------------------------ MODULE CircuitBreakerProofs ------------------------
(***************************************************************************)
(* Machine-checked safety of the circuit breaker, for any number of        *)
(* concurrent calls, any threshold, recovery window and number of          *)
(* HALF_OPEN slots.                                                        *)
(***************************************************************************)
EXTENDS CircuitBreaker, FiniteSetTheorems, TLAPS

\* Probes exist only while HALF_OPEN, and every leaked slot was a cancellation.
ProbesOnlyHalfOpen == state # "HALF_OPEN" => probes = {}
LeakedWereCancelled == leaked <= cancels

\* The inductive invariant.  TypeOK alone is not inductive: that leaked stays
\* within the number of slots needs SlotAccounting, and SlotAccounting needs to
\* know that no probe of an earlier period is left.
IInv ==
    /\ TypeOK
    /\ ClosedBelowThreshold
    /\ SlotAccounting
    /\ ProbesOnlyHalfOpen
    /\ LeakedWereCancelled

\* The sets of in-flight probes are finite, so their cardinalities count.
LEMMA ProbesFinite ==
    ASSUME TypeOK
    PROVE  /\ IsFiniteSet(probes)
           /\ Cardinality(probes) \in Nat
           /\ probes # {} => Cardinality(probes) >= 1
<1>1. probes \in SUBSET Calls
    BY DEF TypeOK
<1>2. IsFiniteSet(probes)
    BY <1>1, BreakerAssumption, FS_Subset DEF BreakerAssumption
<1>3. Cardinality(probes) \in Nat
    BY <1>2, FS_CardinalityType
<1>4. Cardinality(probes) = 0 <=> probes = {}
    BY <1>2, FS_EmptySet
<1> QED
    BY <1>2, <1>3, <1>4

\* The initial states satisfy the inductive invariant.
LEMMA InitIInv == Init => IInv
    BY BreakerAssumption
    DEF BreakerAssumption, Init, IInv, TypeOK, ClosedBelowThreshold,
        SlotAccounting, ProbesOnlyHalfOpen, LeakedWereCancelled

\* Every step preserves the inductive invariant, one step per action of the breaker.
LEMMA StepIInv == IInv /\ [Next]_vars => IInv'
<1> SUFFICES ASSUME IInv, [Next]_vars
             PROVE  IInv'
    OBVIOUS
<1> USE BreakerAssumption DEF BreakerAssumption
<1>fin. /\ IsFiniteSet(probes)
        /\ Cardinality(probes) \in Nat
        /\ probes # {} => Cardinality(probes) >= 1
    BY ProbesFinite DEF IInv
<1>1. ASSUME NEW c \in Calls, AdmitClosed(c)
      PROVE  IInv'
    BY <1>1 DEF AdmitClosed, IInv, TypeOK, ClosedBelowThreshold, SlotAccounting,
        ProbesOnlyHalfOpen, LeakedWereCancelled, code, history
<1>2. ASSUME NEW c \in Calls, StartProbing(c)
      PROVE  IInv'
  <2>1. Cardinality({c}) = 1
      BY FS_Singleton
  <2> QED
      BY <1>2, <2>1 DEF StartProbing, RecoveryElapsed, IInv, TypeOK, ClosedBelowThreshold,
          SlotAccounting, ProbesOnlyHalfOpen, LeakedWereCancelled
<1>3. ASSUME NEW c \in Calls, AdmitProbe(c)
      PROVE  IInv'
  <2>1. c \notin probes
      BY <1>3 DEF AdmitProbe, IInv, TypeOK
  <2>2. Cardinality(probes \cup {c}) = Cardinality(probes) + 1
      BY <2>1, <1>fin, FS_AddElement
  <2> QED
      BY <1>3, <1>fin, <2>2 DEF AdmitProbe, IInv, TypeOK, ClosedBelowThreshold,
          SlotAccounting, ProbesOnlyHalfOpen, LeakedWereCancelled
<1>4. ASSUME NEW c \in Calls, Reject(c)
      PROVE  IInv'
    BY <1>4 DEF Reject, vars, code, history, IInv, TypeOK, ClosedBelowThreshold,
        SlotAccounting, ProbesOnlyHalfOpen, LeakedWereCancelled
<1>5. ASSUME NEW c \in Calls, Fail(c)
      PROVE  IInv'
  <2>1. /\ failures' \in 0..FailureThreshold
        /\ state' \in {"CLOSED", "OPEN"}
        /\ openFor' \in 0..RecoveryTimeout
        /\ state' = "CLOSED" => failures' < FailureThreshold
    <3>1. CASE state = "HALF_OPEN"
        BY <1>5, <3>1 DEF Fail, Trip, IInv, TypeOK
    <3>2. CASE state # "HALF_OPEN"
        BY <1>5, <3>2 DEF Fail, CountFailure, Trip, IInv, TypeOK, ClosedBelowThreshold
    <3> QED
        BY <3>1, <3>2
  <2> QED
      BY <1>5, <2>1 DEF Fail, Leave, IInv, TypeOK, ClosedBelowThreshold, SlotAccounting,
          ProbesOnlyHalfOpen, LeakedWereCancelled
<1>6. ASSUME NEW c \in Calls, Succeed(c)
      PROVE  IInv'
    BY <1>6 DEF Succeed, Leave, IInv, TypeOK, ClosedBelowThreshold, SlotAccounting,
        ProbesOnlyHalfOpen, LeakedWereCancelled
<1>7. ASSUME NEW c \in Calls, Cancel(c)
      PROVE  IInv'
  <2>1. CASE c \in probes
    <3>1. state = "HALF_OPEN"
        BY <2>1 DEF IInv, ProbesOnlyHalfOpen
    <3>2. Cardinality(probes \ {c}) = Cardinality(probes) - 1
        BY <2>1, <1>fin, FS_RemoveElement
    <3>3. leaked + 1 <= HalfOpenMax
        BY <2>1, <3>1, <1>fin DEF IInv, TypeOK, SlotAccounting
    <3> QED
        BY <1>7, <1>fin, <2>1, <3>1, <3>2, <3>3 DEF Cancel, Leave, code, IInv, TypeOK,
            ClosedBelowThreshold, SlotAccounting, ProbesOnlyHalfOpen, LeakedWereCancelled
  <2>2. CASE c \notin probes
    <3>1. probes' = probes
        BY <1>7, <2>2 DEF Cancel
    <3> QED
        BY <1>7, <2>2, <3>1 DEF Cancel, Leave, code, IInv, TypeOK, ClosedBelowThreshold,
            SlotAccounting, ProbesOnlyHalfOpen, LeakedWereCancelled
  <2> QED
      BY <2>1, <2>2
<1>8. CASE Tick
    BY <1>8 DEF Tick, history, IInv, TypeOK, ClosedBelowThreshold, SlotAccounting,
        ProbesOnlyHalfOpen, LeakedWereCancelled
<1>9. CASE UpstreamChanges
    BY <1>9 DEF UpstreamChanges, code, history, IInv, TypeOK, ClosedBelowThreshold,
        SlotAccounting, ProbesOnlyHalfOpen, LeakedWereCancelled
<1>10. CASE UNCHANGED vars
    BY <1>10 DEF vars, code, history, IInv, TypeOK, ClosedBelowThreshold, SlotAccounting,
        ProbesOnlyHalfOpen, LeakedWereCancelled
<1> QED
    BY <1>1, <1>2, <1>3, <1>4, <1>5, <1>6, <1>7, <1>8, <1>9, <1>10
    DEF Next, Enter, Exit

\* The inductive invariant holds in every reachable state.
LEMMA SpecIInv == Spec => []IInv
    BY InitIInv, StepIInv, PTL DEF Spec

\* Every variable of the breaker keeps its type; in particular no more calls
\* than half_open_max_calls ever hold a HALF_OPEN slot.
THEOREM TypeCorrect == Spec => []TypeOK
<1>1. IInv => TypeOK
    BY DEF IInv
<1> QED
    BY <1>1, SpecIInv, PTL

\* However concurrent failures are counted, the breaker is never left CLOSED
\* with failure_threshold failures.
THEOREM ClosedOnlyBelowThreshold == Spec => []ClosedBelowThreshold
<1>1. IInv => ClosedBelowThreshold
    BY DEF IInv
<1> QED
    BY <1>1, SpecIInv, PTL

\* _half_open_calls is the number of probes in flight plus the slots that
\* cancelled probes never gave back.
THEOREM SlotsAreAccounted == Spec => []SlotAccounting
<1>1. IInv => SlotAccounting
    BY DEF IInv
<1> QED
    BY <1>1, SpecIInv, PTL

\* Results alone never wedge the breaker: every slot of a wedged breaker was
\* lost to a cancelled call.
THEOREM OnlyCancelsWedge == Spec => []WedgedOnlyByCancels
<1>1. IInv => WedgedOnlyByCancels
  <2> SUFFICES ASSUME IInv, Wedged
               PROVE  cancels >= HalfOpenMax
      BY DEF WedgedOnlyByCancels
  <2>1. probes = {}
      BY DEF IInv, TypeOK, Wedged
  <2>2. Cardinality(probes) = 0
      BY <2>1, FS_EmptySet
  <2> QED
      BY <2>2, BreakerAssumption
      DEF BreakerAssumption, Wedged, IInv, TypeOK, SlotAccounting, LeakedWereCancelled
<1> QED
    BY <1>1, SpecIInv, PTL

\* A wedged breaker stays wedged: no entry is admitted, no call is left to exit,
\* and neither the clock nor the upstream touches a HALF_OPEN breaker.
THEOREM WedgeIsPermanent == Spec => WedgedForever
<1>1. ASSUME IInv, [Next]_vars
      PROVE  Wedged => Wedged'
  <2> SUFFICES ASSUME Wedged
               PROVE  Wedged'
      OBVIOUS
  <2> USE <1>1
  <2>1. /\ state = "HALF_OPEN"
        /\ ~(halfOpenCalls < HalfOpenMax)
        /\ guarded = {}
      BY BreakerAssumption DEF BreakerAssumption, Wedged, IInv, TypeOK
  <2>2. ASSUME NEW c \in Calls
        PROVE  ~(Enter(c) \/ Exit(c) \/ Cancel(c))
      BY <2>1 DEF Enter, AdmitClosed, StartProbing, RecoveryElapsed, AdmitProbe,
          Exit, Fail, Succeed, Cancel, Leave
  <2>3. ASSUME NEW c \in Calls, Reject(c)
        PROVE  Wedged'
      BY <2>3 DEF Reject, vars, code, Wedged
  <2>4. ~Tick
      BY <2>1 DEF Tick
  <2>5. CASE UpstreamChanges
      BY <2>5 DEF UpstreamChanges, code, Wedged
  <2>6. CASE UNCHANGED vars
      BY <2>6 DEF vars, code, Wedged
  <2> QED
      BY <2>2, <2>3, <2>4, <2>5, <2>6 DEF Next
<1> QED
    BY <1>1, SpecIInv, PTL DEF Spec, WedgedForever
=============================================================================
