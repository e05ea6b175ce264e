--------------------------- MODULE CircuitBreaker ---------------------------
(***************************************************************************)
(* The in-memory circuit breaker that guards every outbound HTTP request   *)
(* (infrastructure/resilience/circuit_breaker.py).                         *)
(*                                                                         *)
(* guard() is an async context manager: its entry and its exit are atomic  *)
(* (their critical sections contain no await), and the guarded call lies   *)
(* between them.  Any number of calls are therefore in flight at once, and *)
(* the state a call meets on exit need not be the state that admitted it.  *)
(* A call may succeed, raise, or be cancelled: CancelledError is not an    *)
(* Exception, so a cancelled call runs neither exit branch.                *)
(***************************************************************************)
EXTENDS Naturals, FiniteSets

CONSTANTS
    Calls,             \* the calls that may be in flight at once
    FailureThreshold,  \* failure_threshold
    RecoveryTimeout,   \* recovery_timeout_s, in clock ticks
    HalfOpenMax,       \* half_open_max_calls
    MaxCancels         \* bound: how many guarded calls are cancelled

ASSUME BreakerAssumption ==
    /\ IsFiniteSet(Calls)
    /\ FailureThreshold \in Nat \ {0}
    /\ RecoveryTimeout \in Nat
    /\ HalfOpenMax \in Nat \ {0}
    /\ MaxCancels \in Nat

VARIABLES
    state,          \* _state
    failures,       \* _failures, counted up to FailureThreshold
    openFor,        \* time.monotonic() - _opened_at, up to RecoveryTimeout
    halfOpenCalls,  \* _half_open_calls
    guarded,        \* the calls between entry and exit of guard()
    upstream,       \* environment: what a guarded call will meet
    probes,         \* history: guarded calls admitted by the HALF_OPEN period that is on
    leaked,         \* history: probes of this period that were cancelled
    cancels         \* history: cancellations so far

code    == <<state, failures, openFor, halfOpenCalls>>
history == <<probes, leaked, cancels>>
vars    == <<code, guarded, upstream, history>>

TypeOK ==
    /\ state \in {"CLOSED", "OPEN", "HALF_OPEN"}
    /\ failures \in 0..FailureThreshold
    /\ openFor \in 0..RecoveryTimeout
    /\ halfOpenCalls \in 0..HalfOpenMax
    /\ guarded \subseteq Calls
    /\ upstream \in {"up", "down"}
    /\ probes \subseteq guarded
    /\ leaked \in 0..HalfOpenMax
    /\ cancels \in 0..MaxCancels

Init ==
    /\ state = "CLOSED"
    /\ failures = 0
    /\ openFor = 0
    /\ halfOpenCalls = 0
    /\ guarded = {}
    /\ upstream \in {"up", "down"}
    /\ probes = {}
    /\ leaked = 0
    /\ cancels = 0

-----------------------------------------------------------------------------
(* Entry of guard().                                                       *)

RecoveryElapsed == state = "OPEN" /\ openFor >= RecoveryTimeout

AdmitClosed(c) ==
    /\ c \notin guarded
    /\ state = "CLOSED"
    /\ guarded' = guarded \cup {c}
    /\ UNCHANGED <<code, upstream, history>>

\* The first entry after the recovery window starts a HALF_OPEN period and
\* takes its first slot; every later one needs a free slot.
StartProbing(c) ==
    /\ c \notin guarded
    /\ RecoveryElapsed
    /\ state' = "HALF_OPEN"
    /\ halfOpenCalls' = 1
    /\ guarded' = guarded \cup {c}
    /\ probes' = {c}
    /\ leaked' = 0
    /\ UNCHANGED <<failures, openFor, upstream, cancels>>

AdmitProbeNoLimit(c) ==  \* mutant: the slots are not counted against the limit
    /\ c \notin guarded
    /\ state = "HALF_OPEN"
    /\ halfOpenCalls' = halfOpenCalls + 1
    /\ guarded' = guarded \cup {c}
    /\ probes' = probes \cup {c}
    /\ UNCHANGED <<state, failures, openFor, upstream, leaked, cancels>>

AdmitProbe(c) ==
    /\ c \notin guarded
    /\ state = "HALF_OPEN"
    /\ halfOpenCalls < HalfOpenMax
    /\ halfOpenCalls' = halfOpenCalls + 1
    /\ guarded' = guarded \cup {c}
    /\ probes' = probes \cup {c}
    /\ UNCHANGED <<state, failures, openFor, upstream, leaked, cancels>>

RejectRearms(c) ==  \* mutant: a rejected call restarts the recovery window
    /\ c \notin guarded
    /\ state = "OPEN" /\ ~RecoveryElapsed
    /\ openFor' = 0
    /\ UNCHANGED <<state, failures, halfOpenCalls, guarded, upstream, history>>

\* RuntimeError("circuit_open") and RuntimeError("circuit_half_open_limit").
Reject(c) ==
    /\ c \notin guarded
    /\ \/ state = "OPEN" /\ ~RecoveryElapsed
       \/ state = "HALF_OPEN" /\ halfOpenCalls >= HalfOpenMax
    /\ UNCHANGED vars

-----------------------------------------------------------------------------
(* Exit of guard().                                                        *)

Leave(c) == c \in guarded /\ guarded' = guarded \ {c}

Trip ==
    /\ state' = "OPEN"
    /\ openFor' = 0

CountFailureTooLate ==  \* mutant: > instead of >= failure_threshold
    /\ failures' = IF failures < FailureThreshold THEN failures + 1 ELSE failures
    /\ IF failures + 1 > FailureThreshold
         THEN Trip
         ELSE UNCHANGED <<state, openFor>>

CountFailure ==
    /\ failures' = IF failures < FailureThreshold THEN failures + 1 ELSE failures
    /\ IF failures + 1 >= FailureThreshold
         THEN Trip
         ELSE UNCHANGED <<state, openFor>>

FailKeepsProbing(c) ==  \* mutant: a failed probe only counts
    /\ upstream = "down"
    /\ Leave(c)
    /\ \/ state = "HALF_OPEN" /\ UNCHANGED <<state, failures, openFor>>
       \/ state # "HALF_OPEN" /\ CountFailure
    /\ probes' = {}
    /\ UNCHANGED <<halfOpenCalls, upstream, leaked, cancels>>

\* Any guarded call reports here, whichever state admitted it.
Fail(c) ==
    /\ upstream = "down"
    /\ Leave(c)
    /\ \/ state = "HALF_OPEN" /\ Trip /\ UNCHANGED failures
       \/ state # "HALF_OPEN" /\ CountFailure
    /\ probes' = {}
    /\ UNCHANGED <<halfOpenCalls, upstream, leaked, cancels>>

Succeed(c) ==
    /\ upstream = "up"
    /\ Leave(c)
    /\ \/ state \in {"CLOSED", "HALF_OPEN"} /\ state' = "CLOSED" /\ failures' = 0
       \/ state = "OPEN" /\ UNCHANGED <<state, failures>>
    /\ probes' = {}
    /\ UNCHANGED <<openFor, halfOpenCalls, upstream, leaked, cancels>>

\* The task is cancelled while the request is in flight: neither
\* `except Exception` nor `else` runs, and the slot stays taken.
Cancel(c) ==
    /\ cancels < MaxCancels
    /\ Leave(c)
    /\ cancels' = cancels + 1
    /\ probes' = probes \ {c}
    /\ leaked' = IF c \in probes THEN leaked + 1 ELSE leaked
    /\ UNCHANGED <<code, upstream>>

-----------------------------------------------------------------------------
(* The clock and the upstream service.                                     *)

Tick ==
    /\ state = "OPEN"
    /\ openFor < RecoveryTimeout
    /\ openFor' = openFor + 1
    /\ UNCHANGED <<state, failures, halfOpenCalls, guarded, upstream, history>>

UpstreamChanges ==
    /\ upstream' = IF upstream = "up" THEN "down" ELSE "up"
    /\ UNCHANGED <<code, guarded, history>>

Enter(c) == AdmitClosed(c) \/ StartProbing(c) \/ AdmitProbe(c)
Exit(c)  == Fail(c) \/ Succeed(c)

Next ==
    \/ \E c \in Calls : Enter(c) \/ Reject(c) \/ Exit(c) \/ Cancel(c)
    \/ Tick
    \/ UpstreamChanges

Spec == Init /\ [][Next]_vars

\* Time passes, a guarded request ends (httpx gives every request a timeout),
\* and callers keep making requests.
Fairness ==
    /\ WF_vars(Tick)
    /\ \A c \in Calls : WF_vars(Exit(c))
    /\ WF_vars(\E c \in Calls : Enter(c))

FairSpec == Spec /\ Fairness

-----------------------------------------------------------------------------
(* Safety.                                                                 *)

\* guard() never leaves the breaker CLOSED with the failure budget spent:
\* whatever the order in which concurrent failures are counted, the one that
\* reaches the threshold opens it.
ClosedBelowThreshold == state = "CLOSED" => failures < FailureThreshold

\* While HALF_OPEN, _half_open_calls counts exactly the probes of this period
\* that are in flight and those that were cancelled: a finished probe ends the
\* period, and a cancelled one keeps its slot.
SlotAccounting ==
    state = "HALF_OPEN" => halfOpenCalls = Cardinality(probes) + leaked

\* Every slot is taken and no call is left that could free one.
Wedged ==
    /\ state = "HALF_OPEN"
    /\ halfOpenCalls >= HalfOpenMax
    /\ guarded = {}

\* Failures and successes alone never wedge the breaker: it takes as many
\* cancelled probes as there are slots.
WedgedOnlyByCancels == Wedged => cancels >= HalfOpenMax

\* Nothing in guard() recovers a wedged breaker: from then on every call is
\* rejected with circuit_half_open_limit, whatever the upstream does.
WedgedForever == [][Wedged => Wedged']_vars

-----------------------------------------------------------------------------
(* Liveness.                                                               *)

\* When the upstream comes back for good and callers keep calling, the breaker
\* closes for good, unless cancelled probes took every slot.
Recovers == <>[](upstream = "up") => <>[](state = "CLOSED" \/ Wedged)

\* The module's docstring: "HALF-OPEN -> allow limited calls; on success ->
\* CLOSED; on failure -> OPEN", that is, HALF_OPEN is left.
HalfOpenIsLeft == state = "HALF_OPEN" ~> state # "HALF_OPEN"

=============================================================================
