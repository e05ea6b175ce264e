---------------------------- MODULE RequestsProofs ----------------------------
(***************************************************************************)
(* Machine-checked safety of the idempotency record, for any number of     *)
(* requests, payloads and expiries, of the rate limiter, for any number of *)
(* keys, any burst and any rate, and of the two routes for quotes, for any *)
(* number of callers, tickers, bars and days.                              *)
(***************************************************************************)
EXTENDS Requests, FiniteSetTheorems, WellFoundedInduction, TLAPS

-----------------------------------------------------------------------------
(* HTTP idempotency.                                                       *)

\* A request is let through only when its lookup met no active record.
AdmittedLookedFree == \A r \in Requests : pc[r] \in {"admitted", "selected"} => r \in lookedFree

\* The record of a request that runs its handler, or that has read it, exists:
\* rows are never deleted.
RunningHasRow == InFlight # {} => row # NoRow
ReadHasRow == \A r \in Requests : snap[r] # NoRow => row # NoRow

\* What create_started has read agrees in itself, too; so a restart writes back
\* both of state and status or neither.
SnapsAgree ==
    \A r \in Requests :
        snap[r] # NoRow => (snap[r].state = "COMPLETED" <=> snap[r].status # None)

\* Apart from the two races, the executions under the record are one, which finds
\* it live, STARTED and with its own hash.
OneExecution == \A r, q \in InFlight \cup effects : r = q
ExecutionIsLive == InFlight \cup effects # {} => Active
RunsOnStarted == \A r \in InFlight : row.state = "STARTED" /\ row.hash = hash[r]

\* Apart from the two races, a stored response is that of one request with the
\* record's hash, and what create_started has read of an expired record is current.
ResponseIsOwn ==
    row # NoRow =>
        /\ row.state = "STARTED" => row.body = None
        /\ row.state = "COMPLETED" =>
             /\ hash[row.status] = row.hash
             /\ row.body = IF hasBody[row.status] THEN row.status ELSE None
SnapIsCurrent ==
    \A r \in Requests : (pc[r] = "selected" /\ row # NoRow /\ ~row.live) => snap[r] = row

Quiet ==
    /\ OneExecution
    /\ ExecutionIsLive
    /\ RunsOnStarted
    /\ ResponseIsOwn
    /\ SnapIsCurrent
    /\ \A r \in Requests : FaithfulReplay(r)

\* The inductive invariant.  The first part holds whatever races; the second one
\* only until the first race, and implies what a record promises.
Always ==
    /\ TypeOK
    /\ AdmittedLookedFree
    /\ RunningHasRow
    /\ ReadHasRow
    /\ SnapsAgree
    /\ CompletedHasStatus

IInv == Always /\ (Undisturbed => Quiet)

\* The initial state satisfies the inductive invariant.
LEMMA InitIInv == Init => IInv
<1> SUFFICES ASSUME Init
             PROVE  IInv
    OBVIOUS
<1> USE IdempotencyAssumption DEF IdempotencyAssumption, Init, InFlight
<1>1. TypeOK
  <2>1. [kind |-> "none"] \in Answers
      BY DEF Answers
  <2>2. answer \in [Requests -> Answers]
      BY <2>1
  <2>3. raced \in BOOLEAN /\ outlived \in BOOLEAN
      OBVIOUS
  <2>4. pc \in [Requests -> Steps] /\ expiries \in 0..MaxExpiries
      BY DEF Steps
  <2>5. /\ row \in Row \cup {NoRow}
        /\ snap \in [Requests -> Row \cup {NoRow}]
        /\ hash \in [Requests -> Hashes]
        /\ hasBody \in [Requests -> BOOLEAN]
      OBVIOUS
  <2>6. effects \subseteq Requests /\ lookedFree \subseteq Requests
      OBVIOUS
  <2> QED
      BY <2>2, <2>3, <2>4, <2>5, <2>6 DEF TypeOK
<1>2. AdmittedLookedFree /\ RunningHasRow /\ ReadHasRow /\ SnapsAgree /\ CompletedHasStatus
    BY DEF AdmittedLookedFree, RunningHasRow, ReadHasRow, SnapsAgree, CompletedHasStatus
<1>3. Quiet
    BY DEF Quiet, OneExecution, ExecutionIsLive, RunsOnStarted, ResponseIsOwn, SnapIsCurrent,
        FaithfulReplay
<1> QED
    BY <1>1, <1>2, <1>3 DEF IInv, Always

\* A row is not NoRow, and its fields have their types.
LEMMA RowFields ==
    ASSUME NEW x \in Row
    PROVE  /\ x # NoRow
           /\ x.hash \in Hashes
           /\ x.state \in {"STARTED", "COMPLETED"}
           /\ x.status \in Requests \cup {None}
           /\ x.body \in Requests \cup {None}
           /\ x.live \in BOOLEAN
    BY IdempotencyAssumption DEF IdempotencyAssumption, Row

\* The reset leaves a row, whatever was read and whatever is stored.
LEMMA RestartedIsRow ==
    ASSUME row \in Row, NEW seen \in Row, NEW h \in Hashes
    PROVE  /\ Restarted(seen, h) \in Row
           /\ Restarted(seen, h).live
    BY RowFields DEF Restarted, Column, Row

\* The first part of the invariant, one step per action.
LEMMA StepAlways == Always /\ [Next]_vars => Always'
<1> SUFFICES ASSUME Always, [Next]_vars
             PROVE  Always'
    OBVIOUS
<1> USE IdempotencyAssumption DEF IdempotencyAssumption, Always, TypeOK, Steps, AdmittedLookedFree,
        RunningHasRow, ReadHasRow, SnapsAgree, CompletedHasStatus, InFlight, Goto
<1>1. ASSUME NEW r \in Requests, Lookup(r)
      PROVE  Always'
  <2>1. answer' \in [Requests -> Answers]
      BY <1>1, RowFields DEF Lookup, Admit, Refuse, Reply, Replay, Completed, Active, Answers
  <2>2. pc' \in [Requests -> Steps] /\ lookedFree' \subseteq Requests
      BY <1>1 DEF Lookup, Admit, Refuse
  <2>3. \A q \in Requests : pc'[q] \in {"running", "ran"} => pc[q] \in {"running", "ran"}
      BY <1>1 DEF Lookup, Admit, Refuse
  <2>4. AdmittedLookedFree'
      BY <1>1 DEF Lookup, Admit, Refuse
  <2> QED
      BY <1>1, <2>1, <2>2, <2>3, <2>4 DEF Lookup
<1>2. ASSUME NEW r \in Requests, SelectRow(r)
      PROVE  Always'
    BY <1>2 DEF SelectRow, history
<1>3. ASSUME NEW r \in Requests, InsertStarted(r)
      PROVE  Always'
  <2>1. Started(hash[r]) \in Row
      BY DEF Started, Row
  <2>2. Started(hash[r]).state = "STARTED" /\ Started(hash[r]).status = None
      BY DEF Started
  <2> QED
      BY <1>3, <2>1, <2>2, RowFields DEF InsertStarted, history
<1>4. ASSUME NEW r \in Requests, InsertConflicts(r)
      PROVE  Always'
  <2>1. answer' \in [Requests -> Answers]
      BY <1>4 DEF InsertConflicts, Reply, Answers
  <2> QED
      BY <1>4, <2>1 DEF InsertConflicts, history
<1>5. ASSUME NEW r \in Requests, Restart(r)
      PROVE  Always'
  <2>1. row \in Row /\ snap[r] \in Row /\ hash[r] \in Hashes
      BY <1>5 DEF Restart
  <2>2. row' \in Row
      BY <1>5, <2>1, RestartedIsRow DEF Restart
  <2>3. row'.state = "COMPLETED" <=> row'.status # None
      BY <1>5, <2>1, RowFields DEF Restart, Restarted, Column
  <2>4. raced' \in BOOLEAN
      BY <1>5, <2>1, RowFields DEF Restart
  <2> QED
      BY <1>5, <2>2, <2>3, <2>4 DEF Restart
<1>6. ASSUME NEW r \in Requests, RunHandler(r)
      PROVE  Always'
    BY <1>6 DEF RunHandler
<1>7. ASSUME NEW r \in Requests, SaveResult(r)
      PROVE  Always'
  <2>1. row \in Row
      BY <1>7 DEF SaveResult
  <2>2. row' \in Row /\ row'.state = "COMPLETED" /\ row'.status = r
      BY <1>7, <2>1, RowFields DEF SaveResult, Row
  <2>3. answer' \in [Requests -> Answers]
      BY <1>7 DEF SaveResult, Reply, Answers
  <2> QED
      BY <1>7, <2>2, <2>3, RowFields DEF SaveResult, history
<1>8. ASSUME NEW r \in Requests, Abort(r)
      PROVE  Always'
  <2>1. answer' \in [Requests -> Answers]
      BY <1>8 DEF Abort, Reply, Answers
  <2> QED
      BY <1>8, <2>1 DEF Abort, history
<1>9. CASE Expire
  <2>1. row \in Row
      BY <1>9 DEF Expire, Active
  <2>2. row' \in Row /\ row'.state = row.state /\ row'.status = row.status
      BY <1>9, <2>1, RowFields DEF Expire, Row
  <2>3. expiries' \in 0..MaxExpiries /\ outlived' \in BOOLEAN
      BY <1>9 DEF Expire
  <2> QED
      BY <1>9, <2>1, <2>2, <2>3, RowFields DEF Expire
<1>10. CASE UNCHANGED vars
    BY <1>10 DEF vars, history
<1> QED
    BY <1>1, <1>2, <1>3, <1>4, <1>5, <1>6, <1>7, <1>8, <1>9, <1>10 DEF Next, Dispatch

\* A race, once it has happened, stays on record.
LEMMA RacesStay == TypeOK /\ [Next]_vars /\ Undisturbed' => Undisturbed
<1> SUFFICES ASSUME TypeOK, [Next]_vars
             PROVE  (raced => raced') /\ (outlived => outlived')
    BY DEF Undisturbed
<1>1. ASSUME NEW r \in Requests, Restart(r)
      PROVE  (raced => raced') /\ (outlived => outlived')
    BY <1>1 DEF Restart, TypeOK
<1>2. ASSUME NEW r \in Requests,
             \/ Lookup(r) \/ SelectRow(r) \/ InsertStarted(r) \/ InsertConflicts(r)
             \/ RunHandler(r) \/ SaveResult(r) \/ Abort(r)
      PROVE  (raced => raced') /\ (outlived => outlived')
    BY <1>2 DEF Lookup, SelectRow, InsertStarted, InsertConflicts, RunHandler, SaveResult, Abort,
        history
<1>3. CASE Expire
    BY <1>3 DEF Expire, TypeOK
<1>4. CASE UNCHANGED vars
    BY <1>4 DEF vars, history
<1> QED
    BY <1>1, <1>2, <1>3, <1>4 DEF Next, Dispatch

\* The second part of the invariant, one step per action.
LEMMA StepQuiet ==
    ASSUME Always, Quiet, Undisturbed, [Next]_vars, Undisturbed'
    PROVE  Quiet'
<1> DEFINE Executing == InFlight \cup effects
<1> USE IdempotencyAssumption DEF IdempotencyAssumption, Always, TypeOK, Steps, AdmittedLookedFree,
        RunningHasRow, ReadHasRow, Quiet, OneExecution, ExecutionIsLive, RunsOnStarted,
        ResponseIsOwn, SnapIsCurrent, InFlight, Goto, Active
<1>1. ASSUME NEW r \in Requests, Lookup(r)
      PROVE  Quiet'
  <2>1. /\ InFlight' = InFlight
        /\ UNCHANGED <<row, snap, hash, hasBody, effects>>
        /\ \A q \in Requests : pc'[q] = "selected" => pc[q] = "selected"
      BY <1>1 DEF Lookup, Admit, Refuse
  <2>2. \A q \in Requests : FaithfulReplay(q)'
    <3>1. ASSUME NEW q \in Requests, q # r
          PROVE  FaithfulReplay(q)'
      <4>1. answer'[q] = answer[q]
          BY <1>1, <3>1 DEF Lookup, Admit, Refuse, Reply, Replay
      <4> QED
          BY <4>1, <2>1 DEF FaithfulReplay
    <3>2. FaithfulReplay(r)'
      <4>1. CASE answer' = answer
          BY <4>1, <2>1 DEF FaithfulReplay
      <4>2. CASE Reply(r, [kind |-> "conflict"]) \/ Reply(r, [kind |-> "in_progress"])
        <5>1. answer'[r].kind # "replay"
            BY <4>2 DEF Reply
        <5> QED
            BY <5>1 DEF FaithfulReplay
      <4>3. CASE Active /\ row.hash = hash[r] /\ Completed /\ Replay(r)
        <5>1. answer'[r].status = row.status /\ answer'[r].body = row.body
            BY <4>3 DEF Reply, Replay
        <5> QED
            BY <4>3, <5>1, <2>1 DEF FaithfulReplay, Completed
      <4> QED
          BY <1>1, <4>1, <4>2, <4>3 DEF Lookup, Admit
    <3> QED
        BY <3>1, <3>2
  <2> QED
      BY <2>1, <2>2
<1>2. ASSUME NEW r \in Requests, SelectRow(r)
      PROVE  Quiet'
    BY <1>2 DEF SelectRow, history, FaithfulReplay
<1>3. ASSUME NEW r \in Requests, InsertStarted(r)
      PROVE  Quiet'
  <2>1. InFlight = {} /\ effects = {}
      BY <1>3 DEF InsertStarted
  <2>2. InFlight' \cup effects' = {r}
      BY <1>3, <2>1 DEF InsertStarted, history
  <2>3. /\ row' # NoRow
        /\ row'.hash = hash[r]
        /\ row'.state = "STARTED"
        /\ row'.body = None
        /\ row'.live
    <3>1. Started(hash[r]) \in Row
        BY DEF Started, Row
    <3> QED
        BY <1>3, <3>1, RowFields DEF InsertStarted, Started
  <2> QED
      BY <1>3, <2>2, <2>3 DEF InsertStarted, history, FaithfulReplay
<1>4. ASSUME NEW r \in Requests, InsertConflicts(r)
      PROVE  Quiet'
  <2>1. answer'[r].kind # "replay" /\ \A q \in Requests : q # r => answer'[q] = answer[q]
      BY <1>4 DEF InsertConflicts, Reply
  <2> QED
      BY <1>4, <2>1 DEF InsertConflicts, history, FaithfulReplay
<1>5. ASSUME NEW r \in Requests, Restart(r)
      PROVE  Quiet'
  <2>1. row \in Row /\ ~row.live
      BY <1>5 DEF Restart, Undisturbed
  <2>2. snap[r] = row
      BY <1>5, <2>1, RowFields DEF Restart
  <2>3. InFlight = {} /\ effects = {}
      BY <2>1
  <2>4. InFlight' \cup effects' = {r}
      BY <1>5, <2>3 DEF Restart
  <2>5. /\ row' # NoRow
        /\ row'.hash = hash[r]
        /\ row'.state = "STARTED"
        /\ row'.body = None
        /\ row'.live
    <3>1. Restarted(row, hash[r]) \in Row
        BY <2>1, RestartedIsRow
    <3> QED
        BY <1>5, <2>1, <2>2, <3>1, RowFields DEF Restart, Restarted, Column
  <2> QED
      BY <1>5, <2>4, <2>5 DEF Restart, FaithfulReplay
<1>6. ASSUME NEW r \in Requests, RunHandler(r)
      PROVE  Quiet'
  <2>1. InFlight' \cup effects' = InFlight \cup effects /\ InFlight' = InFlight
      BY <1>6 DEF RunHandler
  <2> QED
      BY <1>6, <2>1 DEF RunHandler, FaithfulReplay
<1>7. ASSUME NEW r \in Requests, SaveResult(r)
      PROVE  Quiet'
  <2>1. r \in InFlight /\ InFlight' = {}  /\ effects' = effects
      BY <1>7 DEF SaveResult, history
  <2>2. row \in Row /\ row.state = "STARTED" /\ row.hash = hash[r] /\ row.body = None /\ row.live
      BY <2>1
  <2>3. /\ row' # NoRow
        /\ row'.hash = hash[r]
        /\ row'.state = "COMPLETED"
        /\ row'.status = r
        /\ row'.body = IF hasBody[r] THEN r ELSE None
        /\ row'.live
    <3>1. row' \in Row
        BY <1>7, <2>2, RowFields DEF SaveResult, Row
    <3> QED
        BY <1>7, <2>2, <3>1, RowFields DEF SaveResult, Row
  <2>4. answer'[r].kind # "replay" /\ \A q \in Requests : q # r => answer'[q] = answer[q]
      BY <1>7 DEF SaveResult, Reply
  <2> QED
      BY <1>7, <2>1, <2>3, <2>4 DEF SaveResult, history, FaithfulReplay
<1>8. ASSUME NEW r \in Requests, Abort(r)
      PROVE  Quiet'
  <2>1. answer'[r].kind # "replay" /\ \A q \in Requests : q # r => answer'[q] = answer[q]
      BY <1>8 DEF Abort, Reply
  <2> QED
      BY <1>8, <2>1 DEF Abort, history, FaithfulReplay
<1>9. CASE Expire
  <2>1. \A q \in Requests : pc[q] \notin {"admitted", "selected", "running", "ran"}
      BY <1>9 DEF Expire, Undisturbed, Dispatching
  <2>2. InFlight' = {} /\ effects' = {}
      BY <1>9, <2>1 DEF Expire
  <2>3. row \in Row
      BY <1>9 DEF Expire
  <2>4. /\ row'.state = row.state
        /\ row'.status = row.status
        /\ row'.hash = row.hash
        /\ row'.body = row.body
      BY <1>9, <2>3, RowFields DEF Expire, Row
  <2> QED
      BY <1>9, <2>1, <2>2, <2>3, <2>4, RowFields DEF Expire, FaithfulReplay
<1>10. CASE UNCHANGED vars
    BY <1>10 DEF vars, history, FaithfulReplay
<1> QED
    BY <1>1, <1>2, <1>3, <1>4, <1>5, <1>6, <1>7, <1>8, <1>9, <1>10 DEF Next, Dispatch

\* Every step preserves both parts of the invariant.
LEMMA StepIInv == IInv /\ [Next]_vars => IInv'
    BY StepAlways, RacesStay, StepQuiet DEF IInv, Always

\* The inductive invariant holds in every reachable state.
LEMMA SpecIInv == Spec => []IInv
    BY InitIInv, StepIInv, PTL DEF Spec

\* Every variable keeps its type: in particular no answer replays a response
\* without a status, and no response is saved to a row that does not exist.
THEOREM TypeCorrect == Spec => []TypeOK
<1>1. IInv => TypeOK
    BY DEF IInv, Always
<1> QED
    BY <1>1, SpecIInv, PTL

\* state and status agree whatever the races: a COMPLETED record can be replayed
\* and a STARTED one never is.
THEOREM ColumnsAgree == Spec => []CompletedHasStatus
<1>1. IInv => CompletedHasStatus
    BY DEF IInv, Always
<1> QED
    BY <1>1, SpecIInv, PTL

\* Apart from the two races, a record sees one execution of the handler, however
\* many requests carry the key and wherever they are aborted.
THEOREM EffectAtMostOnce == Spec => []AtMostOneEffect
<1>1. IInv => AtMostOneEffect
    BY DEF IInv, Quiet, OneExecution, AtMostOneEffect
<1> QED
    BY <1>1, SpecIInv, PTL

\* Apart from the two races, a replay is the response to a request with the same
\* hash, complete with that response's body.
THEOREM ReplaysAreFaithful == Spec => []ReplayUnlessDisturbed
<1>1. IInv => ReplayUnlessDisturbed
    BY DEF IInv, Quiet, ReplayUnlessDisturbed
<1> QED
    BY <1>1, SpecIInv, PTL

\* Apart from the two races, a stored response stays as it is for as long as it
\* can be replayed.
THEOREM ResponsesStay == Spec => StoredResponseStays
<1>1. ASSUME IInv, [Next]_vars,
             Active, row.state = "COMPLETED", Undisturbed', row'.live
      PROVE  row' = row
  <2> USE <1>1
  <2>1. Undisturbed /\ Always /\ Quiet
      BY RacesStay DEF IInv, Always
  <2>2. row \in Row
      BY <2>1 DEF Always, TypeOK, Active
  <2>3. ASSUME NEW r \in Requests, Restart(r)
        PROVE  FALSE
      BY <2>1, <2>3 DEF Restart, Goto, Active, Undisturbed, Always, AdmittedLookedFree, TypeOK
  <2>4. ASSUME NEW r \in Requests, SaveResult(r)
        PROVE  FALSE
      BY <2>1, <2>4 DEF SaveResult, Goto, Quiet, RunsOnStarted, InFlight
  <2>5. ~Expire
      BY <2>2, RowFields DEF Expire, Row
  <2> QED
      BY <2>3, <2>4, <2>5 DEF Next, Dispatch, Lookup, SelectRow, InsertStarted, InsertConflicts,
          RunHandler, Abort, vars, history, Active
<1> QED
    BY <1>1, SpecIInv, PTL DEF Spec, StoredResponseStays

-----------------------------------------------------------------------------
(* The rate limiter.                                                       *)

(* Arithmetic.                                                             *)

LEMMA MinOfTwo ==
    ASSUME NEW a \in Int, NEW b \in Int
    PROVE  /\ RL!Min({a, b}) \in {a, b}
           /\ RL!Min({a, b}) <= a
           /\ RL!Min({a, b}) <= b
<1>1. \E x \in {a, b} : \A y \in {a, b} : x <= y
  <2>1. CASE a <= b
    BY <2>1
  <2>2. CASE ~(a <= b)
    BY <2>2
  <2> QED
    BY <2>1, <2>2
<1> QED
    BY <1>1 DEF RL!Min

LEMMA MaxOfTwo ==
    ASSUME NEW a \in Int, NEW b \in Int
    PROVE  /\ RL!Max({a, b}) \in {a, b}
           /\ RL!Max({a, b}) >= a
           /\ RL!Max({a, b}) >= b
<1>1. \E x \in {a, b} : \A y \in {a, b} : x >= y
  <2>1. CASE a >= b
    BY <2>1
  <2>2. CASE ~(a >= b)
    BY <2>2
  <2> QED
    BY <2>1, <2>2
<1> QED
    BY <1>1 DEF RL!Max

\* Tokens that come in two stretches of time are those of both together.
LEMMA Stretches ==
    ASSUME NEW a \in Int, NEW b \in Int, NEW c \in Int, NEW p \in Int
    PROVE  (b - a) * p + (c - b) * p = (c - a) * p
    OBVIOUS

LEMMA Grows ==
    ASSUME NEW a \in Int, NEW b \in Int, NEW p \in Nat, a <= b
    PROVE  a * p <= b * p
    OBVIOUS

\* A quotient plus one, in whole divisors, is more than the dividend.
LEMMA RoundedUp ==
    ASSUME NEW x \in Nat, NEW d \in Nat \ {0}
    PROVE  /\ x \div d \in Nat
           /\ (x \div d + 1) * d > x
<1>1. x \div d \in Int /\ x % d \in 0..(d - 1) /\ x = d * (x \div d) + (x % d)
    OBVIOUS
<1>2. (x \div d + 1) * d = d * (x \div d) + d
    BY <1>1
<1>3. x \div d >= 0
    OBVIOUS
<1> QED
    BY <1>1, <1>2, <1>3

-----------------------------------------------------------------------------
(* The inductive invariant.                                                *)

Burst == Capacity * Unit

LimiterTypes ==
    /\ now \in Nat
    /\ buckets \in [Keys -> {None} \cup [tokens : Nat, last : Nat]]
    /\ waiting \in [Keys -> Nat]
    /\ taken \in [Keys -> Seq(Nat)]
    /\ promised \in [Keys -> Nat \cup {None}]

\* What a key's bucket has left, and what was let through before.
BucketInv(k) ==
    /\ buckets[k] = None =>
         taken[k] = <<>> /\ waiting[k] = 0 /\ promised[k] = None
    /\ buckets[k] # None =>
         /\ buckets[k].tokens <= Burst
         /\ buckets[k].last <= now
         /\ \A i \in 1..Len(taken[k]) :
              (Len(taken[k]) - i + 1) * Unit + buckets[k].tokens
                  <= Burst + (buckets[k].last - taken[k][i]) * PerTick
         /\ promised[k] # None =>
              buckets[k].tokens + (promised[k] - buckets[k].last) * PerTick >= Unit

\* The first half of LimitKeepsItsWord.
Stretch(k) ==
    \A i, j \in 1..Len(taken[k]) : i <= j =>
        (j - i + 1) * Unit <= Burst + (taken[k][j] - taken[k][i]) * PerTick

LimiterInv == LimiterTypes /\ \A k \in Keys : BucketInv(k) /\ Stretch(k)

-----------------------------------------------------------------------------

LEMMA LimiterConstants ==
    /\ Unit \in Nat \ {0} /\ PerTick \in Nat \ {0} /\ PerSecond \in Nat \ {0}
    /\ PerTick * PerSecond \in Nat \ {0}
    /\ Burst \in Nat /\ Burst >= Unit
    /\ None \notin Nat
    /\ None \notin [tokens : Nat, last : Nat]
<1>1. /\ Capacity \in Nat \ {0} /\ Unit \in Nat \ {0}
      /\ PerTick \in Nat \ {0} /\ PerSecond \in Nat \ {0}
    BY Limiter DEF RL!LimiterAssumption
<1>2. Capacity * Unit \in Nat /\ Capacity * Unit >= Unit
    BY <1>1
<1>3. PerTick * PerSecond \in Nat \ {0}
    BY <1>1
<1>4. None \notin Nat /\ None \notin [tokens : Nat, last : Nat]
    BY Limiter DEF RL!LimiterAssumption
<1> QED
    BY <1>1, <1>2, <1>3, <1>4 DEF Burst

\* What a request finds is no more than the burst, and no more than has come.
LEMMA WhatIsFound ==
    ASSUME LimiterInv, NEW k \in Keys
    PROVE  /\ RL!Refilled(k) \in Nat
           /\ RL!Refilled(k) <= Burst
           /\ buckets[k] # None =>
                /\ buckets[k] \in [tokens : Nat, last : Nat]
                /\ (now - buckets[k].last) * PerTick \in Nat
                /\ RL!Refilled(k) <= buckets[k].tokens + (now - buckets[k].last) * PerTick
                /\ \/ RL!Refilled(k) = Burst
                   \/ RL!Refilled(k) = buckets[k].tokens + (now - buckets[k].last) * PerTick
<1>1. CASE buckets[k] = None
    BY <1>1, LimiterConstants DEF RL!Refilled, Burst
<1>2. CASE buckets[k] # None
  <2>1. buckets[k] \in [tokens : Nat, last : Nat] /\ now \in Nat /\ buckets[k].last <= now
      BY <1>2 DEF LimiterInv, LimiterTypes, BucketInv
  <2>2. (now - buckets[k].last) * PerTick \in Nat
      BY <2>1, LimiterConstants
  <2> DEFINE come == buckets[k].tokens + (now - buckets[k].last) * PerTick
  <2>3. come \in Nat
      BY <2>1, <2>2
  <2>4. RL!Refilled(k) = RL!Min({Burst, come})
      BY <1>2 DEF RL!Refilled, Burst
  <2> HIDE DEF come
  <2>5. Burst \in Nat
      BY LimiterConstants
  <2>6. Burst \in Int /\ come \in Int
      BY <2>3, <2>5
  <2>7. RL!Min({Burst, come}) \in {Burst, come} /\ RL!Min({Burst, come}) <= Burst
        /\ RL!Min({Burst, come}) <= come
      BY <2>6, MinOfTwo, Zenon
  <2>8. RL!Refilled(k) \in {Burst, come} /\ RL!Refilled(k) <= Burst /\ RL!Refilled(k) <= come
      BY <2>4, <2>7, Zenon
  <2> QED
      BY <1>2, <2>1, <2>2, <2>3, <2>5, <2>8 DEF come
<1> QED
    BY <1>1, <1>2

\* A key nobody asks with keeps what is true of it, while time passes.
LEMMA OtherKeys ==
    ASSUME LimiterInv, now' \in Nat, now <= now', NEW k \in Keys,
           buckets'[k] = buckets[k], waiting'[k] = waiting[k],
           taken'[k] = taken[k], promised'[k] = promised[k]
    PROVE  BucketInv(k)' /\ Stretch(k)'
<1>1. BucketInv(k) /\ Stretch(k) /\ now \in Nat
    BY DEF LimiterInv, LimiterTypes
<1>2. buckets[k] # None => buckets[k].last \in Nat
    BY DEF LimiterInv, LimiterTypes
<1>3. BucketInv(k)'
    BY <1>1, <1>2 DEF BucketInv, Burst
<1> QED
    BY <1>1, <1>3 DEF Stretch, Burst

\* A request that is let through: what it takes was there, and everything before it
\* moves one further from the newest.
LEMMA LetThroughKeeps ==
    ASSUME LimiterInv, NEW k \in Keys, RL!LetThrough(k)
    PROVE  LimiterTypes' /\ BucketInv(k)' /\ Stretch(k)'
<1> DEFINE r == RL!Refilled(k)
           n == Len(taken[k])
<1>c. /\ Unit \in Nat \ {0} /\ PerTick \in Nat /\ Burst \in Nat
      /\ None \notin [tokens : Nat, last : Nat]
    BY LimiterConstants
<1>t. /\ now \in Nat /\ taken[k] \in Seq(Nat) /\ n \in Nat
      /\ \A i \in 1..n : taken[k][i] \in Nat
    BY DEF LimiterInv, LimiterTypes
<1>r. r \in Nat /\ r <= Burst /\ r >= Unit
    BY WhatIsFound DEF RL!LetThrough
<1>1. /\ buckets'[k] = [tokens |-> r - Unit, last |-> now]
      /\ buckets'[k] \in [tokens : Nat, last : Nat]
      /\ taken'[k] = Append(taken[k], now)
      /\ promised'[k] = None /\ waiting'[k] = waiting[k] + 1
      /\ now' = now
    BY <1>c, <1>t, <1>r DEF RL!LetThrough, RL!Bucket, LimiterInv, LimiterTypes
<1>2. LimiterTypes'
    BY <1>c, <1>t, <1>r, <1>1 DEF RL!LetThrough, RL!Bucket, LimiterInv, LimiterTypes
<1>3. /\ Len(taken'[k]) = n + 1
      /\ \A i \in 1..n : taken'[k][i] = taken[k][i]
      /\ taken'[k][n + 1] = now
    BY <1>1, <1>t
<1> HIDE DEF n, r
<1>4. \A i \in 1..n : (n - i + 1) * Unit + r <= Burst + (now - taken[k][i]) * PerTick
  <2> SUFFICES ASSUME NEW i \in 1..n
               PROVE  (n - i + 1) * Unit + r <= Burst + (now - taken[k][i]) * PerTick
      OBVIOUS
  <2>1. buckets[k] # None
      BY <1>t DEF LimiterInv, BucketInv, n
  <2>2. buckets[k].last \in Nat /\ buckets[k].tokens \in Nat
      BY <2>1, WhatIsFound
  <2>3. r <= buckets[k].tokens + (now - buckets[k].last) * PerTick
      BY <2>1, WhatIsFound DEF r
  <2>4. (n - i + 1) * Unit + buckets[k].tokens
            <= Burst + (buckets[k].last - taken[k][i]) * PerTick
      BY <2>1 DEF LimiterInv, BucketInv, n
  <2>i. /\ buckets[k].last \in Int /\ taken[k][i] \in Int /\ now \in Int /\ PerTick \in Int
        /\ n - i + 1 \in Int
      BY <1>c, <1>t, <2>2
  <2>5. (buckets[k].last - taken[k][i]) * PerTick + (now - buckets[k].last) * PerTick
            = (now - taken[k][i]) * PerTick
      BY <2>i, Stretches
  <2>6. /\ (n - i + 1) * Unit \in Int
        /\ (buckets[k].last - taken[k][i]) * PerTick \in Int
        /\ (now - buckets[k].last) * PerTick \in Int
        /\ (now - taken[k][i]) * PerTick \in Int
      BY <1>c, <2>i
  <2> QED
      BY <1>c, <1>r, <2>2, <2>3, <2>4, <2>5, <2>6
<1>5. \A i \in 1..(n + 1) :
         (n + 1 - i + 1) * Unit + (r - Unit) <= Burst + (now - taken'[k][i]) * PerTick
  <2> SUFFICES ASSUME NEW i \in 1..(n + 1)
               PROVE  (n + 1 - i + 1) * Unit + (r - Unit)
                          <= Burst + (now - taken'[k][i]) * PerTick
      OBVIOUS
  <2>1. CASE i \in 1..n
    <3>1. (n + 1 - i + 1) * Unit = (n - i + 1) * Unit + Unit /\ (n - i + 1) * Unit \in Int
        BY <1>c, <1>t, <2>1
    <3>2. (n - i + 1) * Unit + r <= Burst + (now - taken'[k][i]) * PerTick
        BY <1>3, <1>4, <2>1
    <3>3. (now - taken'[k][i]) * PerTick \in Int
        BY <1>3, <1>c, <1>t, <2>1
    <3> QED
        BY <1>c, <1>r, <3>1, <3>2, <3>3
  <2>2. CASE i = n + 1
    <3>1. (n + 1 - i + 1) * Unit = Unit /\ (now - taken'[k][i]) * PerTick = 0
        BY <1>c, <1>t, <1>3, <2>2
    <3> QED
        BY <1>c, <1>r, <3>1
  <2> QED
      BY <1>t, <2>1, <2>2
<1>6. BucketInv(k)'
  <2>1. buckets'[k] # None
      BY <1>c, <1>1
  <2>2. r - Unit <= Burst
      BY <1>c, <1>r
  <2> QED
      BY <1>t, <1>1, <1>3, <1>5, <2>1, <2>2 DEF BucketInv, Burst
<1>7. Stretch(k)'
  <2> SUFFICES ASSUME NEW i \in 1..(n + 1), NEW j \in 1..(n + 1), i <= j
               PROVE  (j - i + 1) * Unit
                          <= Burst + (taken'[k][j] - taken'[k][i]) * PerTick
      BY <1>3 DEF Stretch, Burst
  <2>0. taken'[k][i] \in Nat
    <3>1. CASE i \in 1..n
        BY <3>1, <1>3, <1>t
    <3>2. CASE i = n + 1
        BY <3>2, <1>3, <1>t
    <3> QED
        BY <1>t, <3>1, <3>2
  <2>1. CASE j \in 1..n
    <3>1. i \in 1..n
        BY <1>t, <2>1
    <3>2. (j - i + 1) * Unit <= Burst + (taken[k][j] - taken[k][i]) * PerTick
        BY <2>1, <3>1 DEF LimiterInv, Stretch, n
    <3>3. taken'[k][j] = taken[k][j] /\ taken'[k][i] = taken[k][i]
        BY <1>3, <2>1, <3>1
    <3> QED
        BY <3>2, <3>3
  <2>2. CASE j = n + 1
    <3> DEFINE owed == (n + 1 - i + 1) * Unit
               come == (now - taken'[k][i]) * PerTick
    <3>1. owed + (r - Unit) <= Burst + come
        BY <1>5
    <3>2. owed \in Int /\ come \in Int
        BY <1>c, <1>t, <2>0
    <3>3. owed <= Burst + come
      <4> HIDE DEF owed, come
      <4> QED
          BY <1>c, <1>r, <3>1, <3>2
    <3>4. taken'[k][j] = now
        BY <1>3, <2>2
    <3>5. j - i + 1 = n + 1 - i + 1
        BY <1>t, <2>2
    <3>6. (j - i + 1) * Unit = owed
        BY <3>5
    <3> HIDE DEF owed
    <3> QED
        BY <3>3, <3>4, <3>6
  <2> QED
      BY <1>t, <2>1, <2>2
<1> QED
    BY <1>2, <1>6, <1>7

\* A request that is refused: the bucket had less than a token, so that its cap did not
\* matter, and the seconds told are rounded up.
LEMMA RefuseKeeps ==
    ASSUME LimiterInv, NEW k \in Keys, RL!Refuse(k)
    PROVE  LimiterTypes' /\ BucketInv(k)' /\ Stretch(k)'
<1> DEFINE r == RL!Refilled(k)
           b == buckets[k]
           wait == RL!RetryAfter(r) * PerSecond
           come == (now - b.last) * PerTick
<1>c. /\ Unit \in Nat \ {0} /\ PerTick \in Nat \ {0} /\ PerSecond \in Nat \ {0}
      /\ PerTick * PerSecond \in Nat \ {0}
      /\ Burst \in Nat /\ Burst >= Unit
      /\ None \notin Nat /\ None \notin [tokens : Nat, last : Nat]
    BY LimiterConstants
<1>r. r \in Nat /\ r <= Burst /\ r < Unit
    BY WhatIsFound DEF RL!Refuse
<1>b. /\ b # None /\ b \in [tokens : Nat, last : Nat] /\ b.last <= now /\ now \in Nat
      /\ r = b.tokens + come /\ come \in Nat
  <2>1. b # None
      BY <1>c, <1>r DEF RL!Refilled, Burst
  <2>2. b \in [tokens : Nat, last : Nat] /\ come \in Nat
      BY <2>1, WhatIsFound
  <2>3. r = Burst \/ r = b.tokens + come
      BY <2>1, WhatIsFound
  <2>4. b.last <= now /\ now \in Nat
      BY <2>1 DEF LimiterInv, LimiterTypes, BucketInv
  <2> HIDE DEF r, come, b
  <2> QED
      BY <1>c, <1>r, <2>1, <2>2, <2>3, <2>4
<1>w. wait \in Nat /\ r + wait * PerTick >= Unit
  <2> DEFINE d == PerTick * PerSecond
             q == (Unit - r) \div d
  <2>1. Unit - r \in Nat /\ d \in Nat \ {0}
      BY <1>c, <1>r
  <2>2. q \in Nat /\ (q + 1) * d > Unit - r
      BY <2>1, RoundedUp
  <2>3. RL!RetryAfter(r) = RL!Max({1, q + 1})
      BY DEF RL!RetryAfter
  <2>4. q + 1 \in Int /\ 1 \in Int
      BY <2>2
  <2> HIDE DEF q, r
  <2>5. RL!RetryAfter(r) \in {1, q + 1} /\ RL!RetryAfter(r) >= q + 1
      BY <2>3, <2>4, MaxOfTwo
  <2>6. RL!RetryAfter(r) \in Nat
      BY <2>2, <2>5
  <2> DEFINE a == RL!RetryAfter(r)
  <2> HIDE DEF a
  <2>7. a \in Nat /\ a >= q + 1 /\ wait = a * PerSecond
      BY <2>5, <2>6 DEF a
  <2> HIDE DEF wait
  <2>8. wait \in Nat /\ wait * PerTick = a * d
      BY <1>c, <2>7
  <2>9. a * d >= (q + 1) * d
      BY <2>1, <2>2, <2>7, Grows
  <2>10. a * d \in Int /\ (q + 1) * d \in Int
      BY <2>1, <2>2, <2>7
  <2> HIDE DEF d
  <2> QED
      BY <1>c, <1>r, <2>1, <2>2, <2>8, <2>9, <2>10 DEF r
<1> HIDE DEF r, wait
<1>1. /\ buckets'[k] = [tokens |-> r, last |-> now]
      /\ buckets'[k] \in [tokens : Nat, last : Nat]
      /\ taken'[k] = taken[k] /\ waiting'[k] = waiting[k] /\ now' = now
      /\ promised'[k] = RL!Sooner(promised[k], now + wait)
    BY <1>r, <1>b DEF RL!Refuse, RL!Bucket, LimiterInv, LimiterTypes, r, wait
<1>2. RL!Sooner(promised[k], now + wait) \in Nat
      /\ \/ RL!Sooner(promised[k], now + wait) = now + wait
         \/ /\ promised[k] # None
            /\ RL!Sooner(promised[k], now + wait) = promised[k]
  <2>1. now + wait \in Int
      BY <1>b, <1>w
  <2>2. CASE promised[k] = None
      BY <1>b, <1>w, <2>2 DEF RL!Sooner
  <2>3. CASE promised[k] # None
    <3>1. promised[k] \in Nat
        BY <2>3 DEF LimiterInv, LimiterTypes
    <3>2. promised[k] \in Int
        BY <3>1
    <3>3. RL!Min({promised[k], now + wait}) \in {promised[k], now + wait}
        BY <2>1, <3>2, MinOfTwo, Zenon
    <3> QED
        BY <1>b, <1>w, <2>3, <3>1, <3>3 DEF RL!Sooner
  <2> QED
      BY <2>2, <2>3
<1>3. LimiterTypes'
    BY <1>r, <1>b, <1>2 DEF RL!Refuse, RL!Bucket, LimiterInv, LimiterTypes, r, wait
<1>4. Stretch(k)'
    BY <1>1 DEF LimiterInv, Stretch, Burst
<1>5. r + (promised'[k] - now) * PerTick >= Unit
  <2>1. CASE promised'[k] = now + wait
    <3>1. promised'[k] - now = wait
        BY <1>b, <1>w, <2>1
    <3> QED
        BY <1>w, <3>1
  <2>2. CASE promised[k] # None /\ promised'[k] = promised[k]
    <3> DEFINE later == (promised[k] - now) * PerTick
               whole == (promised[k] - b.last) * PerTick
    <3>1. promised[k] \in Nat /\ b.tokens + whole >= Unit
        BY <1>b, <2>2 DEF LimiterInv, LimiterTypes, BucketInv
    <3>2. /\ b.last \in Int /\ now \in Int /\ promised[k] \in Int /\ PerTick \in Int
          /\ b.tokens \in Int
        BY <1>c, <1>b, <3>1
    <3>3. come + later = whole /\ later \in Int /\ whole \in Int /\ come \in Int
        BY <3>2, Stretches
    <3> HIDE DEF later, whole, come
    <3>4. r + later >= Unit
        BY <1>b, <1>c, <3>1, <3>2, <3>3
    <3> QED
        BY <2>2, <3>4 DEF later
  <2> QED
      BY <1>1, <1>2, <2>1, <2>2
<1>6. BucketInv(k)'
  <2> DEFINE n == Len(taken[k])
  <2>1. /\ taken[k] \in Seq(Nat) /\ n \in Nat /\ \A i \in 1..n : taken[k][i] \in Nat
      BY DEF LimiterInv, LimiterTypes
  <2> HIDE DEF n
  <2>2. ASSUME NEW i \in 1..n
        PROVE  (n - i + 1) * Unit + r <= Burst + (now - taken[k][i]) * PerTick
    <3> DEFINE sold  == (n - i + 1) * Unit
               until == (b.last - taken[k][i]) * PerTick
               whole == (now - taken[k][i]) * PerTick
    <3>1. sold + b.tokens <= Burst + until
        BY <1>b DEF LimiterInv, BucketInv, n
    <3>a. taken[k][i] \in Int /\ n - i + 1 \in Int
        BY <2>1
    <3>b. b.last \in Int /\ now \in Int /\ PerTick \in Int /\ b.tokens \in Int
        BY <1>c, <1>b
    <3>2. /\ b.last \in Int /\ now \in Int /\ taken[k][i] \in Int /\ PerTick \in Int
          /\ b.tokens \in Int /\ n - i + 1 \in Int
        BY <3>a, <3>b
    <3>3. until + come = whole /\ until \in Int /\ whole \in Int /\ come \in Int
        BY <3>2, Stretches
    <3>4. sold \in Int
        BY <1>c, <3>2
    <3> HIDE DEF sold, until, whole, come
    <3>5. sold + r <= Burst + whole
        BY <1>b, <1>c, <3>1, <3>2, <3>3, <3>4
    <3> QED
        BY <3>5 DEF sold, whole
  <2>3. buckets'[k] # None
      BY <1>c, <1>1
  <2> QED
      BY <1>r, <1>b, <1>1, <1>5, <2>2, <2>3 DEF BucketInv, Burst, n
<1> QED
    BY <1>3, <1>4, <1>6

\* A response that names a remaining count speaks of tokens that are in the bucket.
LEMMA RespondKeeps ==
    ASSUME LimiterInv, NEW k \in Keys, RL!Respond(k)
    PROVE  LimiterTypes' /\ BucketInv(k)' /\ Stretch(k)'
<1> DEFINE b == buckets[k]
<1>c. /\ Unit \in Nat \ {0} /\ PerTick \in Nat \ {0} /\ None \notin Nat
    BY LimiterConstants
<1>b. /\ b # None /\ b \in [tokens : Nat, last : Nat] /\ b.last <= now /\ now \in Nat
      /\ waiting[k] \in Nat /\ waiting[k] > 0
    BY DEF RL!Respond, LimiterInv, LimiterTypes, BucketInv
<1>1. /\ buckets' = buckets /\ taken' = taken /\ now' = now
      /\ promised'[k] = IF RL!Remaining(k) > 0 THEN RL!Sooner(promised[k], now) ELSE promised[k]
    BY DEF RL!Respond, LimiterInv, LimiterTypes
<1>2. /\ RL!Sooner(promised[k], now) \in Nat
      /\ \/ RL!Sooner(promised[k], now) = now
         \/ promised[k] # None /\ RL!Sooner(promised[k], now) = promised[k]
  <2>1. CASE promised[k] = None
      BY <1>b, <2>1 DEF RL!Sooner
  <2>2. CASE promised[k] # None
    <3>1. promised[k] \in Nat
        BY <2>2 DEF LimiterInv, LimiterTypes
    <3>2. promised[k] \in Int /\ now \in Int
        BY <1>b, <3>1
    <3>3. RL!Min({promised[k], now}) \in {promised[k], now}
        BY <3>2, MinOfTwo, Zenon
    <3> QED
        BY <1>b, <2>2, <3>1, <3>3 DEF RL!Sooner
  <2> QED
      BY <2>1, <2>2
<1>3. LimiterTypes'
    BY <1>b, <1>2 DEF RL!Respond, LimiterInv, LimiterTypes
<1>4. Stretch(k)'
    BY <1>1 DEF LimiterInv, Stretch, Burst
<1>5. RL!Remaining(k) > 0 => b.tokens >= Unit
  <2>1. b.tokens \in Nat /\ Unit \in Nat \ {0}
      BY <1>b, <1>c
  <2>2. b.tokens < Unit => b.tokens \div Unit = 0
      BY <2>1
  <2> QED
      BY <2>1, <2>2 DEF RL!Remaining
<1>6. promised'[k] # None => b.tokens + (promised'[k] - b.last) * PerTick >= Unit
  <2>1. CASE promised'[k] = promised[k]
      BY <1>b, <2>1 DEF LimiterInv, BucketInv
  <2>2. CASE RL!Remaining(k) > 0 /\ promised'[k] = now
    <3>1. (now - b.last) * PerTick \in Nat
        BY <1>b, <1>c
    <3> QED
        BY <1>b, <1>c, <1>5, <2>2, <3>1
  <2> QED
      BY <1>1, <1>2, <2>1, <2>2
<1>7. BucketInv(k)'
    BY <1>b, <1>1, <1>6 DEF LimiterInv, BucketInv, Burst
<1> QED
    BY <1>3, <1>4, <1>7

LEMMA RaiseKeeps ==
    ASSUME LimiterInv, NEW k \in Keys, RL!Raise(k)
    PROVE  LimiterTypes' /\ BucketInv(k)' /\ Stretch(k)'
<1>1. LimiterTypes'
    BY DEF RL!Raise, LimiterInv, LimiterTypes
<1>2. /\ buckets' = buckets /\ taken' = taken /\ now' = now /\ promised' = promised
      /\ buckets[k] # None
    BY DEF RL!Raise, LimiterInv, LimiterTypes, BucketInv
<1> QED
    BY <1>1, <1>2 DEF LimiterInv, BucketInv, Stretch, Burst

-----------------------------------------------------------------------------

LEMMA LimiterInit == RL!Init => LimiterInv
<1> SUFFICES ASSUME RL!Init PROVE LimiterInv
    OBVIOUS
<1>1. LimiterTypes
    BY DEF RL!Init, LimiterTypes
<1>2. \A k \in Keys : BucketInv(k) /\ Stretch(k)
    BY DEF RL!Init, BucketInv, Stretch
<1> QED
    BY <1>1, <1>2 DEF LimiterInv

LEMMA LimiterStep == LimiterInv /\ [RL!Next]_RL!vars => LimiterInv'
<1> SUFFICES ASSUME LimiterInv, [RL!Next]_RL!vars PROVE LimiterInv'
    OBVIOUS
<1>n. now \in Nat
    BY DEF LimiterInv, LimiterTypes
<1>1. CASE RL!Tick
  <2>1. LimiterTypes' /\ now' \in Nat /\ now <= now'
      BY <1>1, <1>n DEF RL!Tick, LimiterInv, LimiterTypes
  <2>2. \A k \in Keys : BucketInv(k)' /\ Stretch(k)'
      BY <1>1, <2>1, OtherKeys DEF RL!Tick
  <2> QED
      BY <2>1, <2>2 DEF LimiterInv
<1>2. CASE \E k \in Keys : RL!LetThrough(k) \/ RL!Refuse(k) \/ RL!Respond(k) \/ RL!Raise(k)
  <2> PICK k \in Keys : RL!LetThrough(k) \/ RL!Refuse(k) \/ RL!Respond(k) \/ RL!Raise(k)
      BY <1>2
  <2>1. LimiterTypes' /\ BucketInv(k)' /\ Stretch(k)'
      BY LetThroughKeeps, RefuseKeeps, RespondKeeps, RaiseKeeps
  <2>2. now' = now
      BY DEF RL!LetThrough, RL!Refuse, RL!Respond, RL!Raise
  <2>3. ASSUME NEW q \in Keys \ {k}
        PROVE  BucketInv(q)' /\ Stretch(q)'
    <3>1. /\ buckets'[q] = buckets[q] /\ waiting'[q] = waiting[q]
          /\ taken'[q] = taken[q] /\ promised'[q] = promised[q]
        BY DEF RL!LetThrough, RL!Refuse, RL!Respond, RL!Raise, RL!Bucket, LimiterInv, LimiterTypes
    <3> QED
        BY <1>n, <2>2, <3>1, OtherKeys
  <2> QED
      BY <2>1, <2>3 DEF LimiterInv
<1>3. CASE UNCHANGED RL!vars
    BY <1>3 DEF RL!vars, LimiterInv, LimiterTypes, BucketInv, Stretch, Burst
<1> QED
    BY <1>1, <1>2, <1>3 DEF RL!Next

\* Every variable keeps its type; in particular a bucket never holds less than nothing.
\* (RateLimitMiddleware)
THEOREM LimiterTypeCorrect == RL!Spec => []LimiterTypes
<1>1. LimiterInv => LimiterTypes
    BY DEF LimiterInv
<1> QED
    BY <1>1, LimiterInit, LimiterStep, PTL DEF RL!Spec

LEMMA KeepsItsWord ==
    ASSUME LimiterInv
    PROVE  LimitKeepsItsWord
<1>c. /\ Unit \in Nat \ {0} /\ PerTick \in Nat \ {0}
      /\ Burst \in Nat /\ Burst >= Unit /\ None \notin Nat
    BY LimiterConstants
<1>1. ASSUME NEW k \in Keys, promised[k] # None, now >= promised[k]
      PROVE  RL!Refilled(k) >= Unit
  <2> DEFINE b == buckets[k]
             then == (promised[k] - b.last) * PerTick
             come == (now - b.last) * PerTick
  <2>1. /\ b # None /\ promised[k] \in Nat /\ now \in Nat
        /\ b.tokens + then >= Unit
      BY <1>1 DEF LimiterInv, LimiterTypes, BucketInv
  <2>2. /\ b \in [tokens : Nat, last : Nat] /\ come \in Nat
        /\ RL!Refilled(k) \in Nat
        /\ RL!Refilled(k) = Burst \/ RL!Refilled(k) = b.tokens + come
      BY <2>1, WhatIsFound
  <2>3. then <= come /\ then \in Int
    <3>1. /\ promised[k] - b.last \in Int /\ now - b.last \in Int
          /\ promised[k] - b.last <= now - b.last /\ PerTick \in Nat
        BY <1>c, <1>1, <2>1, <2>2
    <3> QED
        BY <3>1, Grows
  <2> HIDE DEF then, come
  <2> QED
      BY <1>c, <2>1, <2>2, <2>3
<1>2. \A k \in Keys : Stretch(k)
    BY DEF LimiterInv
<1> QED
    BY <1>1, <1>2 DEF LimitKeepsItsWord, RL!LimitKeepsItsWord, Stretch, Burst

\* For any burst and rate: no stretch of time lets more requests of a key pass than the
\* burst and what is refilled meanwhile, and a client that waits as it was told is let
\* through unless another took the token.  (RateLimitMiddleware.dispatch)
THEOREM TheLimitHolds == RL!Spec => []LimitKeepsItsWord
<1>1. LimiterInv => LimitKeepsItsWord
    BY KeepsItsWord
<1> QED
    BY <1>1, LimiterInit, LimiterStep, PTL DEF RL!Spec

-----------------------------------------------------------------------------
(* Numbers.                                                                *)

LEMMA NatIsWellFounded ==
    \E R : IsWellFoundedOn(R, Nat) /\ \A x, y \in Nat : x < y => <<x, y>> \in R
<1>1. \A x, y \in Nat : x < y => <<x, y>> \in OpToRel(<, Nat)
    BY DEF OpToRel
<1> QED
    BY <1>1, NatLessThanWellFounded, Zenon

LEMMA MinimalElement ==
    ASSUME NEW S, S \subseteq Nat, S # {}, NEW R, IsWellFoundedOn(R, Nat)
    PROVE  \E x \in S : \A y \in S : ~(<<y, x>> \in R)
BY WFMin

\* A set of numbers has a least one.
LEMMA LeastNumber ==
    ASSUME NEW S \in SUBSET Nat, S # {}
    PROVE  \E m \in S : \A n \in S : m <= n
<1>0. PICK R : IsWellFoundedOn(R, Nat) /\ \A x, y \in Nat : x < y => <<x, y>> \in R
    BY NatIsWellFounded, Zenon
<1>1. PICK m \in S : \A y \in S : ~(<<y, m>> \in R)
    BY <1>0, MinimalElement
<1>2. \A y \in S : ~(y < m)
    BY <1>0, <1>1, Zenon
<1> QED
    BY <1>2, SMT

-----------------------------------------------------------------------------
(* Historical quotes.                                                      *)

\* A page is page n of the list as it was at a time, namely with that total: bars are
\* only added in front.
IsPage(p, n, rows, upTo) ==
    /\ p.total \in 1..upTo
    /\ p.items = {b \in 1..p.total : /\ (n - 1) * rows <= p.total - b
                                      /\ p.total - b < (n - 1) * rows + rows}

\* What an agent has read, has kept and is about to store are pages of their numbers.
PagesAreTrue(g, rows, upTo) ==
    /\ \A i \in 1..Len(g.read) : IsPage(g.read[i], i, rows, upTo)
    /\ \A i \in 1..Len(g.copies) : IsPage(g.copies[i], i, rows, upTo)
    /\ g.pc = "store" => IsPage(g.fresh, Len(g.read) + 1, rows, upTo)

\* A walk goes on while rows are missing, as the last page counts them.
CountsRows(g, size) ==
    /\ (g.pc # "idle" /\ g.read # <<>>) => Len(g.read) * size < g.read[Len(g.read)].total
    /\ (g.pc = "idle" /\ g.read # <<>> /\ g.fault = "none") =>
         Len(g.read) * size >= g.read[Len(g.read)].total

\* A walk that was refused has the answer of its fault.
AnswersItsFault(g) ==
    /\ g.pc # "idle" => g.fault = "none"
    /\ g.fault # "none" =>
         g.answer = HQ!HistoricalAnswer(IF g.fault = "cache" THEN "RedisError"
                                        ELSE HQ!ErrorOf[g.fault])

ReaderInv(g, rows, upTo, size) ==
    /\ g \in HQ!Reader
    /\ PagesAreTrue(g, rows, upTo)
    /\ CountsRows(g, size)
    /\ AnswersItsFault(g)

HistoricalInv ==
    /\ HQ!TypeOK
    /\ \A n \in HQ!Pages : pages[n] # HQ!NoPage => IsPage(pages[n], n, HQ!RowsPerPage, HQ!Total)
    /\ \A a \in Agents : ReaderInv(agent[a], HQ!RowsPerPage, HQ!Total, query.size)

\* What a sequence of pages is after one more.
LEMMA OneMore ==
    ASSUME NEW S, NEW s \in Seq(S), NEW e \in S
    PROVE  /\ Append(s, e) \in Seq(S)
           /\ Append(s, e) # <<>>
           /\ Len(Append(s, e)) = Len(s) + 1
           /\ Len(s) \in Nat
           /\ Append(s, e)[Len(s) + 1] = e
           /\ \A i \in 1..Len(s) : Append(s, e)[i] = s[i]
    OBVIOUS

LEMMA SizeFits ==
    ASSUME NEW n \in Nat, NEW s \in Nat \ {0}, NEW b \in Nat, n * s < b
    PROVE  n + 1 <= b
<1>1. n * s >= n
    BY SMTT(30)
<1> QED
    BY <1>1

\* A page stays a page of its number when bars are published.
LEMMA StaysPage ==
    ASSUME NEW p, NEW n, NEW rows, NEW m \in Nat, NEW k \in Nat, m <= k, IsPage(p, n, rows, m)
    PROVE  IsPage(p, n, rows, k)
    BY DEF IsPage

LEMMA HistoricalConstants ==
    /\ Cap \in Nat \ {0} /\ MaxBars \in Nat \ {0} /\ MaxWalks \in Nat \ {0}
    /\ \A s \in Sizes : s \in Nat \ {0}
    BY Historical DEF HQ!HistoricalAssumption

\* The totals there are, and a page's own.
LEMMA TotalsAndRows ==
    ASSUME HQ!TypeOK
    PROVE  /\ query.size \in Nat \ {0} /\ HQ!RowsPerPage \in Nat \ {0}
           /\ HQ!Total \in 1..MaxBars
           /\ \A n \in Nat \ {0} : IsPage(HQ!PageOf(n), n, HQ!RowsPerPage, HQ!Total)
           /\ \A n \in Nat \ {0} : HQ!PageOf(n) \in HQ!PageRecord
           /\ HQ!NoPage \in HQ!PageRecord
<1>1. /\ query.size \in Nat \ {0} /\ HQ!RowsPerPage \in Nat \ {0}
      /\ HQ!Total \in 1..MaxBars
    BY HistoricalConstants DEF HQ!TypeOK, HQ!RowsPerPage, HQ!Total
<1>2. ASSUME NEW n \in Nat \ {0}
      PROVE  IsPage(HQ!PageOf(n), n, HQ!RowsPerPage, HQ!Total) /\ HQ!PageOf(n) \in HQ!PageRecord
  <2>1. /\ HQ!PageOf(n).total = HQ!Total /\ HQ!PageOf(n).items = HQ!Window(n)
        /\ HQ!PageOf(n) = [items |-> HQ!Window(n), total |-> HQ!Total]
      BY DEF HQ!PageOf
  <2>2. HQ!Window(n) \subseteq 1..MaxBars
      BY <1>1, HistoricalConstants DEF HQ!Window
  <2>3. HQ!PageOf(n) \in HQ!PageRecord
      BY <1>1, <2>1, <2>2, HistoricalConstants DEF HQ!PageRecord
  <2>4. HQ!Total \in 1..HQ!Total
      BY <1>1, HistoricalConstants
  <2> QED
      BY <2>1, <2>3, <2>4 DEF IsPage, HQ!Window, HQ!Offset
<1>3. HQ!NoPage \in HQ!PageRecord
    BY HistoricalConstants DEF HQ!NoPage, HQ!PageRecord
<1> QED
    BY <1>1, <1>2, <1>3

\* The next page has a place in the cache: fewer pages than bars were read.
LEMMA NextPage ==
    ASSUME NEW g \in HQ!Reader, NEW size \in Nat \ {0}, CountsRows(g, size), g.pc # "idle"
    PROVE  Len(g.read) + 1 \in HQ!Pages
<1>1. g.read \in Seq(HQ!PageRecord) /\ Len(g.read) \in Nat
    BY DEF HQ!Reader
<1>2. CASE g.read = <<>>
    BY <1>2, HistoricalConstants DEF HQ!Pages
<1>3. CASE g.read # <<>>
  <2>1. g.read[Len(g.read)] \in HQ!PageRecord
      BY <1>1, <1>3
  <2>2. g.read[Len(g.read)].total \in 0..MaxBars
      BY <2>1 DEF HQ!PageRecord
  <2>3. Len(g.read) * size < g.read[Len(g.read)].total
      BY <1>3 DEF CountsRows
  <2>4. Len(g.read) + 1 <= g.read[Len(g.read)].total
      BY <1>1, <2>2, <2>3, HistoricalConstants, SizeFits
  <2> QED
      BY <1>1, <2>2, <2>4, HistoricalConstants DEF HQ!Pages
<1> QED
    BY <1>2, <1>3

\* What an agent holds stays true when bars are published.
LEMMA ReaderStays ==
    ASSUME NEW g, NEW rows, NEW m \in Nat, NEW k \in Nat, m <= k, NEW size,
           ReaderInv(g, rows, m, size)
    PROVE  ReaderInv(g, rows, k, size)
    BY StaysPage DEF ReaderInv, PagesAreTrue

\* A page is received: it is true of its number, whether it is new or the agent's copy.
LEMMA Received ==
    ASSUME HistoricalInv, NEW a \in Agents, agent[a].pc # "idle",
           NEW p \in HQ!PageRecord, IsPage(p, HQ!Page(a), HQ!RowsPerPage, HQ!Total),
           HQ!Receive(a, p)
    PROVE  /\ \A d \in Agents : ReaderInv(agent'[d], HQ!RowsPerPage, HQ!Total, query.size)
           /\ agent' \in [Agents -> HQ!Reader]
<1> DEFINE g == agent[a]
           got == HQ!Served(a, p)
           read == Append(g.read, got)
           more == Len(read) * query.size < got.total
           h == [g EXCEPT !.read = read, !.fresh = HQ!NoPage,
                          !.pc = IF more THEN "lookup" ELSE "idle"]
<1>1. /\ g \in HQ!Reader /\ ReaderInv(g, HQ!RowsPerPage, HQ!Total, query.size)
      /\ agent \in [Agents -> HQ!Reader]
    BY DEF HistoricalInv, HQ!TypeOK
<1>2. /\ query.size \in Nat \ {0} /\ HQ!RowsPerPage \in Nat \ {0} /\ HQ!NoPage \in HQ!PageRecord
      /\ HQ!Total \in 1..MaxBars
    BY TotalsAndRows DEF HistoricalInv
<1>3. got \in HQ!PageRecord /\ IsPage(got, Len(g.read) + 1, HQ!RowsPerPage, HQ!Total)
  <2>1. g.copies \in Seq(HQ!PageRecord) /\ DOMAIN g.copies = 1..Len(g.copies)
      BY <1>1 DEF HQ!Reader
  <2>2. \A i \in DOMAIN g.copies :
           g.copies[i] \in HQ!PageRecord /\ IsPage(g.copies[i], i, HQ!RowsPerPage, HQ!Total)
      BY <1>1, <2>1 DEF ReaderInv, PagesAreTrue
  <2>3. got = p \/ (got = HQ!Copy(a) /\ HQ!Copy(a) # HQ!NoPage)
      BY DEF HQ!Served
  <2> QED
      BY <2>2, <2>3 DEF HQ!Copy, HQ!Page
<1>4. /\ read \in Seq(HQ!PageRecord) /\ read # <<>> /\ Len(read) = Len(g.read) + 1
      /\ Len(g.read) \in Nat /\ read[Len(read)] = got
      /\ \A i \in 1..Len(g.read) : read[i] = g.read[i]
  <2>1. g.read \in Seq(HQ!PageRecord)
      BY <1>1 DEF HQ!Reader
  <2> QED
      BY <1>3, <2>1, OneMore
<1>5. agent' = [agent EXCEPT ![a] = h]
    BY DEF HQ!Receive, HQ!Set
<1>6. /\ h.read = read /\ h.copies = g.copies /\ h.pc \in {"lookup", "idle"}
      /\ h.pc = (IF more THEN "lookup" ELSE "idle") /\ h.fault = g.fault /\ h.answer = g.answer
      /\ h \in HQ!Reader
    BY <1>1, <1>2, <1>4 DEF HQ!Reader
<1> HIDE DEF h
<1>7. PagesAreTrue(h, HQ!RowsPerPage, HQ!Total)
  <2>1. ASSUME NEW i \in 1..Len(h.read)
        PROVE  IsPage(h.read[i], i, HQ!RowsPerPage, HQ!Total)
    <3>1. CASE i = Len(g.read) + 1
        BY <1>3, <1>4, <1>6, <3>1
    <3>2. CASE i # Len(g.read) + 1
        BY <1>1, <1>4, <1>6, <3>2 DEF ReaderInv, PagesAreTrue
    <3> QED
        BY <3>1, <3>2
  <2> QED
      BY <1>1, <1>6, <2>1 DEF ReaderInv, PagesAreTrue
<1>8. CountsRows(h, query.size)
  <2>1. got.total \in Nat /\ Len(read) * query.size \in Nat
      BY <1>2, <1>3, <1>4, HistoricalConstants DEF HQ!PageRecord
  <2> QED
      BY <1>4, <1>6, <2>1 DEF CountsRows
<1>9. AnswersItsFault(h)
    BY <1>1, <1>6 DEF ReaderInv, AnswersItsFault
<1> QED
    BY <1>1, <1>5, <1>6, <1>7, <1>8, <1>9 DEF HistoricalInv, ReaderInv

LEMMA IdleReader ==
    /\ HQ!NoPage \in HQ!PageRecord
    /\ HQ!Idle \in HQ!Reader
    /\ HQ!Idle.read = <<>> /\ HQ!Idle.pc = "idle" /\ HQ!Idle.fault = "none"
<1>1. HQ!NoPage \in HQ!PageRecord
    BY HistoricalConstants DEF HQ!NoPage, HQ!PageRecord
<1>2. <<>> \in Seq(HQ!PageRecord)
    OBVIOUS
<1> QED
    BY <1>1, <1>2 DEF HQ!Idle, HQ!Reader

LEMMA HistoricalStart == HQ!Init => HistoricalInv
<1> SUFFICES ASSUME HQ!Init
             PROVE  HistoricalInv
    OBVIOUS
<1>1. HQ!NoPage \in HQ!PageRecord
    BY IdleReader
<1>2. HQ!Idle \in HQ!Reader
    BY IdleReader
<1>3. HQ!TypeOK
    BY <1>1, <1>2, HistoricalConstants DEF HQ!Init, HQ!TypeOK
<1>4. \A rows, upTo, size : ReaderInv(HQ!Idle, rows, upTo, size)
    BY <1>2 DEF HQ!Idle, ReaderInv, PagesAreTrue, CountsRows, AnswersItsFault
<1> QED
    BY <1>3, <1>4 DEF HQ!Init, HistoricalInv

\* A step of one agent leaves the others what they hold.
LEMMA OneReader ==
    ASSUME HistoricalInv, NEW a \in Agents, NEW h, HQ!Set(a, h),
           ReaderInv(h, HQ!RowsPerPage, HQ!Total, query.size)
    PROVE  /\ \A d \in Agents : ReaderInv(agent'[d], HQ!RowsPerPage, HQ!Total, query.size)
           /\ agent' \in [Agents -> HQ!Reader]
    BY DEF HistoricalInv, HQ!TypeOK, HQ!Set, ReaderInv

LEMMA HistoricalStep == HistoricalInv /\ [HQ!Next]_HQ!history => HistoricalInv'
<1> SUFFICES ASSUME HistoricalInv, [HQ!Next]_HQ!history
             PROVE  HistoricalInv'
    OBVIOUS
<1> USE DEF HQ!setting
<1>t. /\ HQ!TypeOK
      /\ query.size \in Nat \ {0} /\ HQ!RowsPerPage \in Nat \ {0} /\ HQ!NoPage \in HQ!PageRecord
      /\ HQ!Total \in 1..MaxBars
    BY TotalsAndRows DEF HistoricalInv
<1>o. ASSUME UNCHANGED <<gateway, query, published>>
      PROVE  /\ HQ!RowsPerPage' = HQ!RowsPerPage /\ HQ!Total' = HQ!Total
             /\ (query.size)' = query.size
    BY <1>o DEF HQ!RowsPerPage, HQ!Total
<1>a. ASSUME UNCHANGED <<gateway, query, published, pages>>, walks' \in 0..MaxWalks,
             agent' \in [Agents -> HQ!Reader],
             \A d \in Agents : ReaderInv(agent'[d], HQ!RowsPerPage, HQ!Total, query.size)
      PROVE  HistoricalInv'
  <2>1. HQ!TypeOK'
      BY <1>a, <1>t DEF HQ!TypeOK
  <2> QED
      BY <1>a, <1>o, <2>1 DEF HistoricalInv
<1>r. ASSUME NEW a \in Agents
      PROVE  /\ ReaderInv(agent[a], HQ!RowsPerPage, HQ!Total, query.size)
             /\ agent[a] \in HQ!Reader
             /\ agent[a].pc # "idle" => HQ!Page(a) \in HQ!Pages /\ HQ!Page(a) \in Nat \ {0}
  <2>1. ReaderInv(agent[a], HQ!RowsPerPage, HQ!Total, query.size)
      BY DEF HistoricalInv
  <2>2. agent[a].pc # "idle" => HQ!Page(a) \in HQ!Pages
      BY <1>t, <2>1, NextPage DEF ReaderInv, HQ!Page
  <2> QED
      BY <2>1, <2>2, HistoricalConstants DEF ReaderInv, HQ!Pages
<1>1. ASSUME NEW a \in Agents, HQ!Walk(a)
      PROVE  HistoricalInv'
  <2> DEFINE h == [HQ!Idle EXCEPT !.pc = "lookup", !.copies = agent[a].read]
  <2>1. h \in HQ!Reader
      BY <1>r, IdleReader DEF HQ!Reader
  <2>2. h.read = <<>> /\ h.copies = agent[a].read /\ h.pc = "lookup" /\ h.fault = "none"
      BY IdleReader DEF HQ!Reader
  <2>3. HQ!Set(a, h) /\ walks' = walks + 1 /\ walks < MaxWalks
      BY <1>1 DEF HQ!Walk
  <2> HIDE DEF h
  <2>4. ReaderInv(h, HQ!RowsPerPage, HQ!Total, query.size)
      BY <1>r, <2>1, <2>2 DEF ReaderInv, PagesAreTrue, CountsRows, AnswersItsFault
  <2>5. walks' \in 0..MaxWalks
      BY <1>t, <2>3, HistoricalConstants DEF HQ!TypeOK
  <2> QED
      BY <1>1, <1>a, <2>3, <2>4, <2>5, OneReader DEF HQ!Walk
<1>2. ASSUME NEW a \in Agents, HQ!Hit(a)
      PROVE  HistoricalInv'
  <2>1. agent[a].pc # "idle" /\ HQ!Receive(a, HQ!Cached(a)) /\ HQ!Cached(a) # HQ!NoPage
      BY <1>2 DEF HQ!Hit
  <2>2. /\ HQ!Cached(a) \in HQ!PageRecord
        /\ IsPage(HQ!Cached(a), HQ!Page(a), HQ!RowsPerPage, HQ!Total)
      BY <1>r, <1>t, <2>1 DEF HistoricalInv, HQ!TypeOK, HQ!Cached, HQ!CacheKey
  <2>3. walks' \in 0..MaxWalks
      BY <1>2, <1>t DEF HQ!Hit, HQ!TypeOK
  <2> QED
      BY <1>2, <1>a, <2>1, <2>2, <2>3, Received DEF HQ!Hit
<1>3. ASSUME NEW a \in Agents, HQ!Miss(a)
      PROVE  HistoricalInv'
  <2> DEFINE h == [agent[a] EXCEPT !.pc = "ask"]
  <2>1. h \in HQ!Reader
      BY <1>r DEF HQ!Reader
  <2>2. /\ h.read = agent[a].read /\ h.copies = agent[a].copies /\ h.pc = "ask"
        /\ h.fault = agent[a].fault /\ h.answer = agent[a].answer /\ agent[a].pc = "lookup"
        /\ HQ!Set(a, h)
      BY <1>3, <1>r DEF HQ!Reader, HQ!Miss
  <2> HIDE DEF h
  <2>3. ReaderInv(h, HQ!RowsPerPage, HQ!Total, query.size)
      BY <1>r, <2>1, <2>2 DEF ReaderInv, PagesAreTrue, CountsRows, AnswersItsFault
  <2>4. walks' \in 0..MaxWalks
      BY <1>3, <1>t DEF HQ!Miss, HQ!TypeOK
  <2> QED
      BY <1>3, <1>a, <2>2, <2>3, <2>4, OneReader DEF HQ!Miss
<1>4. ASSUME NEW a \in Agents, HQ!Ask(a)
      PROVE  HistoricalInv'
  <2> DEFINE page == HQ!PageOf(HQ!Page(a))
             h == [agent[a] EXCEPT !.pc = "store", !.fresh = page]
  <2>1. page \in HQ!PageRecord /\ IsPage(page, HQ!Page(a), HQ!RowsPerPage, HQ!Total)
      BY <1>4, <1>r, <1>t, TotalsAndRows DEF HQ!Ask
  <2>2. h \in HQ!Reader
      BY <1>r, <2>1 DEF HQ!Reader
  <2>3. /\ h.read = agent[a].read /\ h.copies = agent[a].copies /\ h.pc = "store"
        /\ h.fault = agent[a].fault /\ h.answer = agent[a].answer /\ h.fresh = page
        /\ agent[a].pc = "ask"
        /\ HQ!Set(a, h)
      BY <1>4, <1>r DEF HQ!Reader, HQ!Ask
  <2> HIDE DEF h, page
  <2>4. ReaderInv(h, HQ!RowsPerPage, HQ!Total, query.size)
      BY <1>r, <2>1, <2>2, <2>3
         DEF ReaderInv, PagesAreTrue, CountsRows, AnswersItsFault, HQ!Page
  <2>5. walks' \in 0..MaxWalks
      BY <1>4, <1>t DEF HQ!Ask, HQ!TypeOK
  <2> QED
      BY <1>4, <1>a, <2>3, <2>4, <2>5, OneReader DEF HQ!Ask
<1>5. ASSUME NEW a \in Agents, HQ!Store(a)
      PROVE  HistoricalInv'
  <2>1. /\ agent[a].pc = "store" /\ HQ!Receive(a, agent[a].fresh)
        /\ pages' = [pages EXCEPT ![HQ!Page(a)] = agent[a].fresh]
      BY <1>5 DEF HQ!Store, HQ!CacheKey
  <2>2. /\ agent[a].fresh \in HQ!PageRecord
        /\ IsPage(agent[a].fresh, HQ!Page(a), HQ!RowsPerPage, HQ!Total)
      BY <1>r, <2>1 DEF ReaderInv, PagesAreTrue, HQ!Page, HQ!Reader
  <2>3. /\ \A d \in Agents : ReaderInv(agent'[d], HQ!RowsPerPage, HQ!Total, query.size)
        /\ agent' \in [Agents -> HQ!Reader]
      BY <2>1, <2>2, Received
  <2>4. /\ pages' \in [HQ!Pages -> HQ!PageRecord]
        /\ \A n \in HQ!Pages :
             pages'[n] # HQ!NoPage => IsPage(pages'[n], n, HQ!RowsPerPage, HQ!Total)
      BY <1>r, <1>t, <2>1, <2>2 DEF HistoricalInv, HQ!TypeOK
  <2>5. UNCHANGED <<gateway, query, published, walks>>
      BY <1>5 DEF HQ!Store
  <2>6. HQ!TypeOK'
      BY <1>t, <2>3, <2>4, <2>5 DEF HQ!TypeOK
  <2> QED
      BY <1>o, <2>3, <2>4, <2>5, <2>6 DEF HistoricalInv
<1>6. ASSUME NEW a \in Agents, NEW fault \in HQ!Faults \cup {"cache"}, agent[a].pc # "idle",
             HQ!Refused(a, fault, IF fault = "cache" THEN "RedisError" ELSE HQ!ErrorOf[fault]),
             UNCHANGED <<gateway, query, published, pages, walks>>
      PROVE  HistoricalInv'
  <2> DEFINE error == IF fault = "cache" THEN "RedisError" ELSE HQ!ErrorOf[fault]
             h == [agent[a] EXCEPT !.pc = "idle", !.fresh = HQ!NoPage, !.fault = fault,
                                   !.answer = HQ!HistoricalAnswer(error)]
  <2>1. HQ!HistoricalAnswer(error) \in
          {HQ!Unhandled} \cup {HQ!HistoricalAnswers[e] : e \in DOMAIN HQ!HistoricalAnswers}
      BY DEF HQ!HistoricalAnswer, HQ!Answered
  <2>2. h \in HQ!Reader
      BY <1>r, <1>t, <2>1 DEF HQ!Reader
  <2>3. /\ h.read = agent[a].read /\ h.copies = agent[a].copies /\ h.pc = "idle"
        /\ h.fault = fault /\ h.answer = HQ!HistoricalAnswer(error)
        /\ fault # "none"
        /\ HQ!Set(a, h)
      BY <1>6, <1>r DEF HQ!Reader, HQ!Refused, HQ!Faults
  <2> HIDE DEF h
  <2>4. ReaderInv(h, HQ!RowsPerPage, HQ!Total, query.size)
      BY <1>r, <2>2, <2>3 DEF ReaderInv, PagesAreTrue, CountsRows, AnswersItsFault
  <2>5. walks' \in 0..MaxWalks
      BY <1>6, <1>t DEF HQ!TypeOK
  <2> QED
      BY <1>6, <1>a, <2>3, <2>4, <2>5, OneReader
<1>7. ASSUME NEW a \in Agents, HQ!ProviderFails(a)
      PROVE  HistoricalInv'
  <2>1. PICK fault \in HQ!Faults : HQ!Refused(a, fault, HQ!ErrorOf[fault])
      BY <1>7 DEF HQ!ProviderFails
  <2>2. fault # "cache"
      BY DEF HQ!Faults
  <2> QED
      BY <1>6, <1>7, <2>1, <2>2 DEF HQ!ProviderFails
<1>8. ASSUME NEW a \in Agents, HQ!CacheFails(a)
      PROVE  HistoricalInv'
    BY <1>6, <1>8 DEF HQ!CacheFails
<1>9. CASE HQ!Publish
  <2>1. UNCHANGED <<gateway, query, pages, agent, walks>> /\ published' = published + 1
      BY <1>9 DEF HQ!Publish
  <2>2. HQ!TypeOK'
      BY <1>9, <1>t, HistoricalConstants DEF HQ!Publish, HQ!TypeOK
  <2>3. /\ HQ!RowsPerPage' = HQ!RowsPerPage /\ (query.size)' = query.size
        /\ HQ!Total \in Nat /\ HQ!Total' \in Nat /\ HQ!Total <= HQ!Total'
      BY <1>t, <2>1 DEF HQ!RowsPerPage, HQ!Total, HQ!TypeOK
  <2>4. \A a \in Agents : ReaderInv(agent[a], HQ!RowsPerPage, HQ!Total', query.size)
      BY <1>r, <2>3, ReaderStays
  <2>5. \A n \in HQ!Pages :
           pages[n] # HQ!NoPage => IsPage(pages[n], n, HQ!RowsPerPage, HQ!Total')
      BY <2>3, StaysPage DEF HistoricalInv
  <2> QED
      BY <2>1, <2>2, <2>3, <2>4, <2>5 DEF HistoricalInv
<1>10. ASSUME NEW n \in HQ!Pages, HQ!Expire(n)
       PROVE  HistoricalInv'
  <2>1. UNCHANGED <<gateway, query, published, agent, walks>>
        /\ pages' = [pages EXCEPT ![n] = HQ!NoPage]
      BY <1>10 DEF HQ!Expire
  <2>2. HQ!TypeOK'
      BY <1>t, <2>1 DEF HQ!TypeOK
  <2>3. \A k \in HQ!Pages : pages'[k] # HQ!NoPage => IsPage(pages'[k], k, HQ!RowsPerPage, HQ!Total)
      BY <1>t, <2>1 DEF HistoricalInv, HQ!TypeOK
  <2> QED
      BY <1>o, <2>1, <2>2, <2>3 DEF HistoricalInv
<1>11. CASE UNCHANGED HQ!history
  <2>1. UNCHANGED <<gateway, query, published, pages, agent, walks>>
      BY <1>11 DEF HQ!history
  <2>2. HQ!TypeOK'
      BY <1>t, <2>1 DEF HQ!TypeOK
  <2> QED
      BY <1>o, <2>1, <2>2 DEF HistoricalInv
<1> QED
    BY <1>1, <1>2, <1>3, <1>4, <1>5, <1>7, <1>8, <1>9, <1>10, <1>11 DEF HQ!Next

\* Every variable keeps its type; in particular a page asked for has its place in the
\* cache.  (GetHistoricalQuotesUseCase)
THEOREM HistoricalTypeCorrect == HQ!Spec => []HQ!TypeOK
<1>1. HistoricalInv => HQ!TypeOK
    BY DEF HistoricalInv
<1> QED
    BY <1>1, HistoricalStart, HistoricalStep, PTL DEF HQ!Spec

LEMMA AnswersSayWhether ==
    ASSUME HistoricalInv
    PROVE  RetriesMayHelp
<1> SUFFICES ASSUME NEW a \in Agents, agent[a].fault \notin {"none", "no_object"}
             PROVE  HQ!ToMcpError(agent[a].answer).retryable <=>
                        agent[a].fault \in {"limited", "down", "cache"}
    BY DEF RetriesMayHelp, HQ!RetriesMayHelp
<1> DEFINE error == IF agent[a].fault = "cache" THEN "RedisError" ELSE HQ!ErrorOf[agent[a].fault]
<1>1. /\ agent[a].fault \in HQ!Faults \cup {"cache"}
      /\ agent[a].answer = HQ!HistoricalAnswer(error)
    BY DEF HistoricalInv, ReaderInv, AnswersItsFault, HQ!Reader
<1> HIDE DEF error
<1>2. HQ!ToMcpError(agent[a].answer).retryable <=>
        HQ!HistoricalAnswer(error).status \in HQ!RetriedStatuses
  <2>1. HQ!ToMcpError(agent[a].answer).retryable = (agent[a].answer.status \in HQ!RetriedStatuses)
      BY Zenon DEF HQ!ToMcpError
  <2>2. HQ!ToMcpError(agent[a].answer).retryable <=> agent[a].answer.status \in HQ!RetriedStatuses
      BY <2>1, Zenon
  <2>3. agent[a].answer = HQ!HistoricalAnswer(error)
      BY <1>1
  <2> QED
      BY <2>2, <2>3, Zenon
<1>3. ASSUME agent[a].fault = "cache"
      PROVE  HQ!HistoricalAnswer(error).status = 500
  <2>1. error = "RedisError"
      BY <1>3 DEF error
  <2> QED
      BY <2>1 DEF HQ!HistoricalAnswer, HQ!Answered, HQ!HistoricalAnswers, HQ!Unhandled
<1>4. ASSUME NEW fault \in HQ!Faults, agent[a].fault = fault
      PROVE  HQ!HistoricalAnswer(error).status \in {429, 500, 502, 503, 504} <=>
                 fault \in {"limited", "down"}
  <2>0. fault # "no_object"
      BY <1>4
  <2>1. error = HQ!ErrorOf[fault]
      BY <1>4 DEF error, HQ!Faults
  <2>2. CASE fault = "limited"
      BY <2>1, <2>2 DEF HQ!ErrorOf, HQ!HistoricalAnswer, HQ!Answered, HQ!HistoricalAnswers
  <2>3. CASE fault = "quota"
      BY <2>1, <2>3 DEF HQ!ErrorOf, HQ!HistoricalAnswer, HQ!Answered, HQ!HistoricalAnswers
  <2>4. CASE fault = "refused"
      BY <2>1, <2>4 DEF HQ!ErrorOf, HQ!HistoricalAnswer, HQ!Answered, HQ!HistoricalAnswers
  <2>5. CASE fault = "down"
      BY <2>1, <2>5 DEF HQ!ErrorOf, HQ!HistoricalAnswer, HQ!Answered, HQ!HistoricalAnswers
  <2>6. CASE fault = "malformed"
      BY <2>1, <2>6 DEF HQ!ErrorOf, HQ!HistoricalAnswer, HQ!Answered, HQ!HistoricalAnswers
  <2> QED
      BY <2>0, <2>2, <2>3, <2>4, <2>5, <2>6 DEF HQ!Faults
<1>5. HQ!HistoricalAnswer(error).status \in HQ!RetriedStatuses <=>
        agent[a].fault \in {"limited", "down", "cache"}
    BY <1>1, <1>3, <1>4 DEF HQ!Faults, HQ!RetriedStatuses
<1> QED
    BY <1>2, <1>5, Zenon

\* Whatever fails and whenever: an agent is told to try again exactly when another try
\* may help, but for JSON that is no object.  (_handle_httpx_response, get_historical_quotes, to_mcp_error)
THEOREM RetriesAreWorthIt == HQ!Spec => []RetriesMayHelp
<1>1. HistoricalInv => RetriesMayHelp
    BY AnswersSayWhether
<1> QED
    BY <1>1, HistoricalStart, HistoricalStep, PTL DEF HQ!Spec

\* A bar that was there at the first page is on the first page that reaches back to it:
\* the pages before do not, and later totals are not smaller.
LEMMA EveryBarIsRead ==
    ASSUME HistoricalInv
    PROVE  PagesReadEverything
<1> SUFFICES ASSUME NEW a \in Agents, HQ!Finished(a), ~HQ!OlderPage(a),
                    query.daily \/ query.size <= Cap,
                    NEW b \in 1..agent[a].read[1].total
             PROVE  b \in HQ!ReadBars(a)
    BY DEF PagesReadEverything, HQ!PagesReadEverything
<1> DEFINE r == agent[a].read
           s == query.size
           reach == {i \in 1..Len(r) : r[i].total - b < i * s}
<1>1. /\ r \in Seq(HQ!PageRecord) /\ r # <<>> /\ Len(r) \in Nat /\ Len(r) >= 1
      /\ s \in Nat \ {0} /\ HQ!RowsPerPage = s
      /\ b \in Nat /\ b >= 1
  <2>1. agent[a] \in HQ!Reader
      BY DEF HistoricalInv, ReaderInv
  <2>2. r \in Seq(HQ!PageRecord) /\ r # <<>>
      BY <2>1 DEF HQ!Reader, HQ!Finished
  <2>3. s \in Nat \ {0} /\ HQ!RowsPerPage = s
      BY TotalsAndRows DEF HistoricalInv, HQ!RowsPerPage
  <2> HIDE DEF r
  <2>4. Len(r) \in Nat /\ Len(r) >= 1 /\ r[1] \in HQ!PageRecord
      BY <2>2
  <2> QED
      BY <2>2, <2>3, <2>4, HistoricalConstants DEF HQ!PageRecord, r
<1>2. \A i \in 1..Len(r) : r[i].total \in Nat /\ IsPage(r[i], i, s, HQ!Total)
  <2>1. \A i \in 1..Len(r) : IsPage(r[i], i, s, HQ!Total)
      BY <1>1 DEF HistoricalInv, ReaderInv, PagesAreTrue
  <2>2. \A i \in 1..Len(r) : r[i] \in HQ!PageRecord
      BY <1>1
  <2> QED
      BY <2>1, <2>2, HistoricalConstants DEF HQ!PageRecord
<1>3. Len(r) * s >= r[Len(r)].total
    BY <1>1 DEF HistoricalInv, ReaderInv, CountsRows, HQ!Finished
<1>n. \A i \in Nat : i * s \in Nat
    BY <1>1
<1>4. \A i \in 1..Len(r) - 1 : r[i + 1].total >= r[i].total
  <2> SUFFICES ASSUME NEW i \in 1..Len(r) - 1
               PROVE  r[i + 1].total >= r[i].total
      OBVIOUS
  <2>1. ~(r[i + 1].total < r[i].total)
      BY DEF HQ!OlderPage
  <2> HIDE DEF r
  <2>2. i \in 1..Len(r) /\ i + 1 \in 1..Len(r)
      BY <1>1
  <2>3. r[i].total \in Nat /\ r[i + 1].total \in Nat
      BY <1>2, <2>2
  <2> QED
      BY <2>1, <2>3
<1>5. PICK i \in reach : \A j \in reach : i <= j
  <2>1. Len(r) \in reach /\ reach \in SUBSET Nat
    <3> HIDE DEF r, s
    <3>1. Len(r) \in 1..Len(r) /\ r[Len(r)].total \in Nat /\ Len(r) * s \in Nat
        BY <1>1, <1>2, <1>n
    <3>2. r[Len(r)].total - b < Len(r) * s
        BY <1>1, <1>3, <3>1
    <3> QED
        BY <1>1, <3>1, <3>2
  <2> HIDE DEF reach
  <2> QED
      BY <2>1, LeastNumber
<1>6. /\ i \in 1..Len(r) /\ i \in Nat /\ i >= 1 /\ r[i].total \in Nat
      /\ r[i].total - b < i * s
    BY <1>1, <1>2
<1>7. (i - 1) * s <= r[i].total - b
  <2>1. CASE i = 1
    <3>1. 0 * s = 0 /\ i - 1 = 0
        BY <1>1, <2>1
    <3>2. b <= r[i].total
        BY <1>1, <2>1
    <3> HIDE DEF r, s
    <3> QED
        BY <1>1, <1>6, <3>1, <3>2
  <2>2. CASE i # 1
    <3>1. i - 1 \in 1..Len(r) /\ i - 1 \notin reach
      <4> HIDE DEF reach, r, s
      <4>1. i - 1 \in 1..Len(r) /\ ~(i <= i - 1)
          BY <1>1, <1>6, <2>2
      <4> QED
          BY <1>5, <4>1
    <3>2. ~(r[i - 1].total - b < (i - 1) * s)
        BY <3>1
    <3>3. r[(i - 1) + 1].total >= r[i - 1].total
        BY <1>1, <1>4, <1>6, <2>2
    <3>4. (i - 1) * s \in Int /\ r[i - 1].total \in Nat
        BY <1>1, <1>2, <1>6, <3>1
    <3>5. r[i].total >= r[i - 1].total
        BY <1>6, <3>3
    <3> HIDE DEF r, s
    <3> QED
        BY <1>1, <1>6, <3>2, <3>4, <3>5
  <2> QED
      BY <2>1, <2>2
<1>8. i * s = (i - 1) * s + s /\ (i - 1) * s \in Nat
    BY <1>1, <1>6, SMTT(30)
<1>9. b \in 1..r[i].total
    BY <1>1, <1>6, <1>7, <1>8
<1>10. b \in r[i].items
    BY <1>2, <1>6, <1>7, <1>8, <1>9 DEF IsPage
<1> QED
    BY <1>6, <1>10 DEF HQ!ReadBars

\* For any number of agents, pages and bars: who has read every page of a query, none of
\* them older than the one before, has every bar that was there at the first.
\* (GetHistoricalQuotesUseCase.execute, get_historical_bars)
THEOREM NoBarIsSkipped == HQ!Spec => []PagesReadEverything
<1>1. HistoricalInv => PagesReadEverything
    BY EveryBarIsRead
<1> QED
    BY <1>1, HistoricalStart, HistoricalStep, PTL DEF HQ!Spec

-----------------------------------------------------------------------------
(* Latest quotes: the provider's page.                                     *)

LEMMA LatestConstants ==
    /\ Tickers \subseteq Nat
    /\ Asked \subseteq Seq(Tickers)
    /\ LastDay \in Nat \ {0} /\ MaxCalls \in Nat \ {0} /\ RowLimit \in Nat \ {0}
    /\ Lookback \in Nat
    BY Latest DEF LQ!LatestAssumption

\* A bounded set of numbers has a greatest one.
LEMMA MaxIsGreatest ==
    ASSUME NEW S \in SUBSET Nat, S # {}, NEW n \in Nat, \A x \in S : x <= n
    PROVE  LQ!Max(S) \in S /\ \A x \in S : x <= LQ!Max(S)
<1> DEFINE T == {n - x : x \in S}
<1>1. T \in SUBSET Nat /\ T # {}
    OBVIOUS
<1> HIDE DEF T
<1>2. PICK m \in T : \A k \in T : m <= k
    BY <1>1, LeastNumber
<1>3. PICK y \in S : m = n - y
    BY <1>2 DEF T
<1>4. ASSUME NEW x \in S
      PROVE  y >= x
  <2>1. n - x \in T
      BY DEF T
  <2>2. m <= n - x
      BY <1>2, <2>1
  <2> QED
      BY <1>3, <2>2
<1>5. \E z \in S : \A x \in S : z >= x
    BY <1>4
<1>6. LQ!Max(S) \in S /\ \A x \in S : LQ!Max(S) >= x
    BY <1>5 DEF LQ!Max
<1> QED
    BY <1>6

LEMMA MaxOfDays ==
    ASSUME NEW D \in SUBSET LQ!Days, D # {}
    PROVE  /\ LQ!Max(D) \in D /\ LQ!Max(D) \in LQ!Days /\ LQ!Max(D) \in Nat /\ LQ!Max(D) # 0
           /\ \A x \in D : x <= LQ!Max(D)
<1>1. D \in SUBSET Nat /\ LastDay \in Nat /\ \A x \in D : x <= LastDay
    BY LatestConstants DEF LQ!Days
<1>2. LQ!Max(D) \in D /\ \A x \in D : x <= LQ!Max(D)
    BY <1>1, MaxIsGreatest
<1>3. LQ!Max(D) \in LQ!Days
    BY <1>2
<1>4. \A d \in LQ!Days : d \in Nat /\ d # 0
    BY LatestConstants DEF LQ!Days
<1> QED
    BY <1>2, <1>3, <1>4

\* The rows of tickers M when the days tr are traded, and the provider's page of them.
RowsOf(M, tr) == {r \in M \X LQ!Days : r[2] \in tr[r[1]]}
Ahead(r, M, tr) == {s \in RowsOf(M, tr) : LQ!Before(s, r)}
PageOne(M, tr) == {r \in RowsOf(M, tr) : Cardinality(Ahead(r, M, tr)) < RowLimit}
NewestOf(M, tr) == [t \in Tickers |-> LQ!SelectLatest(t, PageOne(M, tr))]

\* The rows that count for a ticker that is cut off.
NewerThan(t, M, tr) ==
    {r \in M \X LQ!Days : r[2] \in tr[r[1]] /\ r[2] >= LQ!Max(tr[t]) /\ r[1] # t}

LEMMA SameCardinality == \A S : LQ!Cardinality(S) = Cardinality(S)
    BY DEF LQ!Cardinality, Cardinality

\* The days since the date that is asked for on a day.
RecentOf(tr, day) == [t \in Tickers |-> {d \in tr[t] : d >= day - Lookback}]

LEMMA GatewayAnswers ==
    ASSUME NEW M \in SUBSET Tickers
    PROVE  LQ!LatestOf(M) = NewestOf(M, RecentOf(traded, today))
<1> DEFINE tr == RecentOf(traded, today)
<1>1. \A r \in M \X LQ!Days : LQ!Recent(r[1]) = tr[r[1]]
    BY DEF LQ!Recent, RecentOf
<1> HIDE DEF tr
<1>2. {r \in M \X LQ!Days : r[2] \in LQ!Recent(r[1])} = RowsOf(M, tr)
    BY <1>1 DEF RowsOf
<1>3. LQ!FirstPage(M) = PageOne(M, tr)
    BY <1>2, SameCardinality DEF LQ!FirstPage, PageOne, Ahead
<1> QED
    BY <1>3 DEF LQ!LatestOf, NewestOf, tr

\* The newest of the recent days is the newest of all.
LEMMA RecentIsNewest ==
    ASSUME NEW tr \in [Tickers -> SUBSET LQ!Days], NEW day \in {0} \cup LQ!Days
    PROVE  /\ RecentOf(tr, day) \in [Tickers -> SUBSET LQ!Days]
           /\ \A t \in Tickers : RecentOf(tr, day)[t] # {} =>
                \A d \in tr[t] : d <= LQ!Max(RecentOf(tr, day)[t])
<1>1. \A d \in {0} \cup LQ!Days : d \in Nat
    BY LatestConstants DEF LQ!Days
<1>2. RecentOf(tr, day) \in [Tickers -> SUBSET LQ!Days]
    BY DEF RecentOf
<1>3. ASSUME NEW t \in Tickers, RecentOf(tr, day)[t] # {}, NEW d \in tr[t]
      PROVE  d <= LQ!Max(RecentOf(tr, day)[t])
  <2> DEFINE R == RecentOf(tr, day)[t]
  <2>1. R = {e \in tr[t] : e >= day - Lookback} /\ R \in SUBSET LQ!Days
      BY <1>2 DEF RecentOf
  <2> HIDE DEF R
  <2>2. LQ!Max(R) \in R /\ \A e \in R : e <= LQ!Max(R)
      BY <1>3, <2>1, MaxOfDays DEF R
  <2>3. d \in Nat /\ LQ!Max(R) \in Nat /\ day \in Nat /\ Lookback \in Nat
      BY <1>1, <2>1, <2>2, LatestConstants
  <2>4. LQ!Max(R) >= day - Lookback
      BY <2>1, <2>2
  <2>5. CASE d >= day - Lookback
      BY <2>1, <2>2, <2>5 DEF R
  <2>6. CASE ~(d >= day - Lookback)
      BY <2>3, <2>4, <2>6 DEF R
  <2> QED
      BY <2>5, <2>6
<1> QED
    BY <1>2, <1>3

LEMMA RowsAreFinite ==
    ASSUME NEW M, IsFiniteSet(M), NEW tr
    PROVE  /\ IsFiniteSet(M \X LQ!Days)
           /\ \A R \in SUBSET (M \X LQ!Days) : IsFiniteSet(R) /\ Cardinality(R) \in Nat
<1>1. IsFiniteSet(LQ!Days)
    BY LatestConstants, FS_Interval DEF LQ!Days
<1>2. IsFiniteSet(M \X LQ!Days)
    BY <1>1, FS_Product
<1> QED
    BY <1>2, FS_Subset, FS_CardinalityType

\* What the gateway makes of the page: a ticker's newest day, or nothing when enough
\* rows of others come before that day's.
LEMMA NewestOrCut ==
    ASSUME NEW M \in SUBSET Tickers, IsFiniteSet(M),
           NEW tr \in [Tickers -> SUBSET LQ!Days], NEW t \in Tickers
    PROVE  /\ NewestOf(M, tr)[t] \in {0} \cup LQ!Days
           /\ NewestOf(M, tr)[t] # 0 => /\ NewestOf(M, tr)[t] \in tr[t]
                                        /\ NewestOf(M, tr)[t] = LQ!Max(tr[t])
           /\ (NewestOf(M, tr)[t] = 0 /\ t \in M /\ tr[t] # {}) =>
                Cardinality(NewerThan(t, M, tr)) >= RowLimit
<1> DEFINE D == LQ!DaysOf(t, PageOne(M, tr))
           top == LQ!Max(tr[t])
<1>1. NewestOf(M, tr)[t] = IF D = {} THEN 0 ELSE LQ!Max(D)
    BY DEF NewestOf, LQ!SelectLatest
<1>2. \A d : d \in D <=> <<t, d>> \in PageOne(M, tr)
  <2>1. \A r \in PageOne(M, tr) : r = <<r[1], r[2]>>
      BY DEF PageOne, RowsOf
  <2>2. ASSUME NEW d, d \in D
        PROVE  <<t, d>> \in PageOne(M, tr)
    <3>1. PICK r \in PageOne(M, tr) : r[1] = t /\ r[2] = d
        BY <2>2 DEF LQ!DaysOf
    <3> QED
        BY <2>1, <3>1
  <2>3. ASSUME NEW d, <<t, d>> \in PageOne(M, tr)
        PROVE  d \in D
    <3>1. <<t, d>>[1] = t /\ <<t, d>>[2] = d
        OBVIOUS
    <3> QED
        BY <2>3, <3>1 DEF LQ!DaysOf
  <2> QED
      BY <2>2, <2>3
<1>3. D \subseteq tr[t] /\ tr[t] \in SUBSET LQ!Days /\ (D # {} => t \in M)
    BY <1>2 DEF PageOne, RowsOf
<1> HIDE DEF D
<1>4. \A d \in LQ!Days : d \in Nat
    BY LatestConstants DEF LQ!Days
<1>5. ASSUME tr[t] # {}, t \in M
      PROVE  /\ top \in tr[t] /\ top \in Nat /\ top # 0 /\ \A d \in tr[t] : d <= top
             /\ <<t, top>> \in RowsOf(M, tr)
    BY <1>3, <1>5, MaxOfDays DEF RowsOf
<1> HIDE DEF top
<1>6. CASE D # {}
  <2>1. PICK d \in D : TRUE
      BY <1>6
  <2>2. d \in tr[t] /\ t \in M /\ d <= top /\ d \in Nat /\ top \in Nat
      BY <1>3, <1>4, <1>5, <2>1
  <2>3. Ahead(<<t, top>>, M, tr) \subseteq Ahead(<<t, d>>, M, tr)
    <3> SUFFICES ASSUME NEW s \in RowsOf(M, tr), LQ!Before(s, <<t, top>>)
                 PROVE  LQ!Before(s, <<t, d>>)
        BY DEF Ahead
    <3>1. s[2] \in Nat /\ s[1] \in Nat /\ t \in Nat
        BY <1>4, LatestConstants DEF RowsOf
    <3>2. s[2] > top \/ (s[2] = top /\ s[1] < t)
        BY DEF LQ!Before
    <3>3. s[2] > d \/ (s[2] = d /\ s[1] < t)
        BY <2>2, <3>1, <3>2
    <3> QED
        BY <3>3 DEF LQ!Before
  <2>4. Cardinality(Ahead(<<t, d>>, M, tr)) < RowLimit
      BY <1>2, <2>1 DEF PageOne
  <2>5. Ahead(<<t, d>>, M, tr) \in SUBSET (M \X LQ!Days)
      BY DEF Ahead, RowsOf
  <2>6. /\ Cardinality(Ahead(<<t, top>>, M, tr)) <= Cardinality(Ahead(<<t, d>>, M, tr))
        /\ Cardinality(Ahead(<<t, top>>, M, tr)) \in Nat
        /\ Cardinality(Ahead(<<t, d>>, M, tr)) \in Nat
      BY <2>3, <2>5, RowsAreFinite, FS_Subset, FS_CardinalityType
  <2>7. <<t, top>> \in PageOne(M, tr)
      BY <1>3, <1>5, <2>2, <2>4, <2>6, LatestConstants DEF PageOne
  <2>8. top \in D
      BY <1>2, <2>7
  <2>9. LQ!Max(D) \in D /\ \A x \in D : x <= LQ!Max(D)
      BY <1>3, <1>6, MaxOfDays
  <2>10. LQ!Max(D) \in tr[t] /\ LQ!Max(D) <= top /\ top <= LQ!Max(D) /\ LQ!Max(D) \in Nat
      BY <1>3, <1>4, <1>5, <2>2, <2>8, <2>9
  <2>11. LQ!Max(D) = top
      BY <2>2, <2>10
  <2> QED
      BY <1>1, <1>3, <1>5, <1>6, <2>2, <2>10, <2>11 DEF top
<1>7. CASE D = {}
  <2>1. NewestOf(M, tr)[t] = 0
      BY <1>1, <1>7
  <2>2. ASSUME t \in M, tr[t] # {}
        PROVE  Cardinality(NewerThan(t, M, tr)) >= RowLimit
    <3>1. <<t, top>> \in RowsOf(M, tr) /\ <<t, top>> \notin PageOne(M, tr)
        BY <1>2, <1>5, <1>7, <2>2
    <3>2. ~(Cardinality(Ahead(<<t, top>>, M, tr)) < RowLimit)
        BY <3>1 DEF PageOne
    <3>3. Ahead(<<t, top>>, M, tr) \subseteq NewerThan(t, M, tr)
      <4> SUFFICES ASSUME NEW s \in RowsOf(M, tr), LQ!Before(s, <<t, top>>)
                   PROVE  s \in NewerThan(t, M, tr)
          BY DEF Ahead
      <4>1. /\ s[2] \in Nat /\ s[1] \in Nat /\ t \in Nat /\ s \in M \X LQ!Days
            /\ s[2] \in tr[s[1]]
          BY <1>4, LatestConstants DEF RowsOf
      <4>2. s[2] > top \/ (s[2] = top /\ s[1] < t)
          BY DEF LQ!Before
      <4>3. s[2] >= top /\ s[1] # t
        <5>1. top \in Nat /\ \A d \in tr[t] : d <= top
            BY <1>5, <2>2
        <5>2. s[1] = t => s[2] <= top
            BY <4>1, <5>1
        <5> QED
            BY <4>1, <4>2, <5>1, <5>2
      <4> QED
          BY <4>1, <4>3 DEF NewerThan, top
    <3>4. NewerThan(t, M, tr) \in SUBSET (M \X LQ!Days)
        BY DEF NewerThan
    <3>5. /\ Cardinality(Ahead(<<t, top>>, M, tr)) <= Cardinality(NewerThan(t, M, tr))
          /\ Cardinality(Ahead(<<t, top>>, M, tr)) \in Nat
          /\ Cardinality(NewerThan(t, M, tr)) \in Nat
        BY <3>3, <3>4, RowsAreFinite, FS_Subset, FS_CardinalityType
    <3> QED
        BY <3>2, <3>5, LatestConstants
  <2> QED
      BY <2>1, <2>2
<1> QED
    BY <1>6, <1>7

-----------------------------------------------------------------------------
(* Latest quotes: the calls.                                               *)

\* The tickers a call asks the provider for.
MissingOf(g) == {g.asked[i] : i \in g.missing}

\* What a call has read is in its request; what it has not read yet is left, and what
\* it asked the provider for came as the newest of the recent days of then.
CallInv(g) ==
    /\ g \in LQ!Call
    /\ g.left \subseteq DOMAIN g.asked /\ g.missing \subseteq DOMAIN g.asked
    /\ g.pc # "answered" => g.status = 200
    /\ g.pc = "reading" => g.fresh = LQ!NoQuotes
    /\ (g.pc # "idle" /\ g.status = 200) =>
         \A i \in DOMAIN g.asked :
            (g.pc = "reading" /\ i \in g.left) \/ i \in g.missing \/ g.cached[g.asked[i]] # 0
    /\ g.pc = "storing" => g.fresh = NewestOf(MissingOf(g), RecentOf(g.seen, g.day))
    /\ (g.pc = "answered" /\ g.status = 200) =>
         \/ g.missing = {} /\ g.fresh = LQ!NoQuotes
         \/ g.fresh = NewestOf(MissingOf(g), RecentOf(g.seen, g.day))

\* A quote is a day that was traded, in the cache and on its way there.  The call that
\* asked last has no older quote than the cache or another call.
QuotesInOrder ==
    /\ \A t \in Tickers : quotes[t] \in {0} \cup traded[t]
    /\ \A c \in Agents : call[c].pc = "storing" =>
         /\ \A t \in Tickers : call[c].fresh[t] \in {0} \cup traded[t]
         /\ ~call[c].overtaken =>
              \A t \in Tickers : call[c].fresh[t] # 0 =>
                 /\ quotes[t] <= call[c].fresh[t]
                 /\ \A d \in Agents : call[d].pc = "storing" => call[d].fresh[t] <= call[c].fresh[t]

LatestInv ==
    /\ LQ!TypeOK
    /\ \A c \in Agents : CallInv(call[c])
    /\ QuotesInOrder

LEMMA DaysAreNumbers ==
    /\ LQ!Days \subseteq Nat /\ 0 \notin LQ!Days /\ 1 \in LQ!Days
    /\ \A d \in {0} \cup LQ!Days : d \in Nat
    BY LatestConstants DEF LQ!Days

LEMMA MissingTickers ==
    ASSUME NEW g \in LQ!Call, g.missing \subseteq DOMAIN g.asked
    PROVE  MissingOf(g) \in SUBSET Tickers /\ IsFiniteSet(MissingOf(g))
<1>1. g.asked \in Seq(Tickers)
    BY DEF LQ!Call
<1>2. DOMAIN g.asked = 1..Len(g.asked) /\ Len(g.asked) \in Nat
      /\ \A i \in DOMAIN g.asked : g.asked[i] \in Tickers
    BY <1>1
<1>3. IsFiniteSet(g.missing)
  <2>1. IsFiniteSet(1..Len(g.asked))
    <3>1. 1 \in Int /\ Len(g.asked) \in Int
        BY <1>2
    <3> QED
        BY <3>1, FS_Interval
  <2>2. g.missing \in SUBSET (1..Len(g.asked))
      BY <1>2
  <2> QED
      BY <2>1, <2>2, FS_Subset
<1>4. [i \in g.missing |-> g.asked[i]] \in Surjection(g.missing, MissingOf(g))
    BY DEF Surjection, MissingOf
<1> QED
    BY <1>2, <1>3, <1>4, FS_Surjection DEF MissingOf

LEMMA IdleCall ==
    /\ LQ!NoQuotes \in [Tickers -> {0} \cup LQ!Days]
    /\ LQ!Idle \in LQ!Call
    /\ LQ!Idle.pc = "idle" /\ LQ!Idle.asked = <<>> /\ LQ!Idle.left = {}
    /\ LQ!Idle.missing = {} /\ LQ!Idle.status = 200 /\ LQ!Idle.fresh = LQ!NoQuotes
<1>1. LQ!NoQuotes \in [Tickers -> {0} \cup LQ!Days]
    BY DEF LQ!NoQuotes
<1>2. <<>> \in Seq(Tickers) /\ [t \in Tickers |-> {}] \in [Tickers -> SUBSET LQ!Days]
    OBVIOUS
<1> QED
    BY <1>1, <1>2 DEF LQ!Idle, LQ!Call

LEMMA LatestStart == LQ!Init => LatestInv
<1> SUFFICES ASSUME LQ!Init
             PROVE  LatestInv
    OBVIOUS
<1>1. LQ!TypeOK
    BY IdleCall, DaysAreNumbers, LatestConstants DEF LQ!Init, LQ!TypeOK
<1>2. CallInv(LQ!Idle)
    BY IdleCall DEF CallInv
<1>3. QuotesInOrder
    BY IdleCall DEF LQ!Init, LQ!NoQuotes, QuotesInOrder
<1> QED
    BY <1>1, <1>2, <1>3 DEF LQ!Init, LatestInv

\* A step of one call that touches neither quotes nor what is being stored.
LEMMA OneCall ==
    ASSUME LatestInv, NEW c \in Agents, NEW h, CallInv(h), LQ!Set(c, h),
           h.pc = "storing" => /\ call[c].pc = "storing" /\ h.fresh = call[c].fresh
                               /\ h.overtaken = call[c].overtaken,
           UNCHANGED <<gateway, today, traded, quotes>>, calls' \in 0..MaxCalls
    PROVE  LatestInv'
<1>1. call' = [call EXCEPT ![c] = h] /\ call \in [Agents -> LQ!Call] /\ h \in LQ!Call
    BY DEF LQ!Set, LatestInv, LQ!TypeOK, CallInv
<1>2. LQ!TypeOK'
    BY <1>1 DEF LatestInv, LQ!TypeOK
<1>3. \A d \in Agents : CallInv(call'[d])
    BY <1>1 DEF LatestInv
<1>4. \A d \in Agents : call'[d].pc = "storing" =>
         /\ call[d].pc = "storing" /\ call'[d].fresh = call[d].fresh
         /\ call'[d].overtaken = call[d].overtaken
    BY <1>1
<1>5. QuotesInOrder'
    BY <1>4 DEF LatestInv, QuotesInOrder
<1> QED
    BY <1>2, <1>3, <1>5 DEF LatestInv

LEMMA LatestStep == LatestInv /\ [LQ!Next]_LQ!latest => LatestInv'
<1> SUFFICES ASSUME LatestInv, [LQ!Next]_LQ!latest
             PROVE  LatestInv'
    OBVIOUS
<1>t. LQ!TypeOK /\ QuotesInOrder /\ \A c \in Agents : CallInv(call[c])
    BY DEF LatestInv
<1>c. calls \in 0..MaxCalls
    BY <1>t DEF LQ!TypeOK
<1>g. \A c \in Agents :
        /\ call[c] \in LQ!Call /\ call[c].asked \in Seq(Tickers)
        /\ \A i \in DOMAIN call[c].asked : call[c].asked[i] \in Tickers
        /\ call[c].left \subseteq DOMAIN call[c].asked
        /\ call[c].missing \subseteq DOMAIN call[c].asked
        /\ LQ!Missing(c) = MissingOf(call[c])
  <2> SUFFICES ASSUME NEW c \in Agents
               PROVE  /\ call[c] \in LQ!Call /\ call[c].asked \in Seq(Tickers)
                      /\ \A i \in DOMAIN call[c].asked : call[c].asked[i] \in Tickers
                      /\ call[c].left \subseteq DOMAIN call[c].asked
                      /\ call[c].missing \subseteq DOMAIN call[c].asked
                      /\ LQ!Missing(c) = MissingOf(call[c])
      OBVIOUS
  <2>1. /\ call[c] \in LQ!Call
        /\ call[c].left \subseteq DOMAIN call[c].asked
        /\ call[c].missing \subseteq DOMAIN call[c].asked
      BY <1>t DEF CallInv
  <2>2. call[c].asked \in Seq(Tickers)
      BY <2>1 DEF LQ!Call
  <2>3. \A i \in DOMAIN call[c].asked : call[c].asked[i] \in Tickers
      BY <2>2
  <2>4. LQ!Missing(c) = MissingOf(call[c])
      BY DEF LQ!Missing, MissingOf
  <2> QED
      BY <2>1, <2>2, <2>3, <2>4
<1>1. ASSUME NEW c \in Agents, LQ!Request(c)
      PROVE  LatestInv'
  <2>1. PICK q \in Asked :
           LQ!Set(c, [LQ!Idle EXCEPT !.pc = "reading", !.asked = q, !.left = DOMAIN q])
      BY <1>1 DEF LQ!Request
  <2> DEFINE h == [LQ!Idle EXCEPT !.pc = "reading", !.asked = q, !.left = DOMAIN q]
  <2>2. q \in Seq(Tickers) /\ DOMAIN q \subseteq Nat
    <3>1. q \in Seq(Tickers)
        BY LatestConstants
    <3> QED
        BY <3>1
  <2>3. h \in LQ!Call
      BY <2>2, IdleCall DEF LQ!Call
  <2>4. /\ h.pc = "reading" /\ h.asked = q /\ h.left = DOMAIN q /\ h.missing = {}
        /\ h.status = 200 /\ h.fresh = LQ!NoQuotes
      BY IdleCall DEF LQ!Call
  <2> HIDE DEF h
  <2>5. CallInv(h)
      BY <2>3, <2>4 DEF CallInv
  <2>6. UNCHANGED <<gateway, today, traded, quotes>> /\ calls' \in 0..MaxCalls
      BY <1>1, <1>c, LatestConstants DEF LQ!Request
  <2> QED
      BY <2>1, <2>4, <2>5, <2>6, OneCall DEF h
<1>e. ASSUME NEW c \in Agents, NEW status \in Nat, status # 200,
             LQ!Set(c, [LQ!Idle EXCEPT !.pc = "answered", !.status = status]),
             UNCHANGED <<gateway, today, traded, quotes, calls>>
      PROVE  LatestInv'
  <2> DEFINE h == [LQ!Idle EXCEPT !.pc = "answered", !.status = status]
  <2>1. h \in LQ!Call
      BY IdleCall DEF LQ!Call
  <2>2. /\ h.pc = "answered" /\ h.asked = <<>> /\ h.left = {} /\ h.missing = {}
        /\ h.status = status
      BY IdleCall DEF LQ!Call
  <2> HIDE DEF h
  <2>3. CallInv(h)
      BY <1>e, <2>1, <2>2 DEF CallInv
  <2> QED
      BY <1>c, <1>e, <2>2, <2>3, OneCall DEF h
<1>r. ASSUME NEW c \in Agents, NEW error, LQ!Raise(c, error),
             UNCHANGED <<gateway, today, traded, quotes, calls>>
      PROVE  LatestInv'
  <2>1. LQ!LatestAnswer(error).status \in Nat /\ LQ!LatestAnswer(error).status # 200
      BY DEF LQ!LatestAnswer, LQ!Answered, LQ!LatestAnswers, LQ!Unhandled
  <2> QED
      BY <1>e, <1>r, <2>1 DEF LQ!Raise
<1>2. ASSUME NEW c \in Agents, LQ!NotModified(c)
      PROVE  LatestInv'
  <2> DEFINE status == 304
  <2>1. status \in Nat /\ status # 200
      OBVIOUS
  <2>2. /\ LQ!Set(c, [LQ!Idle EXCEPT !.pc = "answered", !.status = status])
        /\ UNCHANGED <<gateway, today, traded, quotes, calls>>
      BY <1>2, Zenon DEF LQ!NotModified
  <2> HIDE DEF status
  <2> QED
      BY <1>e, <2>1, <2>2
<1>3. ASSUME NEW c \in Agents, LQ!ReadCached(c)
      PROVE  LatestInv'
  <2>1. PICK i \in LQ!Turn(c) :
           LET t == call[c].asked[i]
           IN  IF quotes[t] = 0
                 THEN LQ!Set(c, [call[c] EXCEPT !.left = @ \ {i}, !.missing = @ \cup {i}])
                 ELSE LQ!Set(c, [call[c] EXCEPT !.left = @ \ {i}, !.cached[t] = quotes[t]])
      BY <1>3 DEF LQ!ReadCached
  <2> DEFINE g == call[c]
             t == g.asked[i]
  <2>2. /\ g \in LQ!Call /\ i \in g.left /\ i \in DOMAIN g.asked /\ t \in Tickers
        /\ i \in Nat /\ g.pc = "reading" /\ CallInv(g)
      BY <1>3, <1>g, <1>t DEF LQ!Turn, LQ!ReadCached
  <2>3. UNCHANGED <<gateway, today, traded, quotes, calls>>
      BY <1>3 DEF LQ!ReadCached
  <2>4. CASE quotes[t] = 0
    <3> DEFINE h == [g EXCEPT !.left = @ \ {i}, !.missing = @ \cup {i}]
    <3>1. h \in LQ!Call
        BY <2>2 DEF LQ!Call
    <3>2. /\ h.pc = g.pc /\ h.asked = g.asked /\ h.left = g.left \ {i}
          /\ h.missing = g.missing \cup {i} /\ h.status = g.status /\ h.fresh = g.fresh
          /\ h.cached = g.cached
        BY <2>2 DEF LQ!Call
    <3>3. LQ!Set(c, h)
        BY <2>1, <2>4
    <3> HIDE DEF h
    <3>4. CallInv(h)
        BY <2>2, <3>1, <3>2 DEF CallInv
    <3> QED
        BY <1>c, <2>2, <2>3, <3>2, <3>3, <3>4, OneCall
  <2>5. CASE quotes[t] # 0
    <3> DEFINE h == [g EXCEPT !.left = @ \ {i}, !.cached[t] = quotes[t]]
               stock == [g.cached EXCEPT ![t] = quotes[t]]
    <3>1. quotes[t] \in {0} \cup LQ!Days
        BY <1>t, <2>2 DEF LQ!TypeOK
    <3>2. stock \in [Tickers -> {0} \cup LQ!Days]
        BY <2>2, <3>1 DEF LQ!Call
    <3>3. h = [g EXCEPT !.left = g.left \ {i}, !.cached = stock]
        BY <2>2 DEF LQ!Call
    <3>4. LQ!Set(c, h)
        BY <2>1, <2>5
    <3>5. /\ stock[t] # 0 /\ \A s \in Tickers : g.cached[s] # 0 => stock[s] # 0
        BY <2>2, <2>5 DEF LQ!Call
    <3> HIDE DEF stock, h
    <3>6. h \in LQ!Call
        BY <2>2, <3>2, <3>3 DEF LQ!Call
    <3>7. /\ h.pc = g.pc /\ h.asked = g.asked /\ h.left = g.left \ {i}
          /\ h.missing = g.missing /\ h.status = g.status /\ h.fresh = g.fresh
          /\ h.cached = stock
        BY <2>2, <3>3 DEF LQ!Call
    <3>8. \A k \in DOMAIN g.asked : g.asked[k] \in Tickers
        BY <1>g
    <3>9. CallInv(h)
        BY <2>2, <3>5, <3>6, <3>7, <3>8 DEF CallInv
    <3> QED
        BY <1>c, <2>2, <2>3, <3>4, <3>7, <3>9, OneCall
  <2> QED
      BY <2>4, <2>5
<1>4. ASSUME NEW c \in Agents, call[c].pc \in {"reading", "storing"},
             call[c].left = {}, call[c].pc = "reading" => LQ!Missing(c) = {},
             LQ!Set(c, [call[c] EXCEPT !.pc = "answered"]),
             UNCHANGED <<gateway, today, traded, quotes, calls>>
      PROVE  LatestInv'
  <2> DEFINE g == call[c]
             h == [g EXCEPT !.pc = "answered"]
  <2>1. g \in LQ!Call /\ CallInv(g)
      BY <1>t, <1>g
  <2>2. h \in LQ!Call
      BY <2>1 DEF LQ!Call
  <2>3. /\ h.pc = "answered" /\ h.asked = g.asked /\ h.left = g.left
        /\ h.missing = g.missing /\ h.status = g.status /\ h.fresh = g.fresh
        /\ h.cached = g.cached /\ h.seen = g.seen /\ h.day = g.day
      BY <2>1 DEF LQ!Call
  <2>4. g.pc = "reading" => g.missing = {}
      BY <1>4 DEF LQ!Missing
  <2> HIDE DEF h
  <2>5. MissingOf(h) = MissingOf(g)
      BY <2>3 DEF MissingOf
  <2>6. CallInv(h)
      BY <1>4, <2>1, <2>2, <2>3, <2>4, <2>5 DEF CallInv
  <2> QED
      BY <1>4, <1>c, <2>3, <2>6, OneCall DEF h
<1>5. ASSUME NEW c \in Agents, LQ!NothingMissing(c)
      PROVE  LatestInv'
    BY <1>4, <1>5 DEF LQ!NothingMissing
<1>6. ASSUME NEW c \in Agents, LQ!Merge(c)
      PROVE  LatestInv'
    BY <1>4, <1>6 DEF LQ!Merge
<1>7. ASSUME NEW c \in Agents, LQ!Fetch(c)
      PROVE  LatestInv'
  <2> DEFINE g == call[c]
             found == LQ!LatestOf(LQ!Missing(c))
             storable == {i \in g.missing : found[g.asked[i]] # 0}
             h == [g EXCEPT !.pc = "storing", !.fresh = found, !.seen = traded,
                            !.day = today, !.left = storable]
             After(d) == [call[d] EXCEPT !.overtaken = @ \/ call[d].pc = "storing"]
  <2>1. /\ g.pc = "reading" /\ g.left = {}
        /\ UNCHANGED <<gateway, today, traded, quotes, calls>>
        /\ call' = [d \in Agents |-> IF d = c THEN h ELSE After(d)]
      BY <1>7 DEF LQ!Fetch
  <2>2. g \in LQ!Call /\ CallInv(g) /\ g.missing \subseteq DOMAIN g.asked
      BY <1>g, <1>t
  <2>3. /\ MissingOf(g) \in SUBSET Tickers /\ IsFiniteSet(MissingOf(g))
        /\ traded \in [Tickers -> SUBSET LQ!Days]
      BY <1>t, <2>2, MissingTickers DEF LQ!TypeOK
  <2> DEFINE recent == RecentOf(traded, today)
  <2>d. today \in LQ!Days
      BY <1>t DEF LQ!TypeOK
  <2>e. /\ recent \in [Tickers -> SUBSET LQ!Days]
        /\ \A t \in Tickers : /\ recent[t] \subseteq traded[t]
                              /\ recent[t] # {} => \A d \in traded[t] : d <= LQ!Max(recent[t])
      BY <2>3, <2>d, RecentIsNewest DEF RecentOf
  <2>4. /\ found = NewestOf(MissingOf(g), recent)
        /\ found = [t \in Tickers |-> NewestOf(MissingOf(g), recent)[t]]
    <3>1. LQ!Missing(c) = MissingOf(g)
        BY DEF LQ!Missing, MissingOf
    <3> QED
        BY <2>3, <3>1, GatewayAnswers DEF NewestOf
  <2> HIDE DEF recent
  <2>5. ASSUME NEW t \in Tickers
        PROVE  /\ found[t] \in {0} \cup LQ!Days
               /\ found[t] # 0 => found[t] \in traded[t] /\ \A d \in traded[t] : d <= found[t]
    <3>1. /\ found[t] \in {0} \cup LQ!Days
          /\ found[t] # 0 => found[t] \in recent[t] /\ found[t] = LQ!Max(recent[t])
        BY <2>3, <2>4, <2>e, NewestOrCut
    <3> QED
        BY <2>e, <3>1
  <2>6. found \in [Tickers -> {0} \cup LQ!Days]
      BY <2>4, <2>5
  <2>7. storable \subseteq Nat /\ storable \subseteq g.missing
      BY <2>2 DEF LQ!Call
  <2> HIDE DEF found, storable
  <2>8. h \in LQ!Call
      BY <2>2, <2>3, <2>d, <2>6, <2>7 DEF LQ!Call
  <2>9. /\ h.pc = "storing" /\ h.asked = g.asked /\ h.left = storable
        /\ h.missing = g.missing /\ h.status = g.status /\ h.fresh = found
        /\ h.cached = g.cached /\ h.seen = traded /\ h.day = today
      BY <2>2 DEF LQ!Call
  <2> HIDE DEF h
  <2>10. CallInv(h)
    <3> HIDE DEF g
    <3>1. MissingOf(h) = MissingOf(g)
        BY <2>9 DEF MissingOf
    <3>2. h.fresh = NewestOf(MissingOf(h), RecentOf(h.seen, h.day))
        BY <2>4, <2>9, <3>1 DEF recent
    <3>3. g.status = 200
        BY <2>1, <2>2 DEF CallInv
    <3>4. \A i \in DOMAIN g.asked : i \in g.missing \/ g.cached[g.asked[i]] # 0
        BY <2>1, <2>2, <3>3 DEF CallInv
    <3>5. h.left \subseteq DOMAIN h.asked /\ h.missing \subseteq DOMAIN h.asked
        BY <2>2, <2>7, <2>9
    <3> QED
        BY <2>8, <2>9, <3>2, <3>3, <3>4, <3>5 DEF CallInv
  <2>11. ASSUME NEW d \in Agents
         PROVE  /\ After(d) \in LQ!Call /\ CallInv(After(d))
                /\ After(d).pc = call[d].pc /\ After(d).fresh = call[d].fresh
                /\ After(d).pc = "storing" => After(d).overtaken
    <3>1. call[d] \in LQ!Call /\ CallInv(call[d])
        BY <1>g, <1>t
    <3>2. call[d].overtaken \in BOOLEAN
        BY <3>1 DEF LQ!Call
    <3> DEFINE over == call[d].overtaken \/ call[d].pc = "storing"
               k == [call[d] EXCEPT !.overtaken = over]
    <3>3. over \in BOOLEAN /\ (call[d].pc = "storing" => over)
        OBVIOUS
    <3>4. After(d) = k
        OBVIOUS
    <3> HIDE DEF over
    <3>5. k \in LQ!Call
        BY <3>1, <3>3 DEF LQ!Call
    <3>6. /\ k.pc = call[d].pc /\ k.asked = call[d].asked /\ k.left = call[d].left
          /\ k.missing = call[d].missing /\ k.status = call[d].status
          /\ k.fresh = call[d].fresh /\ k.cached = call[d].cached /\ k.seen = call[d].seen
          /\ k.day = call[d].day
          /\ k.overtaken = over
        BY <3>1 DEF LQ!Call
    <3> HIDE DEF k
    <3>7. MissingOf(k) = MissingOf(call[d])
        BY <3>6 DEF MissingOf
    <3>8. CallInv(k)
        BY <3>1, <3>5, <3>6, <3>7 DEF CallInv
    <3>9. k.pc = "storing" => k.overtaken
        BY <3>3, <3>6
    <3> HIDE DEF After
    <3> QED
        BY <3>4, <3>5, <3>6, <3>8, <3>9
  <2> HIDE DEF After
  <2>12. \A d \in Agents : call'[d] = IF d = c THEN h ELSE After(d)
      BY <2>1
  <2>13. \A d \in Agents : call'[d] \in LQ!Call /\ CallInv(call'[d])
      BY <2>8, <2>10, <2>11, <2>12
  <2>14. call' \in [Agents -> LQ!Call]
      BY <2>1, <2>8, <2>11
  <2>15. LQ!TypeOK'
      BY <1>t, <2>1, <2>14 DEF LQ!TypeOK
  <2>16. \A t \in Tickers : quotes[t] \in {0} \cup traded[t]
      BY <1>t DEF QuotesInOrder
  <2>17. ASSUME NEW d \in Agents, call'[d].pc = "storing", NEW t \in Tickers
         PROVE  call'[d].fresh[t] \in {0} \cup traded[t]
    <3>1. CASE d = c
        BY <2>5, <2>9, <2>12, <3>1
    <3>2. CASE d # c
        BY <1>t, <2>11, <2>12, <2>17, <3>2 DEF QuotesInOrder
    <3> QED
        BY <3>1, <3>2
  <2>18. ASSUME NEW d \in Agents, call'[d].pc = "storing", ~call'[d].overtaken
         PROVE  d = c
      BY <2>11, <2>12, <2>18
  <2>19. ASSUME NEW t \in Tickers, found[t] # 0, NEW x \in {0} \cup traded[t]
         PROVE  x <= found[t]
    <3>1. found[t] \in LQ!Days
        BY <2>5, <2>19
    <3>2. found[t] \in Nat
        BY <3>1, DaysAreNumbers
    <3>3. CASE x = 0
        BY <3>2, <3>3
    <3>4. CASE x \in traded[t]
        BY <2>5, <2>19, <3>4
    <3> QED
        BY <3>3, <3>4
  <2>20. QuotesInOrder'
    <3>1. \A t \in Tickers : quotes'[t] \in {0} \cup traded'[t]
        BY <2>1, <2>16
    <3>2. ASSUME NEW d \in Agents, call'[d].pc = "storing", ~call'[d].overtaken,
                 NEW t \in Tickers, call'[d].fresh[t] # 0
          PROVE  /\ quotes'[t] <= call'[d].fresh[t]
                 /\ \A e \in Agents : call'[e].pc = "storing" => call'[e].fresh[t] <= call'[d].fresh[t]
      <4>1. d = c /\ call'[d].fresh = found
          BY <2>9, <2>12, <2>18, <3>2
      <4>2. found[t] # 0
          BY <3>2, <4>1
      <4> QED
          BY <2>1, <2>16, <2>17, <2>19, <4>1, <4>2
    <3>3. \A d \in Agents : call'[d].pc = "storing" =>
             \A t \in Tickers : call'[d].fresh[t] \in {0} \cup traded'[t]
        BY <2>1, <2>17
    <3> QED
        BY <3>1, <3>2, <3>3 DEF QuotesInOrder
  <2> QED
      BY <2>13, <2>15, <2>20 DEF LatestInv
<1>8. ASSUME NEW c \in Agents, LQ!Store(c)
      PROVE  LatestInv'
  <2> DEFINE g == call[c]
  <2>1. PICK i \in LQ!Turn(c) :
           /\ quotes' = [quotes EXCEPT ![g.asked[i]] = g.fresh[g.asked[i]]]
           /\ LQ!Set(c, [g EXCEPT !.left = @ \ {i}])
      BY <1>8 DEF LQ!Store
  <2> DEFINE t == g.asked[i]
             h == [g EXCEPT !.left = g.left \ {i}]
  <2>2. /\ g \in LQ!Call /\ i \in g.left /\ i \in DOMAIN g.asked /\ t \in Tickers
        /\ g.pc = "storing" /\ CallInv(g)
        /\ UNCHANGED <<gateway, today, traded, calls>>
      BY <1>8, <1>g, <1>t DEF LQ!Turn, LQ!Store
  <2>3. h \in LQ!Call
      BY <2>2 DEF LQ!Call
  <2>4. /\ h.pc = g.pc /\ h.asked = g.asked /\ h.left = g.left \ {i}
        /\ h.missing = g.missing /\ h.status = g.status /\ h.fresh = g.fresh
        /\ h.cached = g.cached /\ h.seen = g.seen /\ h.day = g.day /\ h.overtaken = g.overtaken
      BY <2>2 DEF LQ!Call
  <2>5. call' = [call EXCEPT ![c] = h] /\ call \in [Agents -> LQ!Call]
      BY <1>t, <2>1 DEF LQ!Set, LQ!TypeOK
  <2> HIDE DEF h
  <2>6. CallInv(h)
    <3>1. MissingOf(h) = MissingOf(g)
        BY <2>4 DEF MissingOf
    <3> QED
        BY <2>2, <2>3, <2>4, <3>1 DEF CallInv
  <2>7. g.fresh \in [Tickers -> {0} \cup LQ!Days] /\ quotes \in [Tickers -> {0} \cup LQ!Days]
      BY <1>t, <2>2 DEF LQ!Call, LQ!TypeOK
  <2>8. /\ \A s \in Tickers : quotes'[s] = (IF s = t THEN g.fresh[t] ELSE quotes[s])
        /\ quotes' \in [Tickers -> {0} \cup LQ!Days]
      BY <2>1, <2>2, <2>7
  <2>9. LQ!TypeOK'
      BY <1>t, <2>2, <2>3, <2>5, <2>8 DEF LQ!TypeOK
  <2>10. \A d \in Agents : /\ call'[d].pc = call[d].pc /\ call'[d].fresh = call[d].fresh
                           /\ call'[d].overtaken = call[d].overtaken
                           /\ CallInv(call'[d])
      BY <1>t, <2>4, <2>5, <2>6
  <2> HIDE DEF t, g
  <2>11. \A s \in Tickers : g.fresh[s] \in {0} \cup traded[s]
      BY <1>t, <2>2 DEF QuotesInOrder, g
  <2>12. \A d \in Agents : (call[d].pc = "storing" /\ ~call[d].overtaken) =>
            \A s \in Tickers : call[d].fresh[s] # 0 => g.fresh[s] <= call[d].fresh[s]
      BY <1>t, <2>2 DEF QuotesInOrder, g
  <2>13. QuotesInOrder'
    <3>1. \A s \in Tickers : quotes'[s] \in {0} \cup traded'[s]
        BY <1>t, <2>2, <2>8, <2>11 DEF QuotesInOrder
    <3>2. \A d \in Agents : call'[d].pc = "storing" =>
             \A s \in Tickers : call'[d].fresh[s] \in {0} \cup traded'[s]
        BY <1>t, <2>2, <2>10 DEF QuotesInOrder
    <3>3. ASSUME NEW d \in Agents, call'[d].pc = "storing", ~call'[d].overtaken,
                 NEW s \in Tickers, call'[d].fresh[s] # 0
          PROVE  /\ quotes'[s] <= call'[d].fresh[s]
                 /\ \A e \in Agents : call'[e].pc = "storing" => call'[e].fresh[s] <= call'[d].fresh[s]
      <4>1. call[d].pc = "storing" /\ ~call[d].overtaken /\ call[d].fresh[s] # 0
          BY <2>10, <3>3
      <4>2. /\ quotes[s] <= call[d].fresh[s] /\ g.fresh[s] <= call[d].fresh[s]
            /\ \A e \in Agents : call[e].pc = "storing" => call[e].fresh[s] <= call[d].fresh[s]
          BY <1>t, <2>12, <4>1 DEF QuotesInOrder
      <4> QED
          BY <2>8, <2>10, <4>2
    <3> QED
        BY <3>1, <3>2, <3>3 DEF QuotesInOrder
  <2> QED
      BY <2>9, <2>10, <2>13 DEF LatestInv
<1>9. ASSUME NEW c \in Agents, LQ!NoMethod(c)
      PROVE  LatestInv'
    BY <1>9, <1>r DEF LQ!NoMethod
<1>10. ASSUME NEW c \in Agents, LQ!ProviderFails(c)
       PROVE  LatestInv'
    BY <1>10, <1>r DEF LQ!ProviderFails
<1>11. ASSUME NEW c \in Agents, LQ!CacheFails(c)
       PROVE  LatestInv'
    BY <1>11, <1>r DEF LQ!CacheFails
<1>12. ASSUME NEW c \in Agents, LQ!Done(c)
       PROVE  LatestInv'
  <2>1. CallInv(LQ!Idle)
      BY IdleCall DEF CallInv
  <2> QED
      BY <1>12, <1>c, <2>1, IdleCall, OneCall DEF LQ!Done
<1>13. CASE LQ!NextDay
  <2>1. /\ UNCHANGED <<gateway, quotes, call, calls>>
        /\ today' = today + 1 /\ today < LastDay
      BY <1>13 DEF LQ!NextDay
  <2>2. today' \in LQ!Days
      BY <1>t, <2>1, LatestConstants DEF LQ!TypeOK, LQ!Days
  <2>3. /\ traded' \in [Tickers -> SUBSET LQ!Days]
        /\ \A t \in Tickers : traded[t] \subseteq traded'[t]
      BY <1>13, <1>t, <2>2 DEF LQ!NextDay, LQ!TypeOK
  <2>4. LQ!TypeOK'
      BY <1>t, <2>1, <2>2, <2>3 DEF LQ!TypeOK
  <2>5. QuotesInOrder'
      BY <1>t, <2>1, <2>3 DEF QuotesInOrder
  <2> QED
      BY <1>t, <2>1, <2>4, <2>5 DEF LatestInv
<1>14. ASSUME NEW s \in Tickers, LQ!Expire(s)
       PROVE  LatestInv'
  <2>1. /\ UNCHANGED <<gateway, today, traded, call, calls>>
        /\ quotes' = [quotes EXCEPT ![s] = 0]
      BY <1>14 DEF LQ!Expire
  <2>2. LQ!TypeOK'
      BY <1>t, <2>1 DEF LQ!TypeOK
  <2>3. \A t \in Tickers : quotes'[t] = quotes[t] \/ quotes'[t] = 0
      BY <1>t, <2>1 DEF LQ!TypeOK
  <2>4. \A c \in Agents, t \in Tickers : call[c].fresh[t] \in Nat
    <3> SUFFICES ASSUME NEW c \in Agents, NEW t \in Tickers
                 PROVE  call[c].fresh[t] \in Nat
        OBVIOUS
    <3>1. call[c].fresh \in [Tickers -> {0} \cup LQ!Days]
        BY <1>g DEF LQ!Call
    <3>2. call[c].fresh[t] \in {0} \cup LQ!Days
        BY <3>1
    <3>3. \A d \in {0} \cup LQ!Days : d \in Nat
        BY DaysAreNumbers
    <3> QED
        BY <3>2, <3>3
  <2>5. \A c \in Agents, t \in Tickers : quotes[t] <= call[c].fresh[t] => quotes'[t] <= call[c].fresh[t]
      BY <2>3, <2>4
  <2>6. \A t \in Tickers : quotes'[t] \in {0} \cup traded[t]
      BY <1>t, <2>3 DEF QuotesInOrder
  <2>7. QuotesInOrder'
      BY <1>t, <2>1, <2>5, <2>6 DEF QuotesInOrder
  <2> QED
      BY <1>t, <2>1, <2>2, <2>7 DEF LatestInv
<1>15. CASE UNCHANGED LQ!latest
  <2>1. UNCHANGED <<gateway, today, traded, quotes, call, calls>>
      BY <1>15 DEF LQ!latest
  <2>2. LQ!TypeOK' /\ QuotesInOrder'
      BY <1>t, <2>1 DEF LQ!TypeOK, QuotesInOrder
  <2> QED
      BY <1>t, <2>1, <2>2 DEF LatestInv
<1> QED
    BY <1>1, <1>2, <1>3, <1>5, <1>6, <1>7, <1>8, <1>9, <1>10, <1>11, <1>12, <1>13, <1>14, <1>15
       DEF LQ!Next

\* Every variable keeps its type.  (GetQuotes)
THEOREM LatestTypeCorrect == LQ!Spec => []LQ!TypeOK
<1>1. LatestInv => LQ!TypeOK
    BY DEF LatestInv
<1> QED
    BY <1>1, LatestStart, LatestStep, PTL DEF LQ!Spec

LEMMA NewestOrLeftOut ==
    ASSUME LatestInv
    PROVE  OmittedOnlyWhenCut
<1> SUFFICES ASSUME NEW c \in Agents, call[c].pc = "answered", call[c].status = 200,
                    NEW t \in LQ!AskedFor(c)
             PROVE  /\ LQ!Answer(c)[t] = 0 =>
                         \/ LQ!InWindow(c, t) = {}
                         \/ LQ!Cardinality(LQ!NewerRows(c, t)) >= RowLimit
                    /\ call[c].fresh[t] # 0 => call[c].fresh[t] = LQ!Max(LQ!InWindow(c, t))
    BY DEF OmittedOnlyWhenCut, LQ!OmittedOnlyWhenCut
<1> DEFINE g == call[c]
           recent == RecentOf(g.seen, g.day)
<1>1. g \in LQ!Call /\ CallInv(g) /\ g.missing \subseteq DOMAIN g.asked
    BY DEF LatestInv, CallInv
<1>2. /\ MissingOf(g) \in SUBSET Tickers /\ IsFiniteSet(MissingOf(g))
      /\ recent \in [Tickers -> SUBSET LQ!Days]
  <2>1. g.seen \in [Tickers -> SUBSET LQ!Days] /\ g.day \in {0} \cup LQ!Days
      BY <1>1 DEF LQ!Call
  <2>2. recent \in [Tickers -> SUBSET LQ!Days]
      BY <2>1, RecentIsNewest
  <2> QED
      BY <1>1, <2>2, MissingTickers
<1>w. \A s \in Tickers : LQ!InWindow(c, s) = recent[s]
  <2>1. \A s \in Tickers : recent[s] = {d \in g.seen[s] : d >= g.day - Lookback}
      BY DEF RecentOf
  <2> QED
      BY <2>1 DEF LQ!InWindow
<1> HIDE DEF recent
<1>3. PICK i \in DOMAIN g.asked : t = g.asked[i]
    BY DEF LQ!AskedFor
<1>4. t \in Tickers
  <2>1. g.asked \in Seq(Tickers)
      BY <1>1 DEF LQ!Call
  <2> HIDE DEF g
  <2> QED
      BY <1>3, <2>1
<1>5. \/ g.missing = {} /\ g.fresh = LQ!NoQuotes
      \/ g.fresh = NewestOf(MissingOf(g), recent)
    BY <1>1 DEF CallInv, recent
<1>6. i \in g.missing \/ g.cached[t] # 0
    BY <1>1, <1>3 DEF CallInv
<1>7. /\ NewestOf(MissingOf(g), recent)[t] # 0 =>
           NewestOf(MissingOf(g), recent)[t] = LQ!Max(recent[t])
      /\ (NewestOf(MissingOf(g), recent)[t] = 0 /\ t \in MissingOf(g) /\ recent[t] # {}) =>
           Cardinality(NewerThan(t, MissingOf(g), recent)) >= RowLimit
    BY <1>2, <1>4, NewestOrCut
<1>8. LQ!Cardinality(LQ!NewerRows(c, t)) = Cardinality(NewerThan(t, MissingOf(g), recent))
  <2>1. LQ!NewerRows(c, t) = NewerThan(t, MissingOf(g), recent)
    <3>1. LQ!Missing(c) = MissingOf(g)
        BY DEF LQ!Missing, MissingOf
    <3> HIDE DEF g
    <3> QED
        BY <1>2, <1>4, <1>w, <3>1 DEF LQ!NewerRows, NewerThan
  <2> QED
      BY <2>1, SameCardinality
<1>9. g.fresh[t] # 0 => g.fresh[t] = LQ!Max(LQ!InWindow(c, t))
    BY <1>4, <1>5, <1>7, <1>w DEF LQ!NoQuotes
<1>10. ASSUME LQ!Answer(c)[t] = 0
       PROVE  LQ!InWindow(c, t) = {} \/ LQ!Cardinality(LQ!NewerRows(c, t)) >= RowLimit
  <2>1. LQ!Answer(c)[t] = IF g.fresh[t] # 0 THEN g.fresh[t] ELSE g.cached[t]
      BY DEF LQ!Answer
  <2>2. g.fresh[t] = 0 /\ g.cached[t] = 0
      BY <1>10, <2>1
  <2>3. i \in g.missing /\ t \in MissingOf(g)
      BY <1>3, <1>6, <2>2 DEF MissingOf
  <2> HIDE DEF g
  <2>4. g.fresh = NewestOf(MissingOf(g), recent)
      BY <1>5, <2>3
  <2> QED
      BY <1>4, <1>7, <1>8, <1>w, <2>2, <2>3, <2>4
<1> QED
    BY <1>9, <1>10

\* For any callers, tickers, days and page limit: a ticker is left out of an answer only
\* when the provider has no bar of it since the day that is asked for or its newest one did not fit on the page, and a
\* fresh quote is the newest bar.  (GetQuotes.execute, get_latest_quotes)
THEOREM LeftOutOnlyWhenCut == LQ!Spec => []OmittedOnlyWhenCut
<1>1. LatestInv => OmittedOnlyWhenCut
    BY NewestOrLeftOut
<1> QED
    BY <1>1, LatestStart, LatestStep, PTL DEF LQ!Spec

\* One step: only the store of an overtaken call puts an older quote in the place of a
\* newer one.
LEMMA GoesBackOvertaken ==
    ASSUME LatestInv, [LQ!Next]_LQ!latest
    PROVE  \A t \in Tickers : (quotes'[t] # 0 /\ quotes'[t] < quotes[t]) =>
              \E c \in Agents : LQ!Store(c) /\ call[c].overtaken
<1> SUFFICES ASSUME NEW t \in Tickers, quotes'[t] # 0, quotes'[t] < quotes[t]
             PROVE  \E c \in Agents : LQ!Store(c) /\ call[c].overtaken
    OBVIOUS
<1>1. quotes \in [Tickers -> {0} \cup LQ!Days] /\ quotes[t] \in Nat
  <2>1. quotes \in [Tickers -> {0} \cup LQ!Days]
      BY DEF LatestInv, LQ!TypeOK
  <2>2. \A d \in {0} \cup LQ!Days : d \in Nat
      BY DaysAreNumbers
  <2> QED
      BY <2>1, <2>2
<1>2. quotes'[t] # quotes[t]
    BY <1>1
<1>3. ~UNCHANGED quotes
    BY <1>2
<1>4. ASSUME NEW s \in Tickers, LQ!Expire(s)
      PROVE  FALSE
  <2>1. quotes' = [quotes EXCEPT ![s] = 0]
      BY <1>4 DEF LQ!Expire
  <2> QED
      BY <1>1, <1>2, <2>1
<1>5. PICK c \in Agents : LQ!Store(c)
    BY <1>3, <1>4 DEF LQ!Next, LQ!latest, LQ!Request, LQ!NotModified, LQ!ReadCached,
       LQ!NothingMissing, LQ!Fetch, LQ!Merge, LQ!NoMethod, LQ!ProviderFails, LQ!CacheFails,
       LQ!Done, LQ!NextDay
<1>6. PICK i \in LQ!Turn(c) :
         quotes' = [quotes EXCEPT ![call[c].asked[i]] = call[c].fresh[call[c].asked[i]]]
    BY <1>5 DEF LQ!Store
<1>7. t = call[c].asked[i] /\ quotes'[t] = call[c].fresh[t]
    BY <1>1, <1>2, <1>6
<1>8. call[c].pc = "storing"
    BY <1>5 DEF LQ!Store
<1>9. ASSUME ~call[c].overtaken
      PROVE  FALSE
  <2>1. quotes[t] <= call[c].fresh[t]
      BY <1>7, <1>8, <1>9 DEF LatestInv, QuotesInOrder
  <2>2. call[c].fresh[t] \in Nat
    <3>1. call[c].fresh \in [Tickers -> {0} \cup LQ!Days]
        BY DEF LatestInv, CallInv, LQ!Call
    <3>2. \A d \in {0} \cup LQ!Days : d \in Nat
        BY DaysAreNumbers
    <3> QED
        BY <3>1, <3>2
  <2> QED
      BY <1>1, <1>7, <2>1, <2>2
<1> QED
    BY <1>5, <1>9

\* For any callers, tickers and days: a cached quote gives way to an older one only when
\* the call that stores it asked the provider before another call did.
\* (GetQuotes.execute: nothing locks an entry)
THEOREM OnlyOvertakenGoBack == LQ!Spec => QuotesGoBackOnlyThen
<1>1. ASSUME LatestInv, [LQ!Next]_LQ!latest
      PROVE  [\A t \in Tickers : (quotes'[t] # 0 /\ quotes'[t] < quotes[t]) =>
                \E c \in Agents : LQ!Store(c) /\ call[c].overtaken]_LQ!latest
    BY <1>1, GoesBackOvertaken
<1> QED
    BY <1>1, LatestStart, LatestStep, PTL DEF LQ!Spec, QuotesGoBackOnlyThen, LQ!QuotesGoBackOnlyThen
=============================================================================
