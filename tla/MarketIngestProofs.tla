-------------------------- MODULE MarketIngestProofs --------------------------
(***************************************************************************)
(* What is staged is complete, a replay reproduces it, and a bar goes back *)
(* only for a reason: for any number of use cases, any windows, bars and   *)
(* revisions, whatever fails, and whichever transactions wait for another. *)
(***************************************************************************)
EXTENDS MarketIngest, FiniteSetTheorems, TLAPS

-----------------------------------------------------------------------------
(* The inductive invariant.                                                *)

Begun == {"fetching", "saving", "upserting"}

\* Use cases that will insert a run of the window.
Beginning(w) ==
    {j \in Jobs : /\ kind[j] = "ingest" /\ window[j] = w /\ pc[j] \in Begun
                  /\ \A r \in runs : r.id # run[j]}

BarsInv == \A t \in Times : bars[t] # 0 => \E p \in payloads : p.data[t] = bars[t]

\* A payload is no newer than the provider, and is told by when it was received.
PayloadsInv ==
    /\ \A p \in payloads : p.at \in 1..saved /\ \A t \in Times : p.data[t] <= provider[t]
    /\ \A p, q \in payloads : p.at = q.at => p = q

RunsInv ==
    /\ IsFiniteSet(runs)
    /\ \A r \in runs : /\ r.id \in 1..begun
                       /\ r.result = "SUCCESS"
                       /\ \E p \in payloads : p.window = r.key
    /\ \A r, q \in runs : r.id = q.id => r = q

\* The runs of a window, with those still to be inserted, are no more than the use cases.
CountInv ==
    \A w \in Windows :
        Cardinality(RunsOf(w)) + Cardinality(Beginning(w)) <= Cardinality(Jobs)

Phases(j) ==
    /\ pc[j] # "upserting" => left[j] = {} /\ mine[j] = NoBars
    /\ pc[j] \in {"fetching", "saving"} => kind[j] = "ingest"
    /\ pc[j] = "idle" => kind[j] # "ingest"
    /\ pc[j] # "idle" => kind[j] # "none" /\ outcome[j] = "none"
    /\ kind[j] = "ingest" => window[j] \in Windows

\* An ingest: its run, the provider's answer, and the rows it has upserted of it.
IngestInv(j) ==
    kind[j] = "ingest" =>
        /\ pc[j] # "start" => /\ run[j] \in 1..begun
                              /\ \A r \in runs : r.id = run[j] => r.key = window[j]
        /\ pc[j] \in {"saving", "upserting"} =>
              \A t \in Times : /\ fetched[j][t] # 0 => t \in window[j]
                               /\ fetched[j][t] <= provider[t]
        /\ pc[j] = "upserting" =>
              /\ received[j] \in 1..saved
              /\ \A p \in payloads : p.at # received[j]
              /\ \A row \in left[j] : row.rev = fetched[j][row.ts]
              /\ \A t \in Times :
                    \/ mine[j][t] = fetched[j][t]
                    \/ mine[j][t] = 0 /\ \E row \in left[j] : row.ts = t

\* A replay: what it has upserted and what is left are rows of the payloads it selects.
ReplayInv(j) ==
    kind[j] = "replay" /\ pc[j] = "upserting" =>
        /\ \A row \in left[j] : /\ row.rev # 0
                                /\ \E p \in Selected(j) : row.at = p.at /\ row.rev = p.data[row.ts]
        /\ \A t \in Times : mine[j][t] # 0 => \E p \in Selected(j) : p.data[t] = mine[j][t]

JobInv(j) == Phases(j) /\ IngestInv(j) /\ ReplayInv(j)

\* Two use cases share a run only when it is stored, and never a payload.
PairInv ==
    \A j, k \in Jobs : j # k =>
        /\ alone[j] => pc[k] = "idle"
        /\ kind[j] = "ingest" /\ kind[k] = "ingest" =>
              /\ pc[j] \in Begun /\ pc[k] \in Begun /\ run[j] = run[k] => \E r \in runs : r.id = run[j]
              /\ pc[j] = "upserting" /\ pc[k] = "upserting" => received[j] # received[k]

RowAt(p, t) == [at |-> p.at, ts |-> t, rev |-> p.data[t]]

\* A replay by itself has written nothing of a bar, or the revision of one payload:
\* the rows of the bar that are left are those received after it.
WrittenUpTo(j, t) ==
    \/ /\ mine[j][t] = 0
       /\ \A p \in Selected(j) : p.data[t] # 0 => RowAt(p, t) \in left[j]
    \/ \E q \in Selected(j) :
          /\ mine[j][t] # 0 /\ q.data[t] = mine[j][t]
          /\ \A p \in Selected(j) : p.data[t] # 0 => (RowAt(p, t) \in left[j] <=> q.at < p.at)

AloneInv(j) ==
    alone[j] =>
        /\ kind[j] = "ingest" /\ pc[j] \in {"saving", "upserting"} =>
              \A p \in payloads, t \in window[j] : p.data[t] <= fetched[j][t]
        /\ kind[j] = "replay" /\ pc[j] = "upserting" => \A t \in Times : WrittenUpTo(j, t)

\* A replay by itself of everything has left what was received last.
DoneInv(j) ==
    kind[j] = "replay" /\ window[j] = Times /\ outcome[j] = "ok" /\ alone[j] =>
        \A t \in Times :
            \/ bars[t] = 0 /\ \A p \in payloads : p.data[t] = 0
            \/ \E q \in payloads : /\ bars[t] # 0 /\ q.data[t] = bars[t]
                                   /\ \A p \in payloads : p.data[t] # 0 => p.at <= q.at

TablesInv == BarsInv /\ PayloadsInv /\ RunsInv /\ CountInv

IInv ==
    /\ TypeOK /\ TablesInv /\ PairInv
    /\ \A j \in Jobs : JobInv(j) /\ AloneInv(j) /\ DoneInv(j)

-----------------------------------------------------------------------------
(* Bars, rows and payloads.                                                *)

LEMMA Numbers ==
    /\ Revisions \subseteq Nat
    /\ NoBars \in Bars
    /\ \A b \in Bars, t \in Times : b[t] \in Nat
<1>1. \A t \in Times : MaxRev[t] \in Nat /\ 0 \in 0..MaxRev[t]
    BY MarketAssumption
<1>2. Revisions \subseteq Nat /\ \A t \in Times : 0 \in Revisions
    BY <1>1 DEF Revisions
<1> QED
    BY <1>2 DEF Bars, NoBars

\* A row of a payload says when it was received, its bar and the revision.
LEMMA RowsAre ==
    ASSUME NEW p, p.at \in Nat, p.data \in Bars
    PROVE  /\ Rows(p) \subseteq Row
           /\ \A row \in Rows(p) : /\ row.rev # 0
                                   /\ row.at = p.at
                                   /\ row.rev = p.data[row.ts]
           /\ \A t \in Times : p.data[t] # 0 => RowAt(p, t) \in Rows(p)
           /\ \A t \in Times : RowAt(p, t).ts = t
BY Numbers DEF Rows, Row, RowAt, Bars

\* The rows that come next are rows that are left, and no row is before them.
LEMMA NothingBefore ==
    ASSUME TypeOK, NEW j \in Jobs, NEW row \in Upcoming(j)
    PROVE  /\ row \in left[j] /\ row \in Row
           /\ row.at \in Nat /\ row.ts \in Times /\ row.rev \in Revisions
           /\ \A other \in left[j] : other.ts = row.ts => other = row \/ row.at < other.at
<1>1. row \in left[j] /\ left[j] \subseteq Row
    BY DEF Upcoming, TypeOK
<1>2. \A other \in left[j] \ {row} : Precedes(row, other)
    BY DEF Upcoming
<1>3. \A other \in Row : other.ts \in Nat
    BY MarketAssumption DEF Row
<1> QED
    BY <1>1, <1>2, <1>3 DEF Row, Precedes

-----------------------------------------------------------------------------
(* The initial states.                                                     *)

LEMMA InitTypes ==
    ASSUME Init
    PROVE  TypeOK
<1>1. \A t \in Times : 0 \in 0..MaxRev[t] /\ 1 \in 0..MaxRev[t]
    BY MarketAssumption
<1>2. provider \in Bars /\ bars \in Bars
    BY <1>1 DEF Init, Bars, Revisions
<1>3. calls \in 0..MaxCalls /\ calls \in Nat
    BY MarketAssumption DEF Init
<1>4. payloads \subseteq Payload /\ runs \subseteq Run
  <2>1. CASE Staged = {}
      BY <2>1 DEF Init
  <2>2. CASE Staged \in Windows
      BY <1>2, <2>2 DEF Init, Payload, Run
  <2> QED
      BY <2>1, <2>2, MarketAssumption
<1> QED
    BY <1>2, <1>3, <1>4, Numbers DEF Init, TypeOK

LEMMA InitTables ==
    ASSUME Init
    PROVE  TablesInv
<1>1. TypeOK
    BY InitTypes
<1>2. BarsInv
    BY DEF Init, BarsInv
<1>3. PayloadsInv
  <2>1. \A t \in Times : provider[t] \in Nat
      BY <1>1, Numbers DEF TypeOK
  <2>2. \/ payloads = {}
        \/ saved = 1 /\ payloads = {[window |-> Staged, at |-> 1, data |-> provider]}
    <3>1. CASE Staged = {}
        BY <3>1 DEF Init
    <3>2. CASE Staged # {}
        BY <3>2 DEF Init
    <3> QED
        BY <3>1, <3>2
  <2>3. \A p, q \in payloads : p.at = 1 /\ p.data = provider /\ saved = 1 /\ p = q
      BY <2>2
  <2> QED
      BY <2>1, <2>3 DEF PayloadsInv
<1>4. RunsInv
  <2>1. IsFiniteSet(runs)
      BY FS_EmptySet, FS_Singleton DEF Init
  <2>2. CASE Staged = {}
      BY <2>1, <2>2 DEF Init, RunsInv
  <2>3. CASE Staged # {}
    <3>1. /\ begun = 1
          /\ runs = {[key |-> Staged, id |-> 1, result |-> "SUCCESS"]}
          /\ payloads = {[window |-> Staged, at |-> 1, data |-> provider]}
        BY <2>3 DEF Init
    <3> QED
        BY <2>1, <3>1 DEF RunsInv
  <2> QED
      BY <2>2, <2>3
<1>5. CountInv
  <2> SUFFICES ASSUME NEW w \in Windows
               PROVE  Cardinality(RunsOf(w)) + Cardinality(Beginning(w)) <= Cardinality(Jobs)
      BY DEF CountInv
  <2>1. Beginning(w) = {}
      BY DEF Init, Beginning, Begun
  <2>2. RunsOf(w) = {} \/ \E r : RunsOf(w) = {r}
      BY DEF Init, RunsOf
  <2>3. Cardinality(RunsOf(w)) \in {0, 1}
      BY <2>2, FS_EmptySet, FS_Singleton
  <2>4. Cardinality(Jobs) \in Nat /\ Cardinality(Jobs) # 0
      BY MarketAssumption, FS_CardinalityType, FS_EmptySet
  <2> QED
      BY <2>1, <2>3, <2>4, FS_EmptySet
<1> QED
    BY <1>2, <1>3, <1>4, <1>5 DEF TablesInv

LEMMA InitInv ==
    ASSUME Init
    PROVE  IInv
<1>1. PairInv
    BY DEF Init, PairInv, Begun
<1>2. \A j \in Jobs : JobInv(j) /\ AloneInv(j) /\ DoneInv(j)
    BY DEF Init, JobInv, Phases, IngestInv, ReplayInv, AloneInv, DoneInv
<1> QED
    BY <1>1, <1>2, InitTypes, InitTables DEF IInv

-----------------------------------------------------------------------------
(* What a step of one use case leaves of the others.                       *)

\* The locals of a use case are as they were.
Same(k) ==
    /\ kind'[k] = kind[k] /\ window'[k] = window[k] /\ pc'[k] = pc[k]
    /\ run'[k] = run[k] /\ fetched'[k] = fetched[k] /\ received'[k] = received[k]
    /\ left'[k] = left[k] /\ mine'[k] = mine[k] /\ outcome'[k] = outcome[k]

\* The clocks go on, the provider's revisions and the payloads are kept.
Grows ==
    /\ \A t \in Times : provider[t] <= provider'[t]
    /\ begun <= begun' /\ saved <= saved'
    /\ payloads \subseteq payloads'

LEMMA KeptJob ==
    ASSUME TypeOK, TypeOK', NEW k \in Jobs, JobInv(k), Same(k), Grows,
           kind[k] = "ingest" /\ pc[k] # "start" =>
               \A r \in runs' : r.id = run[k] => r.key = window[k],
           kind[k] = "ingest" /\ pc[k] = "upserting" =>
               \A p \in payloads' : p.at # received[k]
    PROVE  JobInv(k)'
<1>1. Phases(k)'
    BY DEF JobInv, Phases, Same
<1>2. IngestInv(k)'
  <2> SUFFICES ASSUME kind[k] = "ingest"
               PROVE  IngestInv(k)'
      BY DEF Same, IngestInv
  <2>1. begun \in Nat /\ begun' \in Nat /\ saved \in Nat /\ saved' \in Nat
      BY DEF TypeOK
  <2>2. \A t \in Times : provider[t] \in Nat /\ provider'[t] \in Nat /\ fetched[k][t] \in Nat
      BY Numbers DEF TypeOK, Bars
  <2>3. pc[k] # "start" => run[k] \in 1..begun'
      BY <2>1 DEF JobInv, IngestInv, Grows
  <2>4. pc[k] = "upserting" => received[k] \in 1..saved'
      BY <2>1 DEF JobInv, IngestInv, Grows
  <2>5. pc[k] \in {"saving", "upserting"} =>
            \A t \in Times : /\ fetched[k][t] # 0 => t \in window[k]
                             /\ fetched[k][t] <= provider'[t]
      BY <2>2 DEF JobInv, IngestInv, Grows
  <2> QED
      BY <2>3, <2>4, <2>5 DEF JobInv, IngestInv, Same
<1>3. ReplayInv(k)'
  <2>1. Selected(k) \subseteq Selected(k)'
      BY DEF Selected, Same, Grows
  <2> QED
      BY <2>1 DEF JobInv, ReplayInv, Same
<1> QED
    BY <1>1, <1>2, <1>3 DEF JobInv

\* Where the runs are as they were, fewer use cases are to insert one, or there was none.
LEMMA KeptCount ==
    ASSUME RunsInv, CountInv, runs' = runs,
           \A w \in Windows : Beginning(w)' \subseteq Beginning(w) \/ RunsOf(w) = {}
    PROVE  CountInv'
<1> SUFFICES ASSUME NEW w \in Windows
             PROVE  Cardinality(RunsOf(w)') + Cardinality(Beginning(w)') <= Cardinality(Jobs)
    BY DEF CountInv
<1>1. RunsOf(w)' = RunsOf(w)
    BY DEF RunsOf
<1>2. /\ IsFiniteSet(RunsOf(w)) /\ IsFiniteSet(Jobs)
      /\ Beginning(w) \subseteq Jobs /\ Beginning(w)' \subseteq Jobs
    BY MarketAssumption, FS_Subset DEF RunsInv, RunsOf, Beginning
<1>3. IsFiniteSet(Beginning(w)) /\ Cardinality(Beginning(w)) \in Nat
    BY <1>2, FS_Subset, FS_CardinalityType
<1>4. Cardinality(Beginning(w)') \in Nat /\ Cardinality(Beginning(w)') <= Cardinality(Jobs)
    BY <1>2, FS_Subset, FS_CardinalityType
<1>5. Cardinality(RunsOf(w)) \in Nat /\ Cardinality(Jobs) \in Nat
    BY <1>2, FS_CardinalityType
<1>6. CASE RunsOf(w) = {}
    BY <1>1, <1>4, <1>5, <1>6, FS_EmptySet
<1>7. CASE Beginning(w)' \subseteq Beginning(w)
  <2>1. Cardinality(Beginning(w)') <= Cardinality(Beginning(w))
      BY <1>3, <1>7, FS_Subset
  <2>2. Cardinality(RunsOf(w)) + Cardinality(Beginning(w)) <= Cardinality(Jobs)
      BY DEF CountInv
  <2> QED
      BY <1>1, <1>3, <1>4, <1>5, <2>1, <2>2
<1> QED
    BY <1>6, <1>7

\* A step within the transaction of one use case.
LEMMA LocalStep ==
    ASSUME IInv, TypeOK', NEW j \in Jobs, pc[j] # "idle",
           tables' = tables, Grows,
           \A k \in Jobs \ {j} : Same(k) /\ alone'[k] = alone[k],
           alone'[j] => alone[j],
           kind'[j] = "ingest" => kind[j] = "ingest" /\ window'[j] = window[j],
           kind'[j] = "ingest" /\ pc'[j] \in Begun =>
               \/ pc[j] \in Begun /\ run'[j] = run[j]
               \/ begun < run'[j] /\ RunsOf(window[j]) = {}
               \/ \E r \in runs : r.id = run'[j],
           kind'[j] = "ingest" /\ pc'[j] = "upserting" =>
               \/ pc[j] = "upserting" /\ received'[j] = received[j]
               \/ saved < received'[j],
           JobInv(j)', AloneInv(j)', DoneInv(j)'
    PROVE  IInv'
<1> USE DEF tables
<1>1. TablesInv'
  <2>1. BarsInv'
      BY DEF IInv, TablesInv, BarsInv
  <2>2. PayloadsInv'
    <3>1. /\ saved \in Nat /\ saved' \in Nat
          /\ \A t \in Times : provider[t] \in Nat /\ provider'[t] \in Nat
          /\ \A q \in payloads, t \in Times : q.data[t] \in Nat
        BY Numbers DEF IInv, TypeOK, Payload
    <3> QED
        BY <3>1 DEF IInv, TablesInv, PayloadsInv, Grows
  <2>3. RunsInv'
    <3>1. begun \in Nat /\ begun' \in Nat
        BY DEF IInv, TypeOK
    <3> QED
        BY <3>1 DEF IInv, TablesInv, RunsInv, Grows
  <2>4. \A w \in Windows : Beginning(w)' \subseteq Beginning(w) \/ RunsOf(w) = {}
      BY DEF Beginning, Same
  <2>5. CountInv'
      BY <2>4, KeptCount DEF IInv, TablesInv
  <2> QED
      BY <2>1, <2>2, <2>3, <2>5 DEF TablesInv
<1>2. \A k \in Jobs \ {j} : ~alone[k]
    BY DEF IInv, PairInv
<1>3. PairInv'
  <2> SUFFICES ASSUME NEW k \in Jobs, NEW l \in Jobs, k # l
               PROVE  /\ alone'[k] => pc'[l] = "idle"
                      /\ kind'[k] = "ingest" /\ kind'[l] = "ingest" =>
                            /\ /\ pc'[k] \in Begun /\ pc'[l] \in Begun /\ run'[k] = run'[l]
                               => \E r \in runs' : r.id = run'[k]
                            /\ /\ pc'[k] = "upserting" /\ pc'[l] = "upserting"
                               => received'[k] # received'[l]
      BY DEF PairInv
  <2>1. alone'[k] => pc'[l] = "idle"
      BY <1>2 DEF IInv, PairInv, Same
  <2>2. \A h \in Jobs : kind[h] = "ingest" =>
            /\ pc[h] \in Begun => run[h] \in Nat /\ run[h] <= begun
            /\ pc[h] = "upserting" => received[h] \in Nat /\ received[h] <= saved
      BY DEF IInv, JobInv, IngestInv, Begun, TypeOK
  <2>3. begun \in Nat /\ saved \in Nat /\ run'[j] \in Nat /\ received'[j] \in Nat
      BY DEF IInv, TypeOK
  <2>4. CASE k # j /\ l # j
      BY <2>1, <2>4 DEF IInv, PairInv, Same
  <2>5. CASE k = j \/ l = j
    <3>1. PICK h \in Jobs \ {j} : {k, l} = {j, h}
        BY <2>5
    <3>2. kind'[j] = "ingest" /\ kind[h] = "ingest" /\ pc'[j] \in Begun /\ pc[h] \in Begun
          /\ run'[j] = run[h] => \E r \in runs : r.id = run[h]
        BY <2>2, <2>3 DEF IInv, PairInv
    <3>3. kind'[j] = "ingest" /\ kind[h] = "ingest" /\ pc'[j] = "upserting" /\ pc[h] = "upserting"
          => received'[j] # received[h]
        BY <2>2, <2>3 DEF IInv, PairInv
    <3>4. kind'[h] = kind[h] /\ pc'[h] = pc[h] /\ run'[h] = run[h] /\ received'[h] = received[h]
        BY DEF Same
    <3> QED
        BY <2>1, <3>1, <3>2, <3>3, <3>4
  <2> QED
      BY <2>4, <2>5
<1>4. \A k \in Jobs \ {j} : JobInv(k)'
    BY KeptJob DEF IInv, JobInv, IngestInv
<1>5. \A k \in Jobs \ {j} : AloneInv(k)' /\ DoneInv(k)'
    BY <1>2 DEF AloneInv, DoneInv
<1> QED
    BY <1>1, <1>3, <1>4, <1>5 DEF IInv

-----------------------------------------------------------------------------
(* The steps of a use case.                                                *)

LEMMA StartRunStep ==
    ASSUME IInv, NEW j \in Jobs, StartRun(j)
    PROVE  IInv'
<1> USE DEF tables, request
<1>1. TypeOK'
    BY DEF IInv, TypeOK, StartRun, NewRun, Set, RunsOf, Run
<1>2. /\ pc[j] = "start" /\ pc'[j] = "fetching" /\ kind[j] = "ingest"
      /\ \A k \in Jobs \ {j} : Same(k) /\ alone'[k] = alone[k]
    BY DEF IInv, TypeOK, StartRun, NewRun, Set, Same
<1>3. \/ run'[j] = begun + 1 /\ begun' = begun + 1 /\ RunsOf(window[j]) = {}
      \/ begun' = begun /\ \E r \in RunsOf(window[j]) : run'[j] = r.id
    BY DEF IInv, TypeOK, StartRun, NewRun, Set
<1>4. begun \in Nat /\ \A r \in runs : r.id \in 1..begun
    BY DEF IInv, TypeOK, TablesInv, RunsInv
<1>5. /\ begun < run'[j] /\ RunsOf(window[j]) = {} /\ \A r \in runs : r.id # run'[j]
      \/ \E r \in runs : r.id = run'[j] /\ r.key = window[j]
    BY <1>3, <1>4 DEF RunsOf
<1>6. Grows
    BY <1>3, <1>4, Numbers DEF StartRun, Grows, IInv, TypeOK
<1>7. JobInv(j)'
  <2>1. Phases(j)'
      BY <1>2 DEF IInv, JobInv, Phases, StartRun
  <2>2. run'[j] \in 1..begun' /\ \A r \in runs' : r.id = run'[j] => r.key = window'[j]
    <3>1. \A r, q \in runs : r.id = q.id => r = q
        BY DEF IInv, TablesInv, RunsInv
    <3> QED
        BY <1>3, <1>4, <1>5, <3>1 DEF StartRun, RunsOf
  <2> QED
      BY <1>2, <2>1, <2>2 DEF JobInv, IngestInv, ReplayInv
<1>8. AloneInv(j)' /\ DoneInv(j)'
    BY <1>2 DEF AloneInv, DoneInv, StartRun
<1> QED
    BY <1>1, <1>2, <1>5, <1>6, <1>7, <1>8, LocalStep DEF StartRun

LEMMA ProviderAnswersStep ==
    ASSUME IInv, NEW j \in Jobs, ProviderAnswers(j)
    PROVE  IInv'
<1> USE DEF tables, request
<1>0. \A t \in Times : provider[t] \in Revisions /\ 0 \in Revisions /\ provider[t] \in Nat
    BY Numbers DEF IInv, TypeOK, Bars, NoBars
<1>1. TypeOK'
    BY <1>0 DEF IInv, TypeOK, ProviderAnswers, Set, Bars
<1>2. /\ pc[j] = "fetching" /\ pc'[j] = "saving" /\ kind[j] = "ingest"
      /\ \A k \in Jobs \ {j} : Same(k) /\ alone'[k] = alone[k]
    BY DEF IInv, TypeOK, ProviderAnswers, Set, Same, JobInv, Phases
<1>3. Grows
    BY <1>0 DEF ProviderAnswers, Grows, IInv, TypeOK
<1>4. \A t \in Times : fetched'[j][t] = IF t \in window[j] THEN provider[t] ELSE 0
    BY DEF IInv, TypeOK, ProviderAnswers, Set
<1>5. JobInv(j)'
  <2>1. Phases(j)'
      BY <1>2 DEF IInv, JobInv, Phases, ProviderAnswers
  <2>2. IngestInv(j)'
      BY <1>0, <1>2, <1>4 DEF IInv, JobInv, IngestInv, ProviderAnswers
  <2> QED
      BY <1>2, <2>1, <2>2 DEF JobInv, ReplayInv
<1>6. AloneInv(j)' /\ DoneInv(j)'
  <2>1. \A q \in payloads, t \in Times : q.data[t] <= provider[t]
      BY DEF IInv, TablesInv, PayloadsInv
  <2>2. window[j] \subseteq Times
      BY MarketAssumption DEF IInv, TypeOK
  <2> QED
      BY <1>2, <1>4, <2>1, <2>2 DEF AloneInv, DoneInv, ProviderAnswers
<1> QED
    BY <1>1, <1>2, <1>3, <1>5, <1>6, LocalStep DEF ProviderAnswers, Begun

LEMMA SavePayloadStep ==
    ASSUME IInv, NEW j \in Jobs, SavePayload(j)
    PROVE  IInv'
<1> USE DEF tables, request
<1> DEFINE p == [at |-> saved', data |-> fetched[j]]
<1>0. p.at \in Nat /\ p.data \in Bars /\ p.data = fetched[j] /\ p.at = saved + 1 /\ saved \in Nat
    BY DEF IInv, TypeOK, SavePayload
<1>r. /\ Rows(p) \subseteq Row
      /\ \A row \in Rows(p) : row.rev = p.data[row.ts]
      /\ \A t \in Times : p.data[t] # 0 => RowAt(p, t) \in Rows(p) /\ RowAt(p, t).ts = t
  <2> HIDE DEF p
  <2> QED
      BY <1>0, RowsAre
<1> HIDE DEF p
<1>1. left' = Set(left, j, Rows(p)) /\ received' = Set(received, j, saved') /\ saved' = saved + 1
    BY DEF SavePayload, p
<1>2. TypeOK'
    BY <1>0, <1>r, <1>1 DEF IInv, TypeOK, SavePayload, Set
<1>3. /\ pc[j] = "saving" /\ pc'[j] = "upserting" /\ kind[j] = "ingest"
      /\ left'[j] = Rows(p) /\ received'[j] = saved + 1
      /\ \A k \in Jobs \ {j} : Same(k) /\ alone'[k] = alone[k]
  <2>1. pc[j] = "saving" /\ pc'[j] = "upserting" /\ kind[j] = "ingest"
      BY DEF IInv, TypeOK, SavePayload, Set, JobInv, Phases
  <2>2. left'[j] = Rows(p) /\ received'[j] = saved + 1
      BY <1>1 DEF IInv, TypeOK, Set
  <2>3. \A k \in Jobs \ {j} : Same(k) /\ alone'[k] = alone[k]
      BY <1>1 DEF IInv, TypeOK, SavePayload, Set, Same
  <2> QED
      BY <2>1, <2>2, <2>3
<1>4. Grows
    BY <1>0, <1>1, Numbers DEF SavePayload, Grows, IInv, TypeOK
<1>5. JobInv(j)'
  <2>1. Phases(j)'
      BY <1>3 DEF IInv, JobInv, Phases, SavePayload
  <2>2. \A q \in payloads : q.at \in 1..saved
      BY DEF IInv, TablesInv, PayloadsInv
  <2>3. /\ received'[j] \in 1..saved'
        /\ \A q \in payloads' : q.at # received'[j]
      BY <1>0, <1>1, <1>3, <2>2 DEF SavePayload
  <2>4. \A t \in Times : mine[j][t] = 0
      BY <1>3 DEF IInv, JobInv, Phases, NoBars
  <2>5. \A t \in Times : fetched[j][t] = 0 \/ \E row \in left'[j] : row.ts = t
      BY <1>0, <1>r, <1>3
  <2>6. IngestInv(j)'
      BY <1>0, <1>r, <1>3, <2>3, <2>4, <2>5 DEF IInv, JobInv, IngestInv, SavePayload
  <2> QED
      BY <1>3, <2>1, <2>6 DEF JobInv, ReplayInv, SavePayload
<1>6. AloneInv(j)' /\ DoneInv(j)'
    BY <1>3 DEF IInv, AloneInv, DoneInv, SavePayload
<1> QED
    BY <1>0, <1>2, <1>3, <1>4, <1>5, <1>6, LocalStep DEF SavePayload, Begun

\* What a row of the payloads a replay selects says is told by its payload and its bar.
LEMMA RowOfPayload ==
    ASSUME TypeOK, PayloadsInv, NEW row \in Row, NEW q \in payloads,
           row.at = q.at, row.rev = q.data[row.ts]
    PROVE  /\ row = RowAt(q, row.ts)
           /\ \A p \in payloads, t \in Times : row = RowAt(p, t) => p = q /\ t = row.ts
<1>1. row = RowAt(q, row.ts)
    BY DEF Row, RowAt
<1>2. \A p, t : RowAt(p, t).at = p.at /\ RowAt(p, t).ts = t
    BY DEF RowAt
<1>3. \A p \in payloads : p.at = q.at => p = q
    BY DEF PayloadsInv
<1> QED
    BY <1>1, <1>2, <1>3

LEMMA UpsertBarStep ==
    ASSUME IInv, NEW j \in Jobs, UpsertBar(j)
    PROVE  IInv'
<1> USE DEF tables, request
<1>1. PICK row \in Upcoming(j) :
        /\ mine' = Set(mine, j, [mine[j] EXCEPT ![row.ts] = row.rev])
        /\ left' = Set(left, j, left[j] \ {row})
    BY DEF UpsertBar
<1>2. /\ row \in left[j] /\ row \in Row
      /\ row.at \in Nat /\ row.ts \in Times /\ row.rev \in Revisions
      /\ \A other \in left[j] : other.ts = row.ts => other = row \/ row.at < other.at
    BY <1>1, NothingBefore DEF IInv
<1>3. /\ left'[j] = left[j] \ {row}
      /\ mine'[j] \in Bars
      /\ mine'[j][row.ts] = row.rev
      /\ \A t \in Times \ {row.ts} : mine'[j][t] = mine[j][t]
  <2>1. left'[j] = left[j] \ {row} /\ mine'[j] = [mine[j] EXCEPT ![row.ts] = row.rev]
      BY <1>1 DEF IInv, TypeOK, Set
  <2>2. mine[j] \in Bars
      BY DEF IInv, TypeOK
  <2> QED
      BY <1>2, <2>1, <2>2 DEF Bars
<1>4. TypeOK'
    BY <1>1, <1>2, <1>3 DEF IInv, TypeOK, UpsertBar, Set
<1>5. /\ pc[j] = "upserting" /\ pc' = pc /\ kind' = kind /\ run' = run /\ received' = received
      /\ window' = window /\ alone' = alone /\ fetched' = fetched /\ outcome' = outcome
      /\ provider' = provider /\ begun' = begun /\ saved' = saved /\ tables' = tables
      /\ \A k \in Jobs \ {j} : Same(k) /\ alone'[k] = alone[k]
    BY <1>1 DEF IInv, TypeOK, UpsertBar, Set, Same
<1>6. Grows
    BY <1>5, Numbers DEF Grows, IInv, TypeOK
<1>7. JobInv(j)'
  <2>1. Phases(j)'
      BY <1>5 DEF IInv, JobInv, Phases
  <2>2. IngestInv(j)'
    <3> SUFFICES ASSUME kind[j] = "ingest"
                 PROVE  IngestInv(j)'
        BY <1>5 DEF IngestInv
    <3>1. row.rev = fetched[j][row.ts]
        BY <1>2, <1>5 DEF IInv, JobInv, IngestInv
    <3>2. \A t \in Times : \/ mine'[j][t] = fetched[j][t]
                           \/ mine'[j][t] = 0 /\ \E other \in left'[j] : other.ts = t
        BY <1>2, <1>3, <1>5, <3>1 DEF IInv, JobInv, IngestInv
    <3> QED
        BY <1>3, <1>5, <3>2 DEF IInv, JobInv, IngestInv
  <2>3. ReplayInv(j)'
    <3>1. Selected(j)' = Selected(j)
        BY <1>5 DEF Selected
    <3> QED
        BY <1>2, <1>3, <1>5, <3>1 DEF IInv, JobInv, ReplayInv
  <2> QED
      BY <2>1, <2>2, <2>3 DEF JobInv
<1>8. AloneInv(j)'
  <2> SUFFICES ASSUME alone[j], kind[j] = "replay", NEW t \in Times
               PROVE  WrittenUpTo(j, t)'
      BY <1>5 DEF IInv, AloneInv
  <2>1. WrittenUpTo(j, t)
      BY <1>5 DEF IInv, AloneInv
  <2>2. Selected(j)' = Selected(j) /\ Selected(j) \subseteq payloads
      BY <1>5 DEF Selected
  <2>3. PICK q \in Selected(j) : row.rev # 0 /\ row.at = q.at /\ row.rev = q.data[row.ts]
      BY <1>2, <1>5 DEF IInv, JobInv, ReplayInv
  <2>4. /\ row = RowAt(q, row.ts)
        /\ \A p \in payloads, u \in Times : row = RowAt(p, u) => p = q /\ u = row.ts
      BY <1>2, <2>2, <2>3, RowOfPayload DEF IInv, TablesInv
  <2>5. CASE t # row.ts
    <3>1. \A p \in Selected(j) : RowAt(p, t) \in left'[j] <=> RowAt(p, t) \in left[j]
        BY <1>3, <2>2, <2>4, <2>5
    <3> QED
        BY <1>3, <2>1, <2>2, <2>5, <3>1 DEF WrittenUpTo
  <2>6. CASE t = row.ts
    <3>1. mine'[j][t] # 0 /\ q.data[t] = mine'[j][t]
        BY <1>3, <2>3, <2>6
    <3>2. \A p \in Selected(j) : p.at \in Nat
        BY <2>2 DEF IInv, TypeOK, Payload
    <3>3. \A p \in Selected(j) : RowAt(p, t) \in left[j] => p = q \/ q.at < p.at
      <4>1. \A p : RowAt(p, t).ts = t /\ RowAt(p, t).at = p.at
          BY DEF RowAt
      <4> QED
          BY <1>2, <2>2, <2>3, <2>4, <2>6, <4>1
    <3>4. \A p \in Selected(j) : p.data[t] # 0 /\ q.at < p.at => RowAt(p, t) \in left[j]
        BY <1>2, <2>1, <2>3, <2>4, <2>6, <3>2 DEF WrittenUpTo
    <3>5. \A p \in Selected(j) : p.data[t] # 0 => (RowAt(p, t) \in left'[j] <=> q.at < p.at)
        BY <1>3, <2>2, <2>3, <2>4, <2>6, <3>2, <3>3, <3>4
    <3> QED
        BY <2>2, <3>1, <3>5 DEF WrittenUpTo
  <2> QED
      BY <2>5, <2>6
<1>9. DoneInv(j)'
    BY <1>5 DEF IInv, JobInv, Phases, DoneInv
<1> QED
    BY <1>4, <1>5, <1>6, <1>7, <1>8, <1>9, LocalStep

LEMMA ReadPayloadsStep ==
    ASSUME IInv, NEW j \in Jobs, ReadPayloads(j)
    PROVE  IInv'
<1> USE DEF tables, request
<1>1. \A p \in payloads :
        /\ Rows(p) \subseteq Row
        /\ \A row \in Rows(p) : row.rev # 0 /\ row.at = p.at /\ row.rev = p.data[row.ts]
        /\ \A t \in Times : p.data[t] # 0 => RowAt(p, t) \in Rows(p)
  <2> SUFFICES ASSUME NEW p \in payloads
               PROVE  /\ Rows(p) \subseteq Row
                      /\ \A row \in Rows(p) : row.rev # 0 /\ row.at = p.at /\ row.rev = p.data[row.ts]
                      /\ \A t \in Times : p.data[t] # 0 => RowAt(p, t) \in Rows(p)
      OBVIOUS
  <2>1. p.at \in Nat /\ p.data \in Bars
      BY DEF IInv, TypeOK, Payload
  <2> QED
      BY <2>1, RowsAre
<1>2. Selected(j) \subseteq payloads /\ Selected(j)' = Selected(j)
    BY DEF Selected, ReadPayloads
<1>3. TypeOK'
    BY <1>1, <1>2 DEF IInv, TypeOK, ReadPayloads, Set
<1>4. /\ pc[j] = "start" /\ pc'[j] = "upserting" /\ kind[j] = "replay"
      /\ \A k \in Jobs \ {j} : Same(k) /\ alone'[k] = alone[k]
    BY DEF IInv, TypeOK, ReadPayloads, Set, Same
<1>5. left'[j] = UNION {Rows(p) : p \in Selected(j)}
    BY DEF IInv, TypeOK, ReadPayloads, Set
<1>6. Grows
    BY Numbers DEF ReadPayloads, Grows, IInv, TypeOK
<1>7. mine'[j] = mine[j] /\ \A t \in Times : mine[j][t] = 0
    BY <1>4 DEF IInv, JobInv, Phases, ReadPayloads, NoBars
<1>8. JobInv(j)'
  <2>1. Phases(j)'
      BY <1>4 DEF IInv, JobInv, Phases, ReadPayloads
  <2>2. IngestInv(j)'
      BY <1>4 DEF IngestInv, ReadPayloads
  <2>3. ReplayInv(j)'
      BY <1>1, <1>2, <1>5, <1>7 DEF ReplayInv
  <2> QED
      BY <2>1, <2>2, <2>3 DEF JobInv
<1>9. AloneInv(j)'
  <2>1. \A t \in Times : WrittenUpTo(j, t)'
      BY <1>1, <1>2, <1>5, <1>7 DEF WrittenUpTo
  <2> QED
      BY <1>4, <2>1 DEF AloneInv, ReadPayloads
<1>10. DoneInv(j)'
    BY <1>4 DEF IInv, JobInv, Phases, DoneInv, ReadPayloads
<1> QED
    BY <1>3, <1>4, <1>6, <1>8, <1>9, <1>10, LocalStep DEF ReadPayloads

\* What the end of a use case sets.
LEMMA Ended ==
    ASSUME TypeOK, NEW j \in Jobs, NEW how \in {"ok", "failed"}, End(j, how)
    PROVE  /\ pc'[j] = "idle" /\ left'[j] = {} /\ mine'[j] = NoBars /\ outcome'[j] = how
           /\ \/ kind'[j] = "none" /\ ~alone'[j]
              \/ kind[j] = "replay" /\ how = "ok" /\ UNCHANGED request
           /\ \A k \in Jobs \ {j} : Same(k) /\ alone'[k] = alone[k]
           /\ kind' \in [Jobs -> {"none", "ingest", "replay"}]
           /\ window' \in [Jobs -> Windows \cup {Times}]
           /\ pc' \in [Jobs -> {"idle", "start", "fetching", "saving", "upserting"}]
           /\ run' \in [Jobs -> Nat]
           /\ fetched' \in [Jobs -> Bars]
           /\ received' \in [Jobs -> Nat]
           /\ left' \in [Jobs -> SUBSET Row]
           /\ mine' \in [Jobs -> Bars]
           /\ outcome' \in [Jobs -> {"none", "ok", "failed"}]
           /\ alone' \in [Jobs -> BOOLEAN]
<1> USE DEF request
<1>1. NoBars \in Bars
    BY Numbers
<1>2. CASE kind[j] = "replay" /\ how = "ok"
    BY <1>1, <1>2 DEF TypeOK, End, Set, Same
<1>3. CASE ~(kind[j] = "replay" /\ how = "ok")
    BY <1>1, <1>3 DEF TypeOK, End, Set, Same
<1> QED
    BY <1>2, <1>3

LEMMA FailStep ==
    ASSUME IInv, NEW j \in Jobs, IngestError(j) \/ Abort(j) \/ Crash(j)
    PROVE  IInv'
<1>1. /\ pc[j] # "idle" /\ End(j, "failed")
      /\ UNCHANGED <<provider, tables, calls, begun, saved>>
  <2>1. CASE Abort(j)
    <3>1. left[j] # {}
        BY <2>1 DEF Abort, InCycle, Upcoming
    <3>2. pc[j] = "upserting"
        BY <3>1 DEF IInv, JobInv, Phases
    <3> QED
        BY <2>1, <3>2 DEF Abort
  <2> QED
      BY <2>1 DEF IngestError, Crash
<1>2. /\ pc'[j] = "idle" /\ left'[j] = {} /\ mine'[j] = NoBars /\ outcome'[j] = "failed"
      /\ kind'[j] = "none" /\ ~alone'[j]
      /\ \A k \in Jobs \ {j} : Same(k) /\ alone'[k] = alone[k]
    BY <1>1, Ended DEF IInv
<1>3. TypeOK'
    BY <1>1, Ended DEF IInv, TypeOK, tables
<1>4. Grows
    BY <1>1, Numbers DEF Grows, IInv, TypeOK, tables
<1>5. JobInv(j)' /\ AloneInv(j)' /\ DoneInv(j)'
    BY <1>2 DEF JobInv, Phases, IngestInv, ReplayInv, AloneInv, DoneInv
<1> QED
    BY <1>1, <1>2, <1>3, <1>4, <1>5, LocalStep

\* An ingest that has upserted every row has written the provider's answer.
LEMMA IngestWritten ==
    ASSUME IInv, NEW j \in Jobs, CommitIngest(j)
    PROVE  /\ mine[j] = fetched[j]
           /\ \A t \in Times : bars'[t] = IF fetched[j][t] # 0 THEN fetched[j][t] ELSE bars[t]
<1>1. pc[j] = "upserting" /\ kind[j] = "ingest" /\ left[j] = {} /\ bars' = Written(j)
    BY DEF CommitIngest
<1>2. \A t \in Times : mine[j][t] = fetched[j][t]
    BY <1>1 DEF IInv, JobInv, IngestInv
<1>3. mine[j] \in Bars /\ fetched[j] \in Bars
    BY DEF IInv, TypeOK
<1> QED
    BY <1>1, <1>2, <1>3 DEF Bars, Written

\* The run of an ingest is one of the stored runs, or is inserted with the commit.
LEMMA IngestRuns ==
    ASSUME IInv, NEW j \in Jobs, CommitIngest(j),
           NEW new, new = [key |-> window[j], id |-> run[j], result |-> "SUCCESS"]
    PROVE  /\ new \in Run
           /\ runs' = runs \cup {new}
           /\ new \in runs \/ \A r \in runs : r.id # run[j]
<1>1. pc[j] = "upserting" /\ kind[j] = "ingest"
      /\ runs' = {r \in runs : r.id # run[j]} \cup {new}
    BY DEF CommitIngest
<1>2. new \in Run
    BY <1>1 DEF IInv, TypeOK, JobInv, Phases, Run
<1>3. \A r \in runs : r.id = run[j] => r = new
  <2>1. \A r \in runs : r.id = run[j] => r.key = window[j] /\ r.result = "SUCCESS" /\ r \in Run
      BY <1>1 DEF IInv, TypeOK, JobInv, IngestInv, TablesInv, RunsInv
  <2> QED
      BY <2>1 DEF Run
<1>4. new.id = run[j]
    OBVIOUS
<1> QED
    BY <1>1, <1>2, <1>3, <1>4

LEMMA CommitIngestTables ==
    ASSUME IInv, NEW j \in Jobs, CommitIngest(j)
    PROVE  TablesInv'
<1> DEFINE new     == [key |-> window[j], id |-> run[j], result |-> "SUCCESS"]
           payload == [window |-> window[j], at |-> received[j], data |-> fetched[j]]
<1>1. /\ pc[j] = "upserting" /\ kind[j] = "ingest" /\ left[j] = {}
      /\ payloads' = payloads \cup {payload}
      /\ provider' = provider /\ begun' = begun /\ saved' = saved
    BY DEF CommitIngest
<1>2. /\ window[j] \in Windows
      /\ run[j] \in 1..begun /\ received[j] \in 1..saved
      /\ \A p \in payloads : p.at # received[j]
      /\ \A t \in Times : fetched[j][t] <= provider[t]
    BY <1>1 DEF IInv, JobInv, Phases, IngestInv
<1>3. BarsInv'
  <2> SUFFICES ASSUME NEW t \in Times, bars'[t] # 0
               PROVE  \E p \in payloads' : p.data[t] = bars'[t]
      BY DEF BarsInv
  <2>1. payload \in payloads' /\ payload.data = fetched[j]
      BY <1>1
  <2>2. CASE fetched[j][t] # 0
      BY <2>1, <2>2, IngestWritten
  <2>3. CASE fetched[j][t] = 0
    <3>1. bars'[t] = bars[t]
        BY <2>3, IngestWritten
    <3> QED
        BY <1>1, <3>1 DEF IInv, TablesInv, BarsInv
  <2> QED
      BY <2>2, <2>3
<1>4. PayloadsInv'
    BY <1>1, <1>2 DEF IInv, TablesInv, PayloadsInv
<1>5. /\ runs' = runs \cup {new}
      /\ new \in runs \/ \A r \in runs : r.id # run[j]
    BY IngestRuns
<1>6. RunsInv'
  <2>1. IsFiniteSet(runs')
      BY <1>5, FS_AddElement DEF IInv, TablesInv, RunsInv
  <2>2. /\ new.id = run[j] /\ new.key = window[j] /\ new.result = "SUCCESS"
        /\ payload \in payloads' /\ payload.window = window[j]
      BY <1>1
  <2>3. \A r \in runs' : r.id \in 1..begun' /\ r.result = "SUCCESS"
      BY <1>1, <1>2, <1>5, <2>2 DEF IInv, TablesInv, RunsInv
  <2>4. \A r \in runs' : \E p \in payloads' : p.window = r.key
    <3>1. \A r \in runs : \E p \in payloads : p.window = r.key
        BY DEF IInv, TablesInv, RunsInv
    <3> QED
        BY <1>1, <1>5, <2>2, <3>1
  <2>5. \A r, q \in runs' : r.id = q.id => r = q
    <3>1. \A r, q \in runs : r.id = q.id => r = q
        BY DEF IInv, TablesInv, RunsInv
    <3> QED
        BY <1>5, <2>2, <3>1
  <2> QED
      BY <2>1, <2>3, <2>4, <2>5 DEF RunsInv
<1>7. /\ pc'[j] = "idle"
      /\ \A k \in Jobs \ {j} : Same(k)
    BY Ended DEF IInv, CommitIngest
<1>8. CountInv'
  <2> SUFFICES ASSUME NEW w \in Windows
               PROVE  Cardinality(RunsOf(w)') + Cardinality(Beginning(w)') <= Cardinality(Jobs)
      BY DEF CountInv
  <2>1. Beginning(w)' \subseteq Beginning(w) /\ j \notin Beginning(w)'
      BY <1>5, <1>7 DEF Beginning, Same, Begun
  <2>2. /\ IsFiniteSet(RunsOf(w)) /\ IsFiniteSet(Beginning(w)) /\ IsFiniteSet(Jobs)
      BY MarketAssumption, FS_Subset DEF IInv, TablesInv, RunsInv, RunsOf, Beginning
  <2>3. /\ Cardinality(Beginning(w)') <= Cardinality(Beginning(w))
        /\ Cardinality(Beginning(w)') \in Nat /\ Cardinality(Beginning(w)) \in Nat
        /\ Cardinality(RunsOf(w)) \in Nat /\ Cardinality(Jobs) \in Nat
      BY <2>1, <2>2, FS_Subset, FS_CardinalityType
  <2>4. Cardinality(RunsOf(w)) + Cardinality(Beginning(w)) <= Cardinality(Jobs)
      BY DEF IInv, TablesInv, CountInv
  <2>5. CASE RunsOf(w)' = RunsOf(w)
      BY <2>3, <2>4, <2>5
  <2>6. CASE RunsOf(w)' # RunsOf(w)
    <3>1. w = window[j] /\ new \notin runs /\ RunsOf(w)' = RunsOf(w) \cup {new}
        BY <1>5, <2>6 DEF RunsOf
    <3>2. j \in Beginning(w)
        BY <1>1, <1>5, <3>1 DEF Beginning, Begun
    <3>3. Cardinality(RunsOf(w)') = Cardinality(RunsOf(w)) + 1
        BY <2>2, <3>1, FS_AddElement DEF RunsOf
    <3>4. Cardinality(Beginning(w) \ {j}) = Cardinality(Beginning(w)) - 1
        BY <2>2, <3>2, FS_RemoveElement
    <3>5. Cardinality(Beginning(w)') <= Cardinality(Beginning(w) \ {j})
          /\ Cardinality(Beginning(w) \ {j}) \in Nat
        BY <2>1, <2>2, FS_Subset, FS_CardinalityType
    <3> QED
        BY <2>3, <2>4, <3>3, <3>4, <3>5
  <2> QED
      BY <2>5, <2>6
<1> QED
    BY <1>3, <1>4, <1>6, <1>8 DEF TablesInv

LEMMA CommitIngestStep ==
    ASSUME IInv, NEW j \in Jobs, CommitIngest(j)
    PROVE  IInv'
<1> DEFINE new     == [key |-> window[j], id |-> run[j], result |-> "SUCCESS"]
           payload == [window |-> window[j], at |-> received[j], data |-> fetched[j]]
<1>1. /\ pc[j] = "upserting" /\ kind[j] = "ingest" /\ End(j, "ok")
      /\ payloads' = payloads \cup {payload}
      /\ provider' = provider /\ begun' = begun /\ saved' = saved /\ calls' = calls
    BY DEF CommitIngest
<1>2. /\ pc'[j] = "idle" /\ left'[j] = {} /\ mine'[j] = NoBars /\ outcome'[j] = "ok"
      /\ kind'[j] = "none" /\ ~alone'[j]
      /\ \A k \in Jobs \ {j} : Same(k) /\ alone'[k] = alone[k]
    BY <1>1, Ended DEF IInv
<1>3. /\ window[j] \in Windows /\ run[j] \in 1..begun /\ received[j] \in 1..saved
      /\ \A p \in payloads : p.at # received[j]
      /\ \A r \in runs : r.id = run[j] => r.key = window[j]
    BY <1>1 DEF IInv, JobInv, Phases, IngestInv
<1>4. /\ new \in Run /\ runs' = runs \cup {new}
      /\ new \in runs \/ \A r \in runs : r.id # run[j]
    BY IngestRuns
<1>5. TypeOK'
  <2>1. bars' \in Bars
    <3>1. bars' = [t \in Times |-> IF mine[j][t] # 0 THEN mine[j][t] ELSE bars[t]]
        BY DEF CommitIngest, Written
    <3> QED
        BY <3>1 DEF IInv, TypeOK, Bars
  <2>2. payload \in Payload
      BY <1>3 DEF IInv, TypeOK, Payload
  <2> QED
      BY <1>1, <1>4, <2>1, <2>2, Ended DEF IInv, TypeOK
<1>6. Grows
    BY <1>1, Numbers DEF Grows, IInv, TypeOK
<1>7. \A k \in Jobs \ {j} : ~alone[k]
    BY <1>1 DEF IInv, PairInv
<1>8. PairInv'
  <2>1. \A k, l \in Jobs \ {j} : k # l /\ kind[k] = "ingest" /\ kind[l] = "ingest" =>
            /\ pc[k] \in Begun /\ pc[l] \in Begun /\ run[k] = run[l] => \E r \in runs' : r.id = run[k]
            /\ pc[k] = "upserting" /\ pc[l] = "upserting" => received[k] # received[l]
      BY <1>4 DEF IInv, PairInv
  <2>2. \A k \in Jobs : ~alone'[k]
      BY <1>2, <1>7
  <2> QED
      BY <1>2, <2>1, <2>2 DEF PairInv, Same, Begun
<1>9. \A k \in Jobs \ {j} : JobInv(k)'
  <2> SUFFICES ASSUME NEW k \in Jobs \ {j}
               PROVE  JobInv(k)'
      OBVIOUS
  <2>1. JobInv(k) /\ Same(k)
      BY <1>2 DEF IInv
  <2>2. kind[k] = "ingest" /\ pc[k] # "start" =>
            \A r \in runs' : r.id = run[k] => r.key = window[k]
    <3> SUFFICES ASSUME kind[k] = "ingest", pc[k] # "start", run[k] = run[j], new \notin runs
                 PROVE  FALSE
        BY <1>4, <2>1 DEF JobInv, IngestInv
    <3>1. pc[k] \in Begun
        BY DEF IInv, TypeOK, JobInv, Phases, Begun
    <3>2. \E r \in runs : r.id = run[j]
        BY <1>1, <3>1 DEF IInv, PairInv, Begun
    <3> QED
        BY <1>4, <3>2
  <2>3. kind[k] = "ingest" /\ pc[k] = "upserting" => \A p \in payloads' : p.at # received[k]
      BY <1>1, <2>1 DEF IInv, PairInv, JobInv, IngestInv
  <2> QED
      BY <1>5, <1>6, <2>1, <2>2, <2>3, KeptJob DEF IInv
<1>10. \A k \in Jobs \ {j} : AloneInv(k)' /\ DoneInv(k)'
    BY <1>2, <1>7 DEF AloneInv, DoneInv
<1>11. JobInv(j)' /\ AloneInv(j)' /\ DoneInv(j)'
    BY <1>2 DEF JobInv, Phases, IngestInv, ReplayInv, AloneInv, DoneInv
<1> QED
    BY <1>5, <1>8, <1>9, <1>10, <1>11, CommitIngestTables DEF IInv

\* A bar after a replay: what it has written of it, or the bar as it was.
LEMMA ReplayWritten ==
    ASSUME IInv, NEW j \in Jobs, CommitReplay(j)
    PROVE  \A t \in Times : bars'[t] = IF mine[j][t] # 0 THEN mine[j][t] ELSE bars[t]
BY DEF CommitReplay, Written

\* A replay by itself leaves the bar that was received last of those it selects.
LEMMA ReplayWritesLast ==
    ASSUME IInv, NEW j \in Jobs, CommitReplay(j), alone[j], NEW t \in Times
    PROVE  \/ mine[j][t] = 0 /\ \A p \in Selected(j) : p.data[t] = 0
           \/ \E q \in Selected(j) : /\ mine[j][t] # 0 /\ q.data[t] = mine[j][t]
                                     /\ \A p \in Selected(j) : p.data[t] # 0 => p.at <= q.at
<1>1. kind[j] = "replay" /\ pc[j] = "upserting" /\ left[j] = {}
    BY DEF CommitReplay
<1>2. WrittenUpTo(j, t)
    BY <1>1 DEF IInv, AloneInv
<1>3. \A p \in Selected(j) : p.at \in Nat
    BY DEF IInv, TypeOK, Payload, Selected
<1> QED
    BY <1>1, <1>2, <1>3 DEF WrittenUpTo

LEMMA CommitReplayStep ==
    ASSUME IInv, NEW j \in Jobs, CommitReplay(j)
    PROVE  IInv'
<1>1. /\ pc[j] = "upserting" /\ kind[j] = "replay" /\ left[j] = {} /\ End(j, "ok")
      /\ payloads' = payloads /\ runs' = runs
      /\ provider' = provider /\ begun' = begun /\ saved' = saved /\ calls' = calls
    BY DEF CommitReplay
<1>2. /\ pc'[j] = "idle" /\ left'[j] = {} /\ mine'[j] = NoBars
      /\ kind'[j] # "ingest"
      /\ alone'[j] => kind' = kind /\ window' = window /\ alone' = alone
      /\ \A k \in Jobs \ {j} : Same(k) /\ alone'[k] = alone[k]
    BY <1>1, Ended DEF IInv, request
<1>3. TypeOK'
  <2>1. bars' \in Bars
    <3>1. bars' = [t \in Times |-> IF mine[j][t] # 0 THEN mine[j][t] ELSE bars[t]]
        BY DEF CommitReplay, Written
    <3> QED
        BY <3>1 DEF IInv, TypeOK, Bars
  <2> QED
      BY <1>1, <2>1, Ended DEF IInv, TypeOK
<1>4. Grows
    BY <1>1, Numbers DEF Grows, IInv, TypeOK
<1>5. \A k \in Jobs \ {j} : ~alone[k]
    BY <1>1 DEF IInv, PairInv
<1>6. TablesInv'
  <2>1. BarsInv'
    <3>1. \A t \in Times : mine[j][t] # 0 => \E p \in Selected(j) : p.data[t] = mine[j][t]
        BY <1>1 DEF IInv, JobInv, ReplayInv
    <3> QED
        BY <1>1, <3>1, ReplayWritten DEF IInv, TablesInv, BarsInv, Selected
  <2>2. PayloadsInv' /\ RunsInv'
      BY <1>1 DEF IInv, TablesInv, PayloadsInv, RunsInv
  <2>3. \A w \in Windows : Beginning(w)' \subseteq Beginning(w)
      BY <1>1, <1>2 DEF Beginning, Same
  <2> QED
      BY <1>1, <2>1, <2>2, <2>3, KeptCount DEF IInv, TablesInv
<1>7. PairInv'
    BY <1>1, <1>2, <1>5 DEF IInv, PairInv, Same, Begun
<1>8. \A k \in Jobs \ {j} : JobInv(k)'
    BY <1>1, <1>2, <1>3, <1>4, KeptJob DEF IInv, JobInv, IngestInv
<1>9. \A k \in Jobs \ {j} : AloneInv(k)' /\ DoneInv(k)'
    BY <1>2, <1>5 DEF AloneInv, DoneInv
<1>10. JobInv(j)' /\ AloneInv(j)'
    BY <1>2 DEF JobInv, Phases, IngestInv, ReplayInv, AloneInv
<1>11. DoneInv(j)'
  <2> SUFFICES ASSUME alone'[j], window'[j] = Times, NEW t \in Times
               PROVE  \/ bars'[t] = 0 /\ \A p \in payloads' : p.data[t] = 0
                      \/ \E q \in payloads' :
                            /\ bars'[t] # 0 /\ q.data[t] = bars'[t]
                            /\ \A p \in payloads' : p.data[t] # 0 => p.at <= q.at
      BY DEF DoneInv
  <2>1. alone[j] /\ window[j] = Times
      BY <1>2
  <2>2. Selected(j) = payloads
    <3>1. \A p \in payloads : p.window \in Windows
        BY DEF IInv, TypeOK, Payload
    <3>2. \A w \in Windows : w \subseteq Times
        BY MarketAssumption
    <3> QED
        BY <2>1, <3>1, <3>2 DEF Selected
  <2>3. bars'[t] = IF mine[j][t] # 0 THEN mine[j][t] ELSE bars[t]
      BY ReplayWritten
  <2>4. bars[t] # 0 => \E p \in payloads : p.data[t] = bars[t]
      BY DEF IInv, TablesInv, BarsInv
  <2> QED
      BY <1>1, <2>1, <2>2, <2>3, <2>4, ReplayWritesLast
<1> QED
    BY <1>3, <1>6, <1>7, <1>8, <1>9, <1>10, <1>11 DEF IInv

-----------------------------------------------------------------------------
(* The steps of the environment.                                           *)

LEMMA CallStep ==
    ASSUME IInv, NEW j \in Jobs, Call(j)
    PROVE  IInv'
<1> USE DEF tables, work
<1>1. /\ pc[j] = "idle" /\ pc'[j] = "start" /\ outcome'[j] = "none"
      /\ \/ kind'[j] = "ingest" /\ window'[j] \in Windows
         \/ kind'[j] = "replay"
      /\ alone'[j] => \A h \in Jobs : pc[h] = "idle"
      /\ \A k \in Jobs \ {j} : Same(k) /\ ~alone'[k]
      /\ tables' = tables /\ work' = work
      /\ provider' = provider /\ begun' = begun /\ saved' = saved
    BY DEF IInv, TypeOK, Call, Set, Same
<1>2. TypeOK'
  <2>1. calls' \in 0..MaxCalls
      BY MarketAssumption DEF IInv, TypeOK, Call
  <2>2. /\ kind' \in [Jobs -> {"none", "ingest", "replay"}]
        /\ window' \in [Jobs -> Windows \cup {Times}]
      BY DEF IInv, TypeOK, Call, Set
  <2>3. /\ pc' \in [Jobs -> {"idle", "start", "fetching", "saving", "upserting"}]
        /\ outcome' \in [Jobs -> {"none", "ok", "failed"}]
        /\ alone' \in [Jobs -> BOOLEAN]
      BY DEF IInv, TypeOK, Call, Set
  <2> QED
      BY <1>1, <2>1, <2>2, <2>3 DEF IInv, TypeOK
<1>3. Grows
    BY <1>1, Numbers DEF Grows, IInv, TypeOK
<1>4. TablesInv'
  <2>1. BarsInv' /\ PayloadsInv' /\ RunsInv'
      BY <1>1 DEF IInv, TablesInv, BarsInv, PayloadsInv, RunsInv
  <2>2. \A w \in Windows : Beginning(w)' \subseteq Beginning(w)
      BY <1>1 DEF Beginning, Same, Begun
  <2> QED
      BY <1>1, <2>1, <2>2, KeptCount DEF IInv, TablesInv
<1>5. PairInv'
    BY <1>1 DEF IInv, PairInv, Same, Begun
<1>6. \A k \in Jobs \ {j} : JobInv(k)'
    BY <1>1, <1>2, <1>3, KeptJob DEF IInv, JobInv, IngestInv
<1>7. JobInv(j)'
    BY <1>1 DEF IInv, JobInv, Phases, IngestInv, ReplayInv
<1>8. \A k \in Jobs : AloneInv(k)' /\ DoneInv(k)'
    BY <1>1 DEF AloneInv, DoneInv
<1> QED
    BY <1>2, <1>4, <1>5, <1>6, <1>7, <1>8 DEF IInv

LEMMA ReviseStep ==
    ASSUME IInv, Revise
    PROVE  IInv'
<1> USE DEF tables, request, work
<1>1. /\ UNCHANGED <<tables, request, pc, work, outcome, calls, begun, saved>>
      /\ \A k \in Jobs : Same(k)
    BY DEF Revise, Same
<1>2. PICK t \in Times : provider[t] < MaxRev[t] /\ provider' = [provider EXCEPT ![t] = @ + 1]
    BY DEF Revise
<1>3. provider \in Bars /\ MaxRev[t] \in Nat /\ \A u \in Times : provider[u] \in Nat
    BY Numbers, MarketAssumption DEF IInv, TypeOK
<1>4. provider' \in Bars
  <2>1. provider[t] + 1 \in Revisions
      BY <1>2, <1>3 DEF Revisions
  <2> QED
      BY <1>2, <1>3, <2>1 DEF Bars
<1>5. TypeOK'
    BY <1>1, <1>4 DEF IInv, TypeOK
<1>6. Grows
    BY <1>1, <1>2, <1>3 DEF Grows, Bars, IInv, TypeOK
<1>7. TablesInv'
  <2>1. \A p \in payloads, u \in Times : p.data[u] \in Nat /\ provider'[u] \in Nat
      BY <1>5, Numbers DEF IInv, TypeOK, Payload
  <2>2. PayloadsInv'
      BY <1>1, <1>3, <1>6, <2>1 DEF IInv, TablesInv, PayloadsInv, Grows
  <2>3. BarsInv' /\ RunsInv'
      BY <1>1 DEF IInv, TablesInv, BarsInv, RunsInv
  <2>4. \A w \in Windows : Beginning(w)' \subseteq Beginning(w)
      BY <1>1 DEF Beginning
  <2> QED
      BY <1>1, <2>2, <2>3, <2>4, KeptCount DEF IInv, TablesInv
<1>8. PairInv'
    BY <1>1 DEF IInv, PairInv
<1>9. \A k \in Jobs : JobInv(k)'
    BY <1>1, <1>5, <1>6, KeptJob DEF IInv, JobInv, IngestInv
<1>10. \A k \in Jobs : AloneInv(k)' /\ DoneInv(k)'
    BY <1>1 DEF IInv, AloneInv, DoneInv, WrittenUpTo, Selected
<1> QED
    BY <1>5, <1>7, <1>8, <1>9, <1>10 DEF IInv

-----------------------------------------------------------------------------
(* What follows.                                                           *)

LEMMA NextStep ==
    ASSUME IInv, [Next]_vars
    PROVE  IInv'
<1>1. ASSUME NEW j \in Jobs, Step(j)
      PROVE  IInv'
    BY <1>1, StartRunStep, ProviderAnswersStep, SavePayloadStep, UpsertBarStep,
       CommitIngestStep, ReadPayloadsStep, CommitReplayStep, FailStep DEF Step
<1>2. ASSUME NEW j \in Jobs, IngestError(j) \/ Crash(j)
      PROVE  IInv'
    BY <1>2, FailStep
<1>3. ASSUME NEW j \in Jobs, Call(j)
      PROVE  IInv'
    BY <1>3, CallStep
<1>4. CASE UNCHANGED vars
    BY <1>4 DEF vars, tables, request, work, IInv, TypeOK, TablesInv, BarsInv, PayloadsInv, RunsInv,
                CountInv, RunsOf, Beginning, PairInv, JobInv, Phases, IngestInv, ReplayInv, Selected,
                AloneInv, WrittenUpTo, DoneInv
<1> QED
    BY <1>1, <1>2, <1>3, <1>4, ReviseStep DEF Next

LEMMA Invariant == Spec => []IInv
<1>1. Init => IInv
    BY InitInv
<1>2. IInv /\ [Next]_vars => IInv'
    BY NextStep
<1> QED
    BY <1>1, <1>2, PTL DEF Spec

\* The types of the state of the ingest and replay use cases.
THEOREM WellTyped == Spec => []TypeOK
<1>1. IInv => TypeOK
    BY DEF IInv
<1> QED
    BY <1>1, Invariant, PTL

LEMMA StagedIsComplete ==
    ASSUME IInv
    PROVE  StagingComplete
<1>1. \A t \in Times : bars[t] # 0 => \E p \in payloads : p.data[t] = bars[t]
    BY DEF IInv, TablesInv, BarsInv
<1>2. \A r \in runs : r.result = "SUCCESS" /\ \E p \in payloads : p.window = r.key
    BY DEF IInv, TablesInv, RunsInv
<1>3. ASSUME NEW w \in Windows
      PROVE  Cardinality(RunsOf(w)) <= Cardinality(Jobs)
  <2>1. IsFiniteSet(RunsOf(w)) /\ IsFiniteSet(Beginning(w))
      BY MarketAssumption, FS_Subset DEF IInv, TablesInv, RunsInv, RunsOf, Beginning
  <2>2. Cardinality(RunsOf(w)) \in Nat /\ Cardinality(Beginning(w)) \in Nat /\ Cardinality(Jobs) \in Nat
      BY <2>1, MarketAssumption, FS_CardinalityType
  <2>3. Cardinality(RunsOf(w)) + Cardinality(Beginning(w)) <= Cardinality(Jobs)
      BY DEF IInv, TablesInv, CountInv
  <2> QED
      BY <2>2, <2>3
<1> QED
    BY <1>1, <1>2, <1>3 DEF StagingComplete

\* Whatever fails and whichever transactions are rolled back, every stored bar is one of
\* a stored payload, every stored run is a success with its payload, and first ingests of
\* a window insert at most one run for each use case that may be under way.
THEOREM StagedOrRolledBack == Spec => []StagingComplete
<1>1. IInv => StagingComplete
    BY StagedIsComplete
<1> QED
    BY <1>1, Invariant, PTL

\* The payload received last of those that hold a bar is the one LastReceived takes.
LEMMA LastReceivedIs ==
    ASSUME TypeOK, PayloadsInv, NEW t \in Times, NEW q \in payloads, q.data[t] # 0,
           \A p \in payloads : p.data[t] # 0 => p.at <= q.at
    PROVE  LastReceived(t) = q.data[t]
<1> DEFINE holding == {p \in payloads : p.data[t] # 0}
           last    == CHOOSE p \in holding : \A o \in holding : o.at <= p.at
<1>1. \E p \in holding : \A o \in holding : o.at <= p.at
    OBVIOUS
<1>2. last \in holding /\ \A o \in holding : o.at <= last.at
    BY <1>1
<1>3. \A p \in payloads : p.at \in Nat
    BY DEF TypeOK, Payload
<1>4. last = q
  <2> HIDE DEF last
  <2> QED
      BY <1>2, <1>3 DEF PayloadsInv
<1>5. LastReceived(t) = last.data[t]
    BY <1>2 DEF LastReceived
<1> QED
    BY <1>4, <1>5

\* A replay of everything that ran by itself leaves exactly the bars of the stored
\* payloads, of the one received last where they overlap, however the payloads came to
\* be and in whatever order the provider corrected its bars.
THEOREM ReplayIsExact == Spec => []ReplayReproduces
<1>1. ASSUME IInv
      PROVE  ReplayReproduces
  <2> SUFFICES ASSUME NEW j \in Jobs, kind[j] = "replay", window[j] = Times,
                      outcome[j] = "ok", alone[j], NEW t \in Times
               PROVE  bars[t] = LastReceived(t)
      BY DEF ReplayReproduces
  <2>1. \/ bars[t] = 0 /\ \A p \in payloads : p.data[t] = 0
        \/ \E q \in payloads : /\ bars[t] # 0 /\ q.data[t] = bars[t]
                               /\ \A p \in payloads : p.data[t] # 0 => p.at <= q.at
      BY <1>1 DEF IInv, DoneInv
  <2>2. CASE \A p \in payloads : p.data[t] = 0
    <3>1. LastReceived(t) = 0
        BY <2>2 DEF LastReceived
    <3> QED
        BY <2>1, <2>2, <3>1
  <2>3. CASE \E p \in payloads : p.data[t] # 0
      BY <1>1, <2>1, <2>3, LastReceivedIs DEF IInv, TablesInv
  <2> QED
      BY <2>2, <2>3
<1> QED
    BY <1>1, Invariant, PTL

\* Only the commit of a use case changes a bar.
LEMMA BarsChange ==
    ASSUME [Next]_vars, bars' # bars
    PROVE  \E j \in Jobs : CommitIngest(j) \/ CommitReplay(j)
<1>1. ASSUME NEW j \in Jobs, Step(j)
      PROVE  CommitIngest(j) \/ CommitReplay(j)
    BY <1>1 DEF Step, StartRun, ProviderAnswers, SavePayload, UpsertBar, ReadPayloads, Abort, tables
<1>2. ASSUME NEW j \in Jobs, IngestError(j) \/ Crash(j) \/ Call(j)
      PROVE  FALSE
    BY <1>2 DEF IngestError, Crash, Call, tables
<1>3. ~Revise /\ vars' # vars
    BY DEF Revise, vars, tables
<1> QED
    BY <1>1, <1>2, <1>3 DEF Next

LEMMA GoesBackOnlyThen ==
    ASSUME IInv, [Next]_vars, NEW t \in Times, bars'[t] < bars[t]
    PROVE  \E j \in Jobs :
              /\ pc[j] = "upserting" /\ pc'[j] = "idle"
              /\ \/ ~alone[j]
                 \/ kind[j] = "replay" /\ \E p \in payloads : p.data[t] # 0 /\ p \notin Selected(j)
                 \/ Inverted(t)
<1>1. bars[t] \in Nat /\ \A p \in payloads : p.data[t] \in Nat /\ p.at \in Nat
    BY Numbers DEF IInv, TypeOK, Payload
<1>2. bars' # bars
    BY <1>1
<1>3. PICK j \in Jobs : CommitIngest(j) \/ CommitReplay(j)
    BY <1>2, BarsChange
<1>4. pc[j] = "upserting" /\ pc'[j] = "idle"
    BY <1>3, Ended DEF IInv, CommitIngest, CommitReplay
<1> SUFFICES ASSUME alone[j]
             PROVE  \/ kind[j] = "replay" /\ \E p \in payloads : p.data[t] # 0 /\ p \notin Selected(j)
                    \/ Inverted(t)
    BY <1>4
<1>5. CASE CommitIngest(j)
  <2>1. fetched[j] \in Bars /\ fetched[j][t] \in Nat
      BY Numbers DEF IInv, TypeOK
  <2>2. fetched[j][t] # 0 /\ bars'[t] = fetched[j][t]
      BY <1>1, <1>5, IngestWritten
  <2>3. t \in window[j] /\ \A p \in payloads : p.data[t] <= fetched[j][t]
      BY <1>4, <1>5, <2>2 DEF IInv, JobInv, IngestInv, AloneInv, CommitIngest
  <2>4. \E p \in payloads : p.data[t] = bars[t]
      BY <1>1, <2>1, <2>2 DEF IInv, TablesInv, BarsInv
  <2> QED
      BY <1>1, <2>1, <2>2, <2>3, <2>4
<1>6. CASE CommitReplay(j)
  <2> SUFFICES ASSUME \A p \in payloads : p.data[t] # 0 => p \in Selected(j)
               PROVE  Inverted(t)
      BY <1>6 DEF CommitReplay
  <2>1. mine[j][t] # 0 /\ bars'[t] = mine[j][t]
      BY <1>1, <1>6, ReplayWritten
  <2>2. PICK q \in Selected(j) : /\ q.data[t] = mine[j][t]
                                 /\ \A p \in Selected(j) : p.data[t] # 0 => p.at <= q.at
      BY <1>6, <2>1, ReplayWritesLast
  <2>3. q \in payloads /\ q.data[t] \in Nat /\ q.data[t] # 0
      BY <1>1, <2>1, <2>2 DEF Selected
  <2>4. PICK p \in payloads : p.data[t] = bars[t]
      BY <1>1, <2>1, <2>2, <2>3 DEF IInv, TablesInv, BarsInv
  <2>5. p.at # q.at
      BY <1>1, <2>1, <2>2, <2>3, <2>4 DEF IInv, TablesInv, PayloadsInv
  <2>6. p.at < q.at
      BY <1>1, <2>1, <2>2, <2>3, <2>4, <2>5
  <2> QED
      BY <1>1, <2>1, <2>2, <2>3, <2>4, <2>6 DEF Inverted
<1> QED
    BY <1>3, <1>5, <1>6

\* A stored bar goes back to an older revision only with the commit of a use case that
\* overlapped another, of a replay whose window leaves out a payload of the bar, or where
\* payloads were received in another order than the provider made them.
THEOREM NothingElseGoesBack == Spec => BarsGoBackOnlyThen
<1>1. ASSUME IInv, [Next]_vars
      PROVE  [\A t \in Times : bars'[t] < bars[t] =>
                 \E j \in Jobs :
                     /\ pc[j] = "upserting" /\ pc'[j] = "idle"
                     /\ \/ ~alone[j]
                        \/ kind[j] = "replay" /\ \E p \in payloads : p.data[t] # 0 /\ p \notin Selected(j)
                        \/ Inverted(t)]_vars
    BY <1>1, GoesBackOnlyThen, Zenon
<1> QED
    BY <1>1, Invariant, PTL DEF Spec, BarsGoBackOnlyThen
=============================================================================
