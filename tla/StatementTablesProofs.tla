----------------------- MODULE StatementTablesProofs -----------------------
(***************************************************************************)
(* Machine-checked safety of the statement pipeline, for any number of     *)
(* concurrent use cases, any requests, filings, types and dates.           *)
(***************************************************************************)
EXTENDS StatementTables, FiniteSetTheorems, WellFoundedInduction, TLAPS

-----------------------------------------------------------------------------
(* Lemmas about numbers and sequences.                                     *)

LEMMA NatIsWellFounded ==
    \E R : IsWellFoundedOn(R, Nat) /\ \A x, y \in Nat : x < y => <<x, y>> \in R
<1>1. \A x, y \in Nat : x < y => <<x, y>> \in OpToRel(<, Nat)
    BY DEF OpToRel
<1> QED
    BY <1>1, NatLessThanWellFounded, Zenon

LEMMA MinimalElement ==
    ASSUME NEW S, S \subseteq Nat, S # {}, NEW R, IsWellFoundedOn(R, Nat)
    PROVE  \E x \in S : \A y \in S : ~(<<y, x>> \in R)
BY WFMin

\* A set of numbers has a least one.
LEMMA LeastNumber ==
    ASSUME NEW S \in SUBSET Nat, S # {}
    PROVE  \E m \in S : \A n \in S : m <= n
<1>0. PICK R : IsWellFoundedOn(R, Nat) /\ \A x, y \in Nat : x < y => <<x, y>> \in R
    BY NatIsWellFounded, Zenon
<1>1. PICK m \in S : \A y \in S : ~(<<y, m>> \in R)
    BY <1>0, MinimalElement
<1>2. \A y \in S : ~(y < m)
    BY <1>0, <1>1, Zenon
<1> QED
    BY <1>2, SMT

\* ORDER BY statement_version_id LIMIT 1 finds one of the rows.
LEMMA FirstIsOne ==
    ASSUME NEW S \in SUBSET Row, S # {}
    PROVE  FirstOf(S) \in S
<1> DEFINE Ids == {r.id : r \in S}
<1>1. \A r \in S : r.id \in 0..MaxRows
    BY DEF Row
<1>2. Ids \in SUBSET Nat /\ Ids # {}
    BY <1>1
<1>3. PICK m \in Ids : \A n \in Ids : m <= n
    BY <1>2, LeastNumber
<1>4. \E r \in S : \A q \in S : r.id <= q.id
    BY <1>3
<1> QED
    BY <1>4 DEF FirstOf

\* The elements of a sequence are its head and those of its tail.
LEMMA HeadAndTail ==
    ASSUME NEW S, NEW s \in Seq(S), s # <<>>
    PROVE  /\ Head(s) \in S
           /\ Tail(s) \in Seq(S)
           /\ ToSet(s) = {Head(s)} \cup ToSet(Tail(s))
<1>1. /\ Head(s) \in S /\ Tail(s) \in Seq(S)
      /\ Len(s) \in Nat \ {0} /\ Len(Tail(s)) = Len(s) - 1
      /\ Head(s) = s[1]
      /\ \A i \in 1..(Len(s) - 1) : Tail(s)[i] = s[i + 1]
      /\ DOMAIN s = 1..Len(s) /\ DOMAIN Tail(s) = 1..(Len(s) - 1)
    OBVIOUS
<1>2. ASSUME NEW x \in ToSet(s)
      PROVE  x \in {Head(s)} \cup ToSet(Tail(s))
  <2>1. PICK i \in 1..Len(s) : x = s[i]
      BY <1>1 DEF ToSet
  <2>2. CASE i = 1
      BY <1>1, <2>1, <2>2
  <2>3. CASE i # 1
    <3>1. i - 1 \in 1..(Len(s) - 1) /\ x = Tail(s)[i - 1]
        BY <1>1, <2>1, <2>3
    <3> QED
        BY <1>1, <3>1 DEF ToSet
  <2> QED
      BY <2>2, <2>3
<1>3. ASSUME NEW x \in {Head(s)} \cup ToSet(Tail(s))
      PROVE  x \in ToSet(s)
  <2>1. CASE x = Head(s)
      BY <1>1, <2>1 DEF ToSet
  <2>2. CASE x \in ToSet(Tail(s))
    <3>1. PICK i \in 1..(Len(s) - 1) : x = Tail(s)[i]
        BY <1>1, <2>2 DEF ToSet
    <3>2. i + 1 \in 1..Len(s) /\ x = s[i + 1]
        BY <1>1, <3>1
    <3> QED
        BY <1>1, <3>2 DEF ToSet
  <2> QED
      BY <1>3, <2>1, <2>2
<1> QED
    BY <1>1, <1>2, <1>3

\* Division of the places of a batch into filings and types.
LEMMA Division ==
    ASSUME NEW n \in Nat, n # 0, NEW m \in Nat
    PROVE  /\ \A i \in 1..(m * n) : (i - 1) \div n + 1 \in 1..m
           /\ \A i \in Nat : i % n \in 0..(n - 1)
           /\ \A k \in Nat : k < m => k * n + 1 \in 1..(m * n)
           /\ \A k \in Nat : (k * n) \div n = k
           /\ \A k \in Nat : (k * n) % n = 0
<1>0. \A a \in Nat : /\ a \div n \in Nat /\ a % n \in 0..(n - 1)
                     /\ a = n * (a \div n) + (a % n)
    OBVIOUS
<1>mono. \A a, b \in Nat : a < b => a * n + n <= b * n
  <2> SUFFICES ASSUME NEW a \in Nat, NEW b \in Nat, a < b
               PROVE  a * n + n <= b * n
      OBVIOUS
  <2>1. PICK d \in Nat : b = a + 1 + d
    <3>1. b - a - 1 \in Nat /\ b = a + 1 + (b - a - 1)
        OBVIOUS
    <3> QED
        BY <3>1
  <2>2. b * n = a * n + n + d * n /\ d * n \in Nat
      BY <2>1
  <2> QED
      BY <2>2
<1>1. ASSUME NEW i \in 1..(m * n)
      PROVE  (i - 1) \div n + 1 \in 1..m
  <2> DEFINE q == (i - 1) \div n
  <2>1. q \in Nat /\ (i - 1) % n \in 0..(n - 1) /\ i - 1 = n * q + ((i - 1) % n)
      BY <1>0
  <2>2. n * q < m * n
      BY <2>1
  <2>3. q < m
    <3>1. CASE m < q \/ m = q
        BY <1>mono, <2>1, <2>2, <3>1
    <3> QED
        BY <2>1, <3>1
  <2> QED
      BY <2>1, <2>3
<1>2. ASSUME NEW k \in Nat
      PROVE  (k * n) \div n = k /\ (k * n) % n = 0
  <2> DEFINE q == (k * n) \div n
             r == (k * n) % n
  <2>1. q \in Nat /\ r \in 0..(n - 1) /\ k * n = n * q + r
      BY <1>0
  <2>2. ~(k < q) /\ ~(q < k)
      BY <1>mono, <2>1
  <2> QED
      BY <2>1, <2>2
<1>3. ASSUME NEW k \in Nat, k < m
      PROVE  k * n + 1 \in 1..(m * n)
    BY <1>mono, <1>3
<1> QED
    BY <1>0, <1>1, <1>2, <1>3

-----------------------------------------------------------------------------
(* Lemmas about requests and the rows they lead to.                        *)

LEMMA Lists ==
    /\ \A ts \in TypeList : /\ ts \in Seq(Types) /\ ts # <<>>
                            /\ Len(ts) \in Nat \ {0} /\ DOMAIN ts = 1..Len(ts)
                            /\ 1..Len(ts) \subseteq Positions
    /\ FilingList \subseteq Seq(Filings)
<1>0. Cardinality(Types) \in Nat
    BY PipelineAssumption, FS_CardinalityType DEF PipelineAssumption
<1>1. ASSUME NEW ts \in TypeList
      PROVE  /\ ts \in Seq(Types) /\ ts # <<>>
             /\ Len(ts) \in Nat \ {0} /\ DOMAIN ts = 1..Len(ts)
             /\ 1..Len(ts) \subseteq Positions
  <2>1. PICK m \in 0..Cardinality(Types) : ts \in [1..m -> Types]
      BY <1>1 DEF TypeList, BoundedSeq, SeqOf
  <2>2. ts \in Seq(Types) /\ Len(ts) = m /\ DOMAIN ts = 1..m
      BY <1>0, <2>1
  <2>3. ts # <<>>
      BY <1>1 DEF TypeList
  <2>4. m # 0
      BY <2>2, <2>3
  <2> QED
      BY <1>0, <2>1, <2>2, <2>3, <2>4 DEF Positions
<1>2. ASSUME NEW fs \in FilingList
      PROVE  fs \in Seq(Filings)
  <2>1. PICK m \in 0..Cardinality(Filings) : fs \in [1..m -> Filings]
      BY <1>2 DEF FilingList, BoundedSeq, SeqOf
  <2>2. m \in Nat
      BY <2>1
  <2> QED
      BY <2>1, <2>2
<1> QED
    BY <1>1, <1>2

LEMMA Fields ==
    ASSUME NEW q \in Requests
    PROVE  /\ q # None
           /\ q.kind = "ingest" => q.filing \in Filings /\ q.types \in TypeList
           /\ q.kind = "sync" => q.filings \in FilingList /\ q.types \in TypeList
           /\ q.kind = "normalize" => q.filing \in Filings /\ q.payload \in Payloads \cup {None}
           /\ q.kind = "update" => q.payload \in Payloads
BY PipelineAssumption DEF PipelineAssumption, Request

\* The metadata-only versions of a filing.
LEMMA VersionRows ==
    ASSUME NEW f \in Filings, NEW ts \in TypeList
    PROVE  /\ VersionsOf(f, ts) \in Seq(Row)
           /\ Len(VersionsOf(f, ts)) = Len(ts)
           /\ \A i \in 1..Len(ts) :
                LET r == VersionsOf(f, ts)[i]
                IN  /\ r \in Row
                    /\ r.filing = f /\ r.type = ts[i] /\ r.seq = i
                    /\ r.payload = None /\ r.facts = None
<1>0. MaxRows \in Nat /\ DateOf[f] \in Dates
    BY PipelineAssumption DEF PipelineAssumption
<1>1. ts \in Seq(Types) /\ Len(ts) \in Nat /\ 1..Len(ts) \subseteq Positions
    BY Lists
<1>2. \A i \in 1..Len(ts) :
          /\ VersionsOf(f, ts)[i] = [type |-> ts[i], date |-> DateOf[f], seq |-> i, id |-> 0,
                                     filing |-> f, payload |-> None, facts |-> None]
          /\ VersionsOf(f, ts)[i] \in Row
    BY <1>0, <1>1 DEF VersionsOf, Row
<1>3. VersionsOf(f, ts) \in Seq(Row) /\ Len(VersionsOf(f, ts)) = Len(ts)
    BY <1>1, <1>2 DEF VersionsOf
<1>4. ASSUME NEW i \in 1..Len(ts)
      PROVE  LET r == VersionsOf(f, ts)[i]
             IN  /\ r \in Row
                 /\ r.filing = f /\ r.type = ts[i] /\ r.seq = i
                 /\ r.payload = None /\ r.facts = None
  <2> DEFINE r == VersionsOf(f, ts)[i]
  <2>1. /\ r \in Row
        /\ r = [type |-> ts[i], date |-> DateOf[f], seq |-> i, id |-> 0,
                filing |-> f, payload |-> None, facts |-> None]
      BY <1>2
  <2> HIDE DEF r
  <2>2. r.filing = f /\ r.type = ts[i] /\ r.seq = i /\ r.payload = None /\ r.facts = None
      BY <2>1
  <2> QED
      BY <2>1, <2>2 DEF r
<1> QED
    BY <1>3, <1>4

\* The rows of a batch: metadata-only versions, some for each filing.
LEMMA BatchRows ==
    ASSUME NEW fs \in Seq(Filings), NEW ts \in TypeList
    PROVE  /\ BatchOf(fs, ts) \in Seq(Row)
           /\ \A r \in ToSet(BatchOf(fs, ts)) : /\ r.filing \in ToSet(fs)
                                                /\ r.payload = None /\ r.facts = None
           /\ \A f \in ToSet(fs) : \E r \in ToSet(BatchOf(fs, ts)) : r.filing = f
<1> DEFINE n == Len(ts)
           m == Len(fs)
           K(i) == (i - 1) \div n + 1
           P(i) == ((i - 1) % n) + 1
           b == BatchOf(fs, ts)
<1>0. /\ n \in Nat /\ n # 0 /\ m \in Nat
      /\ DOMAIN fs = 1..m
      /\ \A k \in 1..m : fs[k] \in Filings
    BY Lists
<1>b. /\ m * n \in Nat
      /\ b = [i \in 1..(m * n) |-> VersionsOf(fs[K(i)], ts)[P(i)]]
    BY <1>0 DEF BatchOf
<1>1. ASSUME NEW i \in 1..(m * n)
      PROVE  /\ K(i) \in 1..m /\ P(i) \in 1..n
             /\ b[i] \in Row
             /\ b[i].filing = fs[K(i)] /\ b[i].payload = None /\ b[i].facts = None
  <2>1. K(i) \in 1..m
      BY <1>0, Division
  <2>2. i - 1 \in Nat
      BY <1>0
  <2>3. P(i) \in 1..n
    <3>1. (i - 1) % n \in 0..(n - 1)
        BY <1>0, <2>2, Division
    <3> HIDE DEF n
    <3> QED
        BY <1>0, <3>1
  <2>4. b[i] = VersionsOf(fs[K(i)], ts)[P(i)] /\ fs[K(i)] \in Filings
      BY <1>0, <1>b, <2>1
  <2> HIDE DEF K, P, b
  <2> QED
      BY <2>1, <2>3, <2>4, VersionRows
<1>2. b \in Seq(Row) /\ DOMAIN b = 1..(m * n)
  <2> DEFINE last == m * n
             row(i) == VersionsOf(fs[K(i)], ts)[P(i)]
  <2>1. last \in Nat
      BY <1>b
  <2>2. b = [i \in 1..last |-> row(i)]
      BY <1>b
  <2> HIDE DEF row
  <2>3. DOMAIN b = 1..last
      BY <2>2
  <2>4. \A i \in 1..last : b[i] \in Row
      BY <1>1
  <2>5. \A i \in 1..last : row(i) \in Row
      BY <2>2, <2>4
  <2> HIDE DEF last, b
  <2>6. b \in Seq(Row)
      BY <2>1, <2>2, <2>5
  <2> QED
      BY <2>3, <2>6 DEF last
<1>3. ASSUME NEW f \in ToSet(fs)
      PROVE  \E r \in ToSet(b) : r.filing = f
  <2>1. PICK k \in 1..m : f = fs[k]
      BY <1>0, <1>3 DEF ToSet
  <2> DEFINE i == (k - 1) * n + 1
  <2>2. k - 1 \in Nat /\ k - 1 < m
      BY <1>0
  <2>3. i \in 1..(m * n) /\ i - 1 = (k - 1) * n /\ ((k - 1) * n) \div n = k - 1
    <3>1. i \in 1..(m * n)
        BY <1>0, <2>2, Division
    <3>2. ((k - 1) * n) \div n = k - 1
        BY <1>0, <2>2, Division
    <3>3. i - 1 = (k - 1) * n
        BY <1>0, <2>2
    <3> QED
        BY <3>1, <3>2, <3>3
  <2>4. K(i) = k
      BY <1>0, <2>3
  <2> HIDE DEF i, K, P, b
  <2>5. b[i] \in ToSet(b)
      BY <1>2, <2>3 DEF ToSet
  <2> QED
      BY <1>1, <2>1, <2>3, <2>4, <2>5
<1>4. \A r \in ToSet(b) : r.filing \in ToSet(fs) /\ r.payload = None /\ r.facts = None
  <2> SUFFICES ASSUME NEW r \in ToSet(b)
               PROVE  r.filing \in ToSet(fs) /\ r.payload = None /\ r.facts = None
      OBVIOUS
  <2> HIDE DEF K, P, b
  <2>1. PICK i \in 1..(m * n) : r = b[i]
      BY <1>2 DEF ToSet
  <2> QED
      BY <1>0, <1>1, <2>1 DEF ToSet
<1> QED
    BY <1>2, <1>3, <1>4

-----------------------------------------------------------------------------
(* The inductive invariant.                                                *)

\* TypeOK, with what is still to be written as sequences.
Types0 ==
    /\ filings \subseteq Filings
    /\ versions \subseteq Row
    /\ overtaken \subseteq Jobs
    /\ stale \subseteq Types \X Dates \X Positions
    /\ req \in [Jobs -> Requests \cup {None}]
    /\ pc \in [Jobs -> {"idle", "start", "writing", "replacing"}]
    /\ toUpsert \in [Jobs -> Seq(Filings)]
    /\ toInsert \in [Jobs -> Seq(Row)]
    /\ held \in [Jobs -> SUBSET Filings]
    /\ rows \in [Jobs -> SUBSET Row]
    /\ chosen \in [Jobs -> Payloads \cup {None}]
    /\ outcome \in [Jobs -> Outcomes]
    /\ calls \in 0..MaxCalls

\* What a writing job has written or will write.
Pending(j)  == rows[j] \cup ToSet(toInsert[j])
Upserts(j)  == held[j] \cup ToSet(toUpsert[j])

\* A writing job has a filing for every version it writes, and versions for every
\* filing, and is on its way to store what it was asked for.
Writes(j) ==
    /\ Kind(j) \in {"ingest", "sync", "normalize"}
    /\ \A r \in Pending(j) : r.filing \in Upserts(j) \cup filings /\ r.facts = None
    /\ \A f \in Upserts(j) : \E r \in Pending(j) : r.filing = f
    /\ Kind(j) = "ingest" =>
         \A i \in 1..Len(req[j].types) : \E r \in Pending(j) :
             r.filing = req[j].filing /\ r.type = req[j].types[i] /\ r.seq = i
    /\ Kind(j) = "sync" => ToSet(req[j].filings) \subseteq Upserts(j) \cup filings

\* The body of OkMeansStored.
Stored(j) ==
    /\ Kind(j) = "ingest" =>
         \A i \in 1..Len(req[j].types) : \E r \in versions :
             r.filing = req[j].filing /\ r.type = req[j].types[i] /\ r.seq = i
    /\ Kind(j) = "sync" => ToSet(req[j].filings) \subseteq filings

\* The payload a job has read is that of a version with the identity it persists,
\* unless an update came after.
HasRead(j) ==
    /\ Kind(j) = "persist"
    /\ chosen[j] # None
    /\ j \notin overtaken => \E q \in Persisted(j) : q.payload = chosen[j]

NothingPending(j) ==
    /\ rows[j] = {} /\ held[j] = {}
    /\ toUpsert[j] = <<>> /\ toInsert[j] = <<>>

JobInv(j) ==
    /\ pc[j] # "idle" => req[j] \in Requests /\ outcome[j] = "none"
    /\ pc[j] = "writing" => Writes(j)
    /\ pc[j] # "writing" => NothingPending(j)
    /\ pc[j] = "replacing" => HasRead(j)
    /\ pc[j] # "replacing" => chosen[j] = None
    /\ outcome[j] = "ok" => Stored(j)

\* No two rows, stored or about to be, have the same key.
Keys ==
    /\ \A r, q \in versions : SameKey(r, q) => r = q
    /\ \A j \in Jobs : \A r \in rows[j] :
         /\ \A q \in versions : ~SameKey(q, r)
         /\ \A q \in rows[j] : SameKey(q, r) => q = r
         /\ \A k \in Jobs \ {j} : \A q \in rows[k] : ~SameKey(q, r)

IInv ==
    /\ Types0
    /\ Keys
    /\ FilingsWithVersions
    /\ FactsFromIdentity
    /\ \A j \in Jobs : JobInv(j)

\* No version is lost.
Grows == \A r \in versions : \E q \in versions' : Continues(q, r)

\* What the persist d has read is not replaced unnoticed.
Kept(d) ==
    /\ d \in overtaken => d \in overtaken'
    /\ pc[d] = "replacing" /\ d \notin overtaken' =>
         \A r \in Persisted(d) : r.payload = chosen[d] => \E q \in versions' :
             q.type = r.type /\ q.date = r.date /\ q.seq = r.seq /\ q.payload = r.payload

-----------------------------------------------------------------------------
(* Preservation.                                                           *)

\* A step of one job leaves what is known of another, as long as nothing stored is
\* lost.
LEMMA Others ==
    ASSUME NEW d \in Jobs, JobInv(d), Grows, Kept(d), filings \subseteq filings',
           <<req'[d], pc'[d], toUpsert'[d], toInsert'[d], held'[d], rows'[d], chosen'[d], outcome'[d]>>
             = <<req[d], pc[d], toUpsert[d], toInsert[d], held[d], rows[d], chosen[d], outcome[d]>>
    PROVE  JobInv(d)'
<1>1. Kind(d)' = Kind(d) /\ Pending(d)' = Pending(d) /\ Upserts(d)' = Upserts(d)
    BY DEF Kind, Pending, Upserts
<1>2. Writes(d) => Writes(d)'
    BY <1>1 DEF Writes
<1>3. Stored(d) => Stored(d)'
    BY <1>1 DEF Stored, Grows, Continues
<1>4. pc[d] = "replacing" /\ HasRead(d) => HasRead(d)'
  <2> SUFFICES ASSUME pc[d] = "replacing", HasRead(d), d \notin overtaken'
               PROVE  \E q \in Persisted(d)' : q.payload = chosen[d]
      BY <1>1 DEF HasRead
  <2>1. PICK r \in Persisted(d) : r.payload = chosen[d]
      BY DEF HasRead, Kept
  <2>2. r.type = req[d].type /\ YearOf[r.date] = req[d].year /\ r.seq = req[d].seq
      BY DEF Persisted, Matching
  <2>3. PICK q \in versions' :
            q.type = r.type /\ q.date = r.date /\ q.seq = r.seq /\ q.payload = chosen[d]
      BY <2>1 DEF Kept
  <2> QED
      BY <2>2, <2>3 DEF Persisted, Matching
<1> QED
    BY <1>1, <1>2, <1>3, <1>4 DEF JobInv, NothingPending

LEMMA SameTables ==
    ASSUME UNCHANGED versions
    PROVE  Grows
BY DEF Grows, Continues

\* The same when the tables are left alone.
LEMMA Elsewhere ==
    ASSUME NEW d \in Jobs, JobInv(d), UNCHANGED <<filings, versions>>,
           d \in overtaken <=> d \in overtaken',
           <<req'[d], pc'[d], toUpsert'[d], toInsert'[d], held'[d], rows'[d], chosen'[d], outcome'[d]>>
             = <<req[d], pc[d], toUpsert[d], toInsert[d], held[d], rows[d], chosen[d], outcome[d]>>
    PROVE  JobInv(d)'
<1>1. Kept(d)
    BY DEF Kept, Persisted, Matching
<1> QED
    BY <1>1, Others, SameTables

\* A job that ends without writing a table.
LEMMA Ended ==
    ASSUME IInv, NEW j \in Jobs, NEW how \in Outcomes, how = "ok" => Stored(j), how # "none",
           End(j, how), UNCHANGED <<filings, versions, stale, req, calls>>,
           overtaken' \in {overtaken, overtaken \ {j}}
    PROVE  IInv'
<1>1. Types0'
    BY DEF IInv, Types0, End, Set, tables
<1>2. /\ pc'[j] = "idle" /\ outcome'[j] = how /\ chosen'[j] = None
      /\ toUpsert'[j] = <<>> /\ toInsert'[j] = <<>> /\ held'[j] = {} /\ rows'[j] = {}
      /\ \A k \in Jobs \ {j} : rows'[k] = rows[k]
    BY DEF IInv, Types0, End, Set
<1>3. Keys'
  <2>1. \A k \in Jobs : rows'[k] \subseteq rows[k]
      BY <1>2
  <2> QED
      BY <2>1 DEF IInv, Keys, tables, SameKey
<1>4. JobInv(j)'
    BY <1>2 DEF JobInv, NothingPending, Stored, Kind, tables
<1>5. ASSUME NEW d \in Jobs, d # j
      PROVE  JobInv(d)'
    BY <1>5, Elsewhere DEF IInv, Types0, End, Set, tables
<1>6. FilingsWithVersions' /\ FactsFromIdentity'
    BY DEF IInv, FilingsWithVersions, FactsFromIdentity, SameIdentity, Key, tables
<1> QED
    BY <1>1, <1>3, <1>4, <1>5, <1>6 DEF IInv

\* A job that starts to write fs and rs.
LEMMA Started ==
    ASSUME IInv, NEW j \in Jobs, pc[j] = "start", NEW fs \in Seq(Filings), NEW rs \in Seq(Row),
           Kind(j) \in {"ingest", "sync", "normalize"},
           \A r \in ToSet(rs) : r.filing \in ToSet(fs) \cup filings /\ r.facts = None,
           \A f \in ToSet(fs) : \E r \in ToSet(rs) : r.filing = f,
           Kind(j) = "ingest" =>
               \A i \in 1..Len(req[j].types) : \E r \in ToSet(rs) :
                   r.filing = req[j].filing /\ r.type = req[j].types[i] /\ r.seq = i,
           Kind(j) = "sync" => ToSet(req[j].filings) \subseteq ToSet(fs) \cup filings,
           StartWriting(j, fs, rs), UNCHANGED <<tables, req, calls>>
    PROVE  IInv'
<1>1. Types0'
    BY DEF IInv, Types0, StartWriting, Set, tables
<1>2. /\ pc'[j] = "writing" /\ toUpsert'[j] = fs /\ toInsert'[j] = rs
      /\ rows' = rows /\ held' = held /\ outcome' = outcome /\ chosen' = chosen
      /\ rows[j] = {} /\ held[j] = {} /\ outcome[j] = "none" /\ chosen[j] = None
      /\ req[j] \in Requests
    BY DEF IInv, Types0, StartWriting, Set, JobInv, NothingPending
<1>3. Pending(j)' = ToSet(rs) /\ Upserts(j)' = ToSet(fs) /\ Kind(j)' = Kind(j)
    BY <1>2 DEF Pending, Upserts, Kind
<1>4. Writes(j)'
    BY <1>3 DEF Writes, tables
<1>5. JobInv(j)'
    BY <1>2, <1>4 DEF JobInv
<1>6. ASSUME NEW d \in Jobs, d # j
      PROVE  JobInv(d)'
    BY <1>6, Elsewhere DEF IInv, Types0, StartWriting, Set, tables
<1>7. Keys'
    BY <1>2 DEF IInv, Keys, tables, SameKey
<1>8. FilingsWithVersions' /\ FactsFromIdentity'
    BY DEF IInv, FilingsWithVersions, FactsFromIdentity, SameIdentity, Key, tables
<1> QED
    BY <1>1, <1>5, <1>6, <1>7, <1>8 DEF IInv

LEMMA IngestKeeps ==
    ASSUME IInv, NEW j \in Jobs, Ingest(j)
    PROVE  IInv'
<1> DEFINE f  == req[j].filing
           ts == req[j].types
           rs == VersionsOf(f, ts)
<1>1. req[j] \in Requests /\ Kind(j) = "ingest"
    BY DEF Ingest, IInv, JobInv
<1>2. f \in Filings /\ ts \in TypeList
    BY <1>1, Fields DEF Kind
<1>3. rs \in Seq(Row) /\ <<f>> \in Seq(Filings)
    BY <1>2, VersionRows
<1>4. DOMAIN rs = 1..Len(ts) /\ 1 \in 1..Len(ts)
    BY <1>2, VersionRows, Lists
<1>5. ToSet(<<f>>) = {f}
    BY DEF ToSet
<1>6. StartWriting(j, <<f>>, rs) /\ UNCHANGED <<tables, req, calls>> /\ pc[j] = "start"
    BY DEF Ingest
<1> HIDE DEF rs
<1>7. \A i \in 1..Len(ts) : /\ rs[i] \in ToSet(rs)
                            /\ rs[i].filing = f /\ rs[i].type = ts[i] /\ rs[i].seq = i
                            /\ rs[i].payload = None /\ rs[i].facts = None
    BY <1>2, <1>4, VersionRows DEF rs, ToSet
<1>8. \A r \in ToSet(rs) : r.filing = f /\ r.payload = None /\ r.facts = None
    BY <1>4, <1>7 DEF ToSet
<1>9. \A g \in ToSet(<<f>>) : \E r \in ToSet(rs) : r.filing = g
    BY <1>4, <1>5, <1>7
<1>10. /\ \A r \in ToSet(rs) : r.filing \in ToSet(<<f>>) \cup filings /\ r.facts = None
       /\ \A i \in 1..Len(req[j].types) : \E r \in ToSet(rs) :
             r.filing = req[j].filing /\ r.type = req[j].types[i] /\ r.seq = i
       /\ Kind(j) # "sync"
    BY <1>1, <1>5, <1>7, <1>8
<1> HIDE DEF f
<1> QED
    BY <1>1, <1>3, <1>6, <1>9, <1>10, Started

LEMMA SyncKeeps ==
    ASSUME IInv, NEW j \in Jobs, Sync(j)
    PROVE  IInv'
<1>1. req[j] \in Requests /\ Kind(j) = "sync"
    BY DEF Sync, IInv, JobInv
<1>2. req[j].types \in TypeList
    BY <1>1, Fields DEF Kind
<1>3. PICK new \in FilingList :
          /\ ToSet(new) = Unstored(j)
          /\ StartWriting(j, new, BatchOf(new, req[j].types))
    BY DEF Sync
<1>4. new \in Seq(Filings)
    BY Lists
<1>5. /\ BatchOf(new, req[j].types) \in Seq(Row)
      /\ \A r \in ToSet(BatchOf(new, req[j].types)) : /\ r.filing \in ToSet(new)
                                                      /\ r.payload = None /\ r.facts = None
      /\ \A f \in ToSet(new) : \E r \in ToSet(BatchOf(new, req[j].types)) : r.filing = f
    BY <1>2, <1>4, BatchRows
<1>6. ToSet(req[j].filings) \subseteq ToSet(new) \cup filings
    BY <1>3 DEF Unstored
<1>7. UNCHANGED <<tables, req, calls>> /\ pc[j] = "start"
    BY DEF Sync
<1> QED
    BY <1>1, <1>3, <1>4, <1>5, <1>6, <1>7, Started

LEMMA NormalizeKeeps ==
    ASSUME IInv, NEW j \in Jobs, Normalize(j)
    PROVE  IInv'
<1> DEFINE old == FirstOf(Targets(j))
           new == [old EXCEPT !.id = 0, !.payload = req[j].payload, !.facts = None]
<1>1. req[j] \in Requests /\ Kind(j) = "normalize" /\ Targets(j) # {}
    BY DEF Normalize, IInv, JobInv
<1>2. req[j].payload \in Payloads \cup {None}
    BY <1>1, Fields DEF Kind
<1>3. old \in versions /\ old.filing = req[j].filing
  <2>1. Targets(j) \subseteq versions /\ \A r \in Targets(j) : r.filing = req[j].filing
      BY DEF Targets, Matching
  <2>2. Targets(j) \in SUBSET Row
      BY <2>1 DEF IInv, Types0
  <2>3. old \in Targets(j)
      BY <1>1, <2>2, FirstIsOne
  <2> QED
      BY <2>1, <2>3
<1>4. StartWriting(j, <<>>, <<new>>) /\ UNCHANGED <<tables, req, calls>> /\ pc[j] = "start"
    BY DEF Normalize
<1> HIDE DEF old
<1>5. /\ new \in Row
      /\ new.filing = req[j].filing /\ new.facts = None
  <2> DEFINE a == [old EXCEPT !.id = 0]
             b == [a EXCEPT !.payload = req[j].payload]
             c == [b EXCEPT !.facts = None]
  <2>1. old \in Row /\ 0 \in 0..MaxRows
      BY <1>3, PipelineAssumption DEF PipelineAssumption, IInv, Types0
  <2>2. a \in Row /\ a.filing = req[j].filing
      BY <1>3, <2>1 DEF Row
  <2> HIDE DEF a
  <2>3. b \in Row /\ b.filing = req[j].filing
      BY <1>2, <2>2 DEF Row
  <2> HIDE DEF b
  <2>4. c \in Row /\ c.filing = req[j].filing /\ c.facts = None
      BY <2>3 DEF Row
  <2>5. new = c
      BY DEF a, b, c
  <2> HIDE DEF c, new
  <2> QED
      BY <2>4, <2>5
<1>6. req[j].filing \in filings
    BY <1>3 DEF IInv, FilingsWithVersions
<1> HIDE DEF new
<1>7. ToSet(<<new>>) = {new} /\ ToSet(<<>>) = {} /\ <<new>> \in Seq(Row) /\ <<>> \in Seq(Filings)
    BY <1>5 DEF ToSet
<1> QED
    BY <1>1, <1>4, <1>5, <1>6, <1>7, Started

LEMMA UpsertKeeps ==
    ASSUME IInv, NEW j \in Jobs, UpsertFiling(j)
    PROVE  IInv'
<1>1. /\ toUpsert[j] \in Seq(Filings) /\ toUpsert[j] # <<>>
      /\ pc[j] = "writing"
      /\ UNCHANGED <<tables, req, pc, toInsert, rows, chosen, outcome, calls>>
    BY DEF UpsertFiling, IInv, Types0
<1>2. /\ Head(toUpsert[j]) \in Filings
      /\ Tail(toUpsert[j]) \in Seq(Filings)
      /\ ToSet(toUpsert[j]) = {Head(toUpsert[j])} \cup ToSet(Tail(toUpsert[j]))
    BY <1>1, HeadAndTail
<1>3. Types0'
    BY <1>1, <1>2 DEF UpsertFiling, Set, IInv, Types0, tables
<1>4. Upserts(j)' = Upserts(j) /\ Pending(j)' = Pending(j) /\ Kind(j)' = Kind(j)
    BY <1>1, <1>2 DEF UpsertFiling, Set, IInv, Types0, Upserts, Pending, Kind
<1>5. JobInv(j)'
    BY <1>1, <1>4 DEF IInv, JobInv, Writes, Stored, tables
<1>6. ASSUME NEW d \in Jobs, d # j
      PROVE  JobInv(d)'
    BY <1>1, <1>6, Elsewhere DEF UpsertFiling, Set, IInv, Types0, tables
<1>7. Keys' /\ FilingsWithVersions' /\ FactsFromIdentity'
    BY <1>1 DEF IInv, Keys, SameKey, FilingsWithVersions, FactsFromIdentity, SameIdentity, Key, tables
<1> QED
    BY <1>3, <1>5, <1>6, <1>7 DEF IInv

LEMMA InsertKeeps ==
    ASSUME IInv, NEW j \in Jobs, InsertVersion(j)
    PROVE  IInv'
<1> DEFINE h == Head(toInsert[j])
<1>1. /\ toInsert[j] \in Seq(Row) /\ toInsert[j] # <<>>
      /\ pc[j] = "writing" /\ toUpsert[j] = <<>>
      /\ UNCHANGED <<tables, req, pc, toUpsert, held, chosen, outcome, calls>>
    BY DEF InsertVersion, Inserting, IInv, Types0
<1>2. PICK id \in 1..MaxRows : rows' = Set(rows, j, rows[j] \cup {[h EXCEPT !.id = id]})
    BY DEF InsertVersion
<1>3. /\ h \in Row
      /\ Tail(toInsert[j]) \in Seq(Row)
      /\ ToSet(toInsert[j]) = {h} \cup ToSet(Tail(toInsert[j]))
    BY <1>1, HeadAndTail
<1> DEFINE new == [h EXCEPT !.id = id]
<1> HIDE DEF h
<1>4. /\ new \in Row
      /\ new.type = h.type /\ new.date = h.date /\ new.seq = h.seq /\ new.filing = h.filing
      /\ new.facts = h.facts
  <2>1. id \in 0..MaxRows /\ h.payload \in Payloads \cup {None} /\ h.facts \in Payloads \cup {None}
      BY <1>3, PipelineAssumption DEF PipelineAssumption, Row
  <2> QED
      BY <1>3, <2>1 DEF Row
<1>5. rows' = [rows EXCEPT ![j] = rows[j] \cup {new}]
    BY <1>2 DEF Set, h
<1> HIDE DEF new
<1>6. /\ toInsert' = [toInsert EXCEPT ![j] = Tail(toInsert[j])]
      /\ \A k \in Jobs \ {j} : \A q \in rows[k] : ~SameKey(q, h)
      /\ \A q \in versions \cup rows[j] : ~SameKey(q, h)
    BY DEF InsertVersion, Set, MustWait, Duplicate, h
<1>7. Types0'
    BY <1>1, <1>3, <1>4, <1>5, <1>6 DEF IInv, Types0, tables
<1>8. /\ Upserts(j)' = Upserts(j) /\ Kind(j)' = Kind(j)
      /\ Pending(j)' = rows[j] \cup {new} \cup ToSet(Tail(toInsert[j]))
      /\ Pending(j) = rows[j] \cup {h} \cup ToSet(Tail(toInsert[j]))
    BY <1>1, <1>3, <1>5, <1>6 DEF IInv, Types0, Upserts, Pending, Kind
<1>9. Writes(j)'
  <2>1. Writes(j)
      BY <1>1 DEF IInv, JobInv
  <2>2. \A r \in Pending(j) : r = h \/ r \in Pending(j)'
      BY <1>8
  <2>3. \A r \in Pending(j)' : r = new \/ r \in Pending(j)
      BY <1>8
  <2>4. new \in Pending(j)' /\ h \in Pending(j)
      BY <1>8
  <2>5. \A r \in Pending(j)' : r.filing \in Upserts(j)' \cup filings' /\ r.facts = None
      BY <1>1, <1>4, <1>8, <2>1, <2>3, <2>4 DEF Writes, tables
  <2>6. \A f \in Upserts(j)' : \E r \in Pending(j)' : r.filing = f
      BY <1>4, <1>8, <2>1, <2>2, <2>4 DEF Writes
  <2>7. Kind(j)' = "ingest" =>
          \A i \in 1..Len(req'[j].types) : \E r \in Pending(j)' :
             r.filing = req'[j].filing /\ r.type = req'[j].types[i] /\ r.seq = i
      BY <1>1, <1>4, <1>8, <2>1, <2>2, <2>4 DEF Writes
  <2> QED
      BY <1>1, <1>8, <2>1, <2>5, <2>6, <2>7 DEF Writes, tables
<1>10. JobInv(j)'
    BY <1>1, <1>8, <1>9 DEF IInv, JobInv, Stored, tables
<1>11. ASSUME NEW d \in Jobs, d # j
       PROVE  JobInv(d)'
    BY <1>1, <1>5, <1>6, <1>11, Elsewhere DEF IInv, Types0, tables
<1>12. Keys'
  <2>1. \A q : /\ SameKey(q, new) <=> SameKey(q, h)
               /\ SameKey(new, q) <=> SameKey(h, q)
               /\ SameKey(h, q) <=> SameKey(q, h)
      BY <1>4 DEF SameKey
  <2>2. /\ \A k \in Jobs \ {j} : rows'[k] = rows[k]
        /\ rows'[j] = rows[j] \cup {new}
        /\ versions' = versions
      BY <1>1, <1>5 DEF IInv, Types0, tables
  <2>3. \A r, q \in versions' : SameKey(r, q) => r = q
      BY <2>2 DEF IInv, Keys
  <2>4. ASSUME NEW k \in Jobs, NEW r \in rows'[k]
        PROVE  /\ \A q \in versions' : ~SameKey(q, r)
               /\ \A q \in rows'[k] : SameKey(q, r) => q = r
               /\ \A l \in Jobs \ {k} : \A q \in rows'[l] : ~SameKey(q, r)
    <3>1. CASE k = j /\ r = new
        BY <1>6, <2>1, <2>2, <3>1
    <3>2. CASE k = j /\ r # new
        BY <1>6, <2>1, <2>2, <2>4, <3>2 DEF IInv, Keys
    <3>3. CASE k # j
        BY <1>6, <2>1, <2>2, <2>4, <3>3 DEF IInv, Keys
    <3> QED
        BY <3>1, <3>2, <3>3
  <2> QED
      BY <2>3, <2>4 DEF Keys, SameKey
<1>13. FilingsWithVersions' /\ FactsFromIdentity'
    BY <1>1 DEF IInv, FilingsWithVersions, FactsFromIdentity, SameIdentity, Key, tables
<1> QED
    BY <1>7, <1>10, <1>11, <1>12, <1>13 DEF IInv
LEMMA CommitKeeps ==
    ASSUME IInv, NEW j \in Jobs, Commit(j)
    PROVE  IInv' /\ Grows
<1>1. /\ pc[j] = "writing" /\ toUpsert[j] = <<>> /\ toInsert[j] = <<>>
      /\ filings' = filings \cup held[j]
      /\ versions' = versions \cup rows[j]
      /\ End(j, "ok") /\ UNCHANGED <<overtaken, stale, req, calls>>
    BY DEF Commit
<1>2. Pending(j) = rows[j] /\ Upserts(j) = held[j]
    BY <1>1 DEF Pending, Upserts, ToSet
<1>3. Writes(j) /\ Types0 /\ Keys
    BY <1>1 DEF IInv, JobInv
<1>4. Types0'
    BY <1>1, <1>3 DEF Types0, End, Set, Outcomes
<1>5. /\ pc'[j] = "idle" /\ outcome'[j] = "ok" /\ chosen'[j] = None
      /\ toUpsert'[j] = <<>> /\ toInsert'[j] = <<>> /\ held'[j] = {} /\ rows'[j] = {}
      /\ \A k \in Jobs \ {j} : rows'[k] = rows[k]
    BY <1>1, <1>3 DEF Types0, End, Set
<1>6. Grows
    BY <1>1 DEF Grows, Continues
<1>7. Stored(j)'
    BY <1>1, <1>2, <1>3 DEF Stored, Writes, Kind
<1>8. JobInv(j)'
    BY <1>5, <1>7 DEF JobInv, NothingPending
<1>9. ASSUME NEW d \in Jobs, d # j
      PROVE  JobInv(d)'
  <2>1. JobInv(d) /\ Kept(d)
      BY <1>1 DEF IInv, Kept, Persisted, Matching
  <2>2. <<req'[d], pc'[d], toUpsert'[d], toInsert'[d], held'[d], rows'[d], chosen'[d], outcome'[d]>>
          = <<req[d], pc[d], toUpsert[d], toInsert[d], held[d], rows[d], chosen[d], outcome[d]>>
      BY <1>1, <1>3, <1>9 DEF Types0, End, Set
  <2> QED
      BY <1>1, <1>6, <2>1, <2>2, Others
<1>10. Keys'
  <2>1. ASSUME NEW r \in versions', NEW q \in versions', SameKey(r, q)
        PROVE  r = q
    <3>1. SameKey(q, r)
        BY <2>1 DEF SameKey
    <3>2. CASE r \in versions /\ q \in versions
        BY <1>3, <2>1, <3>2 DEF Keys
    <3>3. CASE r \in rows[j]
        BY <1>1, <1>3, <2>1, <3>1, <3>3 DEF Keys
    <3>4. CASE q \in rows[j]
        BY <1>1, <1>3, <2>1, <3>1, <3>4 DEF Keys
    <3> QED
        BY <1>1, <3>2, <3>3, <3>4
  <2>2. ASSUME NEW k \in Jobs, NEW r \in rows'[k]
        PROVE  /\ \A q \in versions' : ~SameKey(q, r)
               /\ \A q \in rows'[k] : SameKey(q, r) => q = r
               /\ \A l \in Jobs \ {k} : \A q \in rows'[l] : ~SameKey(q, r)
    <3>1. k # j /\ rows'[k] = rows[k]
        BY <1>5, <2>2
    <3>2. \A l \in Jobs : rows'[l] \subseteq rows[l]
        BY <1>5
    <3> QED
        BY <1>1, <1>3, <2>2, <3>1, <3>2 DEF Keys
  <2> QED
      BY <2>1, <2>2 DEF Keys, SameKey
<1>12. FilingsWithVersions'
  <2>1. filings = {r.filing : r \in versions}
      BY DEF IInv, FilingsWithVersions
  <2>2. \A r \in rows[j] : r.filing \in held[j] \cup filings
      BY <1>2, <1>3 DEF Writes
  <2>3. \A f \in held[j] : \E r \in rows[j] : r.filing = f
      BY <1>2, <1>3 DEF Writes
  <2> QED
      BY <1>1, <2>1, <2>2, <2>3 DEF FilingsWithVersions
<1>13. FactsFromIdentity'
    BY <1>1, <1>2, <1>3 DEF IInv, FactsFromIdentity, Writes
<1> QED
    BY <1>4, <1>6, <1>8, <1>9, <1>10, <1>12, <1>13 DEF IInv

\* Rows change their payload or their facts in place.
LEMMA Rewritten ==
    ASSUME IInv, NEW j \in Jobs, pc[j] # "writing", End(j, "ok"), Kind(j) \in {"update", "persist"},
           UNCHANGED <<filings, req, calls>>,
           versions' \subseteq Row, overtaken' \subseteq Jobs,
           stale' \subseteq Types \X Dates \X Positions,
           Grows, \A d \in Jobs \ {j} : Kept(d),
           \A q \in versions' : \E r \in versions :
               q.type = r.type /\ q.date = r.date /\ q.seq = r.seq /\ q.filing = r.filing,
           \A q, r \in versions' : SameKey(q, r) => q = r,
           FactsFromIdentity'
    PROVE  IInv'
<1>1. Types0 /\ Types0'
    BY DEF IInv, Types0, End, Set, Outcomes
<1>2. /\ pc'[j] = "idle" /\ outcome'[j] = "ok" /\ chosen'[j] = None
      /\ toUpsert'[j] = <<>> /\ toInsert'[j] = <<>> /\ held'[j] = {} /\ rows'[j] = {}
      /\ \A k \in Jobs \ {j} : rows'[k] = rows[k]
    BY <1>1 DEF Types0, End, Set
<1>4. JobInv(j)'
    BY <1>2 DEF JobInv, NothingPending, Stored, Kind
<1>5. ASSUME NEW d \in Jobs, d # j
      PROVE  JobInv(d)'
  <2>1. JobInv(d) /\ Kept(d)
      BY <1>5 DEF IInv
  <2>2. <<req'[d], pc'[d], toUpsert'[d], toInsert'[d], held'[d], rows'[d], chosen'[d], outcome'[d]>>
          = <<req[d], pc[d], toUpsert[d], toInsert[d], held[d], rows[d], chosen[d], outcome[d]>>
      BY <1>1, <1>5 DEF Types0, End, Set
  <2> QED
      BY <2>1, <2>2, Others
<1>6. Keys'
  <2>1. \A k \in Jobs : rows'[k] \subseteq rows[k]
      BY <1>2
  <2>2. \A q \in versions' : \E r \in versions : \A x : SameKey(q, x) <=> SameKey(r, x)
      BY DEF SameKey
  <2>3. Keys
      BY DEF IInv
  <2>4. \A k \in Jobs : \A r \in rows'[k] : \A q \in versions' : ~SameKey(q, r)
      BY <2>1, <2>2, <2>3 DEF Keys
  <2>5. \A k \in Jobs : \A r \in rows'[k] :
            /\ \A q \in rows'[k] : SameKey(q, r) => q = r
            /\ \A l \in Jobs \ {k} : \A q \in rows'[l] : ~SameKey(q, r)
      BY <2>1, <2>3 DEF Keys
  <2> QED
      BY <2>4, <2>5 DEF Keys, SameKey
<1>7. FilingsWithVersions'
  <2>1. \A r \in versions : \E q \in versions' : q.filing = r.filing
      BY DEF Grows, Continues
  <2>2. \A q \in versions' : \E r \in versions : q.filing = r.filing
      OBVIOUS
  <2> QED
    <3> DEFINE after == {q.filing : q \in versions'}
               before == {r.filing : r \in versions}
    <3>1. ASSUME NEW f \in after
          PROVE  f \in before
        BY <2>2
    <3>2. ASSUME NEW f \in before
          PROVE  f \in after
        BY <2>1
    <3>3. after = before
      <4> HIDE DEF after, before
      <4> QED
          BY <3>1, <3>2
    <3> QED
        BY <3>3 DEF IInv, FilingsWithVersions
<1> QED
    BY <1>1, <1>4, <1>5, <1>6, <1>7 DEF IInv

LEMMA UpdateKeeps ==
    ASSUME IInv, NEW j \in Jobs, UpdatePayload(j)
    PROVE  IInv' /\ Grows
<1> DEFINE New(r) == IF r \in Updated(j) THEN [r EXCEPT !.payload = req[j].payload] ELSE r
<1>1. /\ pc[j] = "start" /\ Kind(j) = "update" /\ filings' = filings /\ req' = req /\ calls' = calls
      /\ versions' = {New(r) : r \in versions}
      /\ End(j, "ok")
      /\ overtaken' = overtaken \cup
           {k \in Jobs : /\ pc[k] = "replacing"
                        /\ \E r \in Updated(j) \cap Persisted(k) : r.payload = chosen[k]}
      /\ stale' = stale \cup
           {Key(q) : q \in {q \in versions : \E r \in Updated(j) :
                               SameIdentity(q, r) /\ q.facts = r.payload /\ q.facts # None}}
    BY DEF UpdatePayload
<1>2. req[j].payload \in Payloads /\ req[j].payload # None
    BY <1>1, Fields, PipelineAssumption DEF PipelineAssumption, IInv, JobInv, Kind
<1>3. ASSUME NEW r \in versions
      PROVE  /\ New(r) \in Row /\ New(r).type = r.type /\ New(r).date = r.date
             /\ New(r).seq = r.seq /\ New(r).filing = r.filing /\ New(r).facts = r.facts
             /\ r.payload # None => New(r).payload # None
             /\ r \notin Updated(j) => New(r).payload = r.payload
  <2>1. r \in Row
      BY DEF IInv, Types0
  <2> QED
      BY <1>2, <2>1 DEF Row
<1> HIDE DEF New
<1>4. versions' \subseteq Row
    BY <1>1, <1>3
<1>5. overtaken' \subseteq Jobs
    BY <1>1 DEF IInv, Types0
<1>6. stale' \subseteq Types \X Dates \X Positions
  <2>1. \A q \in versions : Key(q) \in Types \X Dates \X Positions
      BY DEF IInv, Types0, Row, Key
  <2> QED
      BY <1>1, <2>1 DEF IInv, Types0
<1>7. Grows
    BY <1>1, <1>3 DEF Grows, Continues
<1>8. ASSUME NEW d \in Jobs \ {j}
      PROVE  Kept(d)
  <2> SUFFICES ASSUME pc[d] = "replacing", d \notin overtaken',
                      NEW r \in Persisted(d), r.payload = chosen[d]
               PROVE  \E q \in versions' : /\ q.type = r.type /\ q.date = r.date /\ q.seq = r.seq
                                           /\ q.payload = r.payload
      BY <1>1 DEF Kept
  <2>1. r \in versions
      BY DEF Persisted, Matching
  <2>2. r \notin Updated(j)
      BY <1>1
  <2> QED
      BY <1>1, <1>3, <2>1, <2>2
<1>9. \A q \in versions' : \E r \in versions :
          q.type = r.type /\ q.date = r.date /\ q.seq = r.seq /\ q.filing = r.filing
    BY <1>1, <1>3
<1>10. \A q, r \in versions' : SameKey(q, r) => q = r
  <2>1. Keys
      BY DEF IInv
  <2>2. \A q, r \in versions : SameKey(New(q), New(r)) => SameKey(q, r)
      BY <1>3 DEF SameKey
  <2> QED
      BY <1>1, <2>1, <2>2 DEF Keys
<1>11. FactsFromIdentity'
  <2> SUFFICES ASSUME NEW r \in versions, New(r).facts # None, Key(New(r)) \notin stale'
               PROVE  \E q \in versions' : SameIdentity(New(r), q) /\ q.payload = New(r).facts
      BY <1>1 DEF FactsFromIdentity
  <2>1. Key(New(r)) = Key(r) /\ New(r).facts = r.facts
      BY <1>3 DEF Key
  <2>2. r.facts # None /\ Key(r) \notin stale
      BY <1>1, <2>1
  <2>3. PICK q \in versions : SameIdentity(r, q) /\ q.payload = r.facts
      BY <2>2 DEF IInv, FactsFromIdentity
  <2>4. q \notin Updated(j)
      BY <1>1, <2>1, <2>2, <2>3
  <2>5. New(q) \in versions' /\ New(q).payload = New(r).facts
      BY <1>1, <1>3, <2>1, <2>3, <2>4
  <2>6. SameIdentity(New(r), New(q))
      BY <1>3, <2>3 DEF SameIdentity
  <2> QED
      BY <2>5, <2>6
<1> QED
    BY <1>1, <1>4, <1>5, <1>6, <1>7, <1>8, <1>9, <1>10, <1>11, Rewritten

LEMMA ReplaceKeeps ==
    ASSUME IInv, NEW j \in Jobs, ReplaceFacts(j)
    PROVE  IInv' /\ Grows
<1> DEFINE old == FirstOf(Persisted(j))
           new == [old EXCEPT !.facts = chosen[j]]
<1>1. /\ pc[j] = "replacing" /\ Persisted(j) # {}
      /\ versions' = (versions \ {old}) \cup {new}
      /\ stale' = IF j \in overtaken THEN stale \cup {Key(old)} ELSE stale \ {Key(old)}
      /\ End(j, "ok") /\ UNCHANGED <<filings, overtaken, req, calls>>
    BY DEF ReplaceFacts
<1>2. HasRead(j) /\ Types0 /\ Keys
    BY <1>1 DEF IInv, JobInv
<1>4. Persisted(j) \in SUBSET Row /\ Persisted(j) \subseteq versions
    BY <1>2 DEF Persisted, Matching, Types0
<1>5. old \in Persisted(j)
    BY <1>1, <1>4, FirstIsOne
<1> HIDE DEF old
<1>6. /\ new \in Row /\ new.type = old.type /\ new.date = old.date /\ new.seq = old.seq
      /\ new.filing = old.filing /\ new.payload = old.payload /\ new.facts = chosen[j]
  <2>1. old \in Row /\ chosen[j] \in Payloads \cup {None}
      BY <1>2, <1>4, <1>5 DEF Types0
  <2> QED
      BY <2>1 DEF Row
<1> HIDE DEF new
<1>3. chosen[j] # None
    BY <1>2 DEF HasRead
<1>7. old \in versions /\ \A src \in Persisted(j) : src \in versions /\ SameIdentity(old, src)
    BY <1>4, <1>5 DEF SameIdentity, Persisted, Matching
<1>8. versions' \subseteq Row
    BY <1>1, <1>2, <1>6 DEF Types0
<1>9. \A r \in versions : \E q \in versions' :
          /\ q.type = r.type /\ q.date = r.date /\ q.seq = r.seq
          /\ q.filing = r.filing /\ q.payload = r.payload
    BY <1>1, <1>6
<1>10. \A q \in versions' : \E r \in versions :
           /\ q.type = r.type /\ q.date = r.date /\ q.seq = r.seq
           /\ q.filing = r.filing /\ q.payload = r.payload
           /\ q = r \/ q = new
           /\ r = old <=> q = new
    BY <1>1, <1>6, <1>7
<1>11. Grows
    BY <1>1, <1>3, <1>6 DEF Grows, Continues
<1>12. \A q, r \in versions' : SameKey(q, r) => q = r
  <2>1. \A q \in versions' \ {new} : q \in versions /\ q # old
      BY <1>1
  <2>2. \A q : (SameKey(q, new) <=> SameKey(q, old)) /\ (SameKey(new, q) <=> SameKey(q, old))
      BY <1>6 DEF SameKey
  <2> QED
      BY <1>2, <1>7, <2>1, <2>2 DEF Keys
<1>13. /\ overtaken' \subseteq Jobs
       /\ stale' \subseteq Types \X Dates \X Positions
  <2>1. Key(old) \in Types \X Dates \X Positions
      BY <1>2, <1>7 DEF Types0, Row, Key
  <2> QED
      BY <1>1, <1>2, <2>1 DEF Types0
<1>14. FactsFromIdentity'
  <2> SUFFICES ASSUME NEW r \in versions', r.facts # None, Key(r) \notin stale'
               PROVE  \E q \in versions' : SameIdentity(r, q) /\ q.payload = r.facts
      BY DEF FactsFromIdentity
  <2>1. \E q \in versions : SameIdentity(r, q) /\ q.payload = r.facts
    <3>1. CASE r = new
      <4>1. Key(r) = Key(old) /\ r.facts = chosen[j]
          BY <1>6, <3>1 DEF Key
      <4>2. j \notin overtaken
          BY <1>1, <4>1
      <4>3. PICK src \in Persisted(j) : src.payload = chosen[j]
          BY <1>2, <4>2 DEF HasRead
      <4> QED
          BY <1>6, <1>7, <3>1, <4>1, <4>3 DEF SameIdentity
    <3>2. CASE r # new
      <4>1. r \in versions /\ r # old
          BY <1>1, <3>2
      <4>2. ~SameKey(r, old)
          BY <1>2, <1>7, <4>1 DEF Keys
      <4>3. Key(r) # Key(old)
          BY <4>2 DEF Key, SameKey
      <4>4. Key(r) \notin stale
          BY <1>1, <4>3
      <4> QED
          BY <4>1, <4>4 DEF IInv, FactsFromIdentity
    <3> QED
        BY <3>1, <3>2
  <2> QED
      BY <1>9, <2>1 DEF SameIdentity
<1>15. Kind(j) = "persist"
    BY <1>2 DEF HasRead
<1>16. \A q \in versions' : \E r \in versions :
           q.type = r.type /\ q.date = r.date /\ q.seq = r.seq /\ q.filing = r.filing
    BY <1>10
<1>17. \A d \in Jobs \ {j} : Kept(d)
    BY <1>1, <1>9 DEF Kept, Persisted, Matching
<1> QED
    BY <1>1, <1>8, <1>11, <1>12, <1>13, <1>14, <1>15, <1>16, <1>17, Rewritten

LEMMA ReadKeeps ==
    ASSUME IInv, NEW j \in Jobs, ReadPayload(j)
    PROVE  IInv'
<1>1. /\ pc[j] = "start" /\ Kind(j) = "persist" /\ UNCHANGED <<filings, versions, stale, req, calls>>
      /\ overtaken' = overtaken \ {j}
    BY DEF ReadPayload
<1>2. CASE End(j, "not_found") \/ End(j, "no_payload")
    BY <1>1, <1>2, Ended DEF Outcomes
<1>3. CASE /\ Persisted(j) # {}
           /\ FirstOf(Persisted(j)).payload # None
           /\ chosen' = Set(chosen, j, FirstOf(Persisted(j)).payload)
           /\ pc' = Set(pc, j, "replacing")
           /\ UNCHANGED <<work, outcome>>
  <2> DEFINE r == FirstOf(Persisted(j))
  <2>1. Persisted(j) \in SUBSET Row
      BY DEF IInv, Types0, Persisted, Matching
  <2>2. r \in Persisted(j)
      BY <1>3, <2>1, FirstIsOne
  <2> HIDE DEF r
  <2>3. r.payload \in Payloads
    <3>1. r \in Row /\ r.payload # None
        BY <1>3, <2>1, <2>2 DEF r
    <3> QED
        BY <3>1 DEF Row
  <2>4. Types0'
      BY <1>1, <1>3, <2>3 DEF IInv, Types0, Set, work, r
  <2>5. pc'[j] = "replacing" /\ chosen'[j] = r.payload /\ chosen'[j] # None
      BY <1>3 DEF IInv, Types0, Set, r
  <2>6. Persisted(j)' = Persisted(j) /\ Kind(j)' = Kind(j)
      BY <1>1 DEF Persisted, Matching, Kind
  <2>7. HasRead(j)'
      BY <1>1, <2>2, <2>5, <2>6 DEF HasRead
  <2>8. JobInv(j)'
      BY <1>1, <1>3, <2>5, <2>7 DEF IInv, JobInv, NothingPending, work
  <2>9. ASSUME NEW d \in Jobs, d # j
        PROVE  JobInv(d)'
      BY <1>1, <1>3, <2>9, Elsewhere DEF IInv, Types0, Set, work
  <2>10. Keys' /\ FilingsWithVersions' /\ FactsFromIdentity'
      BY <1>1, <1>3 DEF IInv, Keys, SameKey, FilingsWithVersions,
                        FactsFromIdentity, SameIdentity, Key, tables, work
  <2> QED
      BY <2>4, <2>8, <2>9, <2>10 DEF IInv
<1> QED
    BY <1>2, <1>3 DEF ReadPayload

LEMMA CallKeeps ==
    ASSUME IInv, NEW j \in Jobs, Call(j)
    PROVE  IInv'
<1>1. /\ pc[j] = "idle" /\ calls < MaxCalls /\ calls' = calls + 1
      /\ pc' = Set(pc, j, "start") /\ outcome' = Set(outcome, j, "none")
      /\ UNCHANGED <<tables, work, chosen>>
    BY DEF Call
<1>2. PICK q \in Requests : req' = Set(req, j, q)
    BY DEF Call
<1>3. Types0'
  <2>1. calls' \in 0..MaxCalls
      BY <1>1, PipelineAssumption DEF PipelineAssumption, IInv, Types0
  <2> QED
      BY <1>1, <1>2, <2>1 DEF IInv, Types0, Set, tables, work, Outcomes
<1>4. JobInv(j)'
    BY <1>1, <1>2 DEF IInv, Types0, JobInv, NothingPending, Set, work
<1>5. ASSUME NEW d \in Jobs, d # j
      PROVE  JobInv(d)'
    BY <1>1, <1>2, <1>5, Elsewhere DEF IInv, Types0, Set, tables, work
<1>6. Keys' /\ FilingsWithVersions' /\ FactsFromIdentity'
    BY <1>1 DEF IInv, Keys, SameKey, FilingsWithVersions,
                FactsFromIdentity, SameIdentity, Key, tables, work
<1> QED
    BY <1>3, <1>4, <1>5, <1>6 DEF IInv

\* The calls that end without a write.
LEMMA EndingsKeep ==
    ASSUME IInv, NEW j \in Jobs,
           SyncNothingNew(j) \/ InsertConflict(j) \/ NormalizeNothing(j) \/ Process(j)
             \/ UpdateNothing(j) \/ Fail(j)
    PROVE  IInv' /\ Grows
<1>1. UNCHANGED <<tables, req, calls>>
    BY DEF SyncNothingNew, InsertConflict, NormalizeNothing, Process, UpdateNothing, Fail
<1>2. Grows
    BY <1>1, SameTables DEF tables
<1>3. CASE SyncNothingNew(j)
  <2>1. Stored(j) /\ End(j, "ok")
      BY <1>3 DEF SyncNothingNew, Stored, Unstored
  <2> QED
      BY <1>1, <1>2, <2>1, Ended DEF Outcomes, tables
<1>4. CASE NormalizeNothing(j)
  <2>1. Stored(j) /\ (End(j, "ok") \/ End(j, "not_found"))
      BY <1>4 DEF NormalizeNothing, Stored
  <2> QED
      BY <1>1, <1>2, <2>1, Ended DEF Outcomes, tables
<1>5. CASE InsertConflict(j) \/ Process(j) \/ UpdateNothing(j) \/ Fail(j)
  <2>1. End(j, "conflict") \/ End(j, "not_found") \/ End(j, "failed")
      BY <1>5 DEF InsertConflict, Process, UpdateNothing, Fail
  <2> QED
      BY <1>1, <1>2, <2>1, Ended DEF Outcomes, tables
<1> QED
    BY <1>2, <1>3, <1>4, <1>5
-----------------------------------------------------------------------------
(* Why transactions do not wait in a circle.                               *)

\* r is locked after q by whoever locks both.
Below(Day, r, q) ==
    \/ Day[r.date] < Day[q.date]
    \/ r.date = q.date /\ r.seq > q.seq

\* A job with the rows S locks those of rs downwards, unless it meets a key of its own
\* first, where it ends.
Descends(Day, S, rs) ==
    \A i \in DOMAIN rs :
        \/ /\ \A r \in S : Below(Day, rs[i], r)
           /\ \A a \in 1..(i - 1) : Below(Day, rs[i], rs[a])
        \/ \E b \in 1..i :
             \/ \E q \in S : SameKey(q, rs[b])
             \/ \E a \in 1..(b - 1) : SameKey(rs[a], rs[b])

\* A job locks filings downwards, then versions.
LocksDown(Day, j) ==
    /\ rows[j] # {} => toUpsert[j] = <<>>
    /\ \A a, b \in DOMAIN toUpsert[j] : a < b => Filed[toUpsert[j][a]] > Filed[toUpsert[j][b]]
    /\ \A f \in held[j], a \in DOMAIN toUpsert[j] : Filed[f] > Filed[toUpsert[j][a]]
    /\ Descends(Day, rows[j], toInsert[j])

\* Blocks of n places follow each other.
LEMMA Blocks ==
    ASSUME NEW n \in Nat, n # 0, NEW k \in Nat, NEW l \in Nat, k < l
    PROVE  k * n + n <= l * n
<1>1. l - k - 1 \in Nat /\ l = k + 1 + (l - k - 1)
    OBVIOUS
<1>2. PICK d \in Nat : l = k + 1 + d
    BY <1>1
<1>3. l * n = k * n + n + d * n /\ d * n \in Nat
    BY <1>2
<1> QED
    BY <1>3

LEMMA Divided ==
    ASSUME NEW n \in Nat, n # 0, NEW a \in Nat
    PROVE  a \div n \in Nat /\ a = n * (a \div n) + (a % n)
OBVIOUS

LEMMA EarlierPlace ==
    ASSUME NEW n \in Nat, n # 0, NEW k \in Nat \ {0}, NEW l \in Nat \ {0},
           NEW p \in 1..n, NEW r \in 1..n, (k - 1) * n + p < (l - 1) * n + r
    PROVE  k < l \/ (k = l /\ p < r)
<1>1. CASE l < k
  <2>1. l - 1 \in Nat /\ k - 1 \in Nat /\ l - 1 < k - 1
      BY <1>1
  <2>2. (l - 1) * n + n <= (k - 1) * n /\ (l - 1) * n \in Nat /\ (k - 1) * n \in Nat
      BY <2>1, Blocks
  <2> QED
      BY <2>2
<1>2. CASE l = k
  <2>1. (k - 1) * n \in Nat
      OBVIOUS
  <2> QED
      BY <1>2, <2>1
<1> QED
    BY <1>1, <1>2

LEMMA EarlierBlock ==
    ASSUME NEW n \in Nat, n # 0, NEW k \in Nat \ {0}, NEW l \in Nat \ {0}, k < l
    PROVE  (k - 1) * n + 1 < (l - 1) * n + 1
<1>1. l - 1 \in Nat /\ k - 1 \in Nat /\ k - 1 < l - 1
    OBVIOUS
<1>2. (k - 1) * n + n <= (l - 1) * n /\ (l - 1) * n \in Nat /\ (k - 1) * n \in Nat
    BY <1>1, Blocks
<1> QED
    BY <1>2

\* The rows of one filing have the positions of their types.
LEMMA VersionsDescend ==
    ASSUME NEW Day, NEW f \in Filings, NEW ts \in TypeList
    PROVE  Descends(Day, {}, VersionsOf(f, ts))
<1>1. /\ VersionsOf(f, ts) \in Seq(Row) /\ Len(VersionsOf(f, ts)) = Len(ts)
      /\ Len(ts) \in Nat
    BY VersionRows, Lists
<1>2. DOMAIN VersionsOf(f, ts) = 1..Len(ts)
    BY <1>1
<1>3. \A i \in 1..Len(ts) : VersionsOf(f, ts)[i].date = DateOf[f] /\ VersionsOf(f, ts)[i].seq = i
    BY DEF VersionsOf
<1> HIDE DEF VersionsOf
<1>4. ASSUME NEW i \in 1..Len(ts), NEW a \in 1..(i - 1)
      PROVE  Below(Day, VersionsOf(f, ts)[i], VersionsOf(f, ts)[a])
  <2>1. a \in 1..Len(ts) /\ i > a
      BY <1>1
  <2> QED
      BY <1>3, <2>1 DEF Below
<1> QED
    BY <1>2, <1>4 DEF Descends

\* The rows of a batch go down from date to date, until a date comes again.
LEMMA BatchDescends ==
    ASSUME NEW Day \in [Dates -> Nat], NEW fs \in Seq(Filings), NEW ts \in TypeList,
           \A d, e \in Dates : Day[d] = Day[e] => d = e,
           \A x, y \in DOMAIN fs : x < y => Day[DateOf[fs[x]]] >= Day[DateOf[fs[y]]]
    PROVE  Descends(Day, {}, BatchOf(fs, ts))
<1> DEFINE n == Len(ts)
           m == Len(fs)
           K(i) == (i - 1) \div n + 1
           P(i) == ((i - 1) % n) + 1
           rs == BatchOf(fs, ts)
<1>0. /\ n \in Nat /\ n # 0 /\ m \in Nat
      /\ DOMAIN fs = 1..m
      /\ \A k \in 1..m : fs[k] \in Filings /\ DateOf[fs[k]] \in Dates
    BY Lists, PipelineAssumption DEF PipelineAssumption
<1>1. DOMAIN rs = 1..(m * n)
    BY <1>0 DEF BatchOf
<1>2. \A i \in 1..(m * n) : rs[i] = VersionsOf(fs[K(i)], ts)[P(i)]
    BY <1>0 DEF BatchOf
<1>3. \A i \in 1..(m * n) : /\ K(i) \in 1..m /\ P(i) \in 1..n
                            /\ i = (K(i) - 1) * n + P(i)
  <2> SUFFICES ASSUME NEW i \in 1..(m * n)
               PROVE  K(i) \in 1..m /\ P(i) \in 1..n /\ i = (K(i) - 1) * n + P(i)
      OBVIOUS
  <2>0. m * n \in Nat /\ i - 1 \in Nat
      BY <1>0
  <2>1. K(i) \in 1..m
      BY <1>0, Division
  <2>2. (i - 1) % n \in 0..(n - 1)
      BY <1>0, <2>0, Division
  <2>3. /\ (i - 1) \div n \in Nat
        /\ i - 1 = n * ((i - 1) \div n) + ((i - 1) % n)
      BY <1>0, <2>0, Divided
  <2> HIDE DEF n, m
  <2> QED
      BY <1>0, <2>0, <2>1, <2>2, <2>3
<1> HIDE DEF K, P, rs, m, n
<1>4. ASSUME NEW i \in 1..(m * n)
      PROVE  /\ rs[i].type = ts[P(i)] /\ rs[i].date = DateOf[fs[K(i)]] /\ rs[i].seq = P(i)
             /\ rs[i].date \in Dates
  <2> DEFINE f == fs[K(i)]
             p == P(i)
  <2>1. f \in Filings /\ DateOf[f] \in Dates /\ p \in 1..Len(ts) /\ rs[i] = VersionsOf(f, ts)[p]
      BY <1>0, <1>2, <1>3 DEF n
  <2> HIDE DEF f, p
  <2>2. VersionsOf(f, ts)[p] = [type |-> ts[p], date |-> DateOf[f], seq |-> p, id |-> 0,
                                filing |-> f, payload |-> None, facts |-> None]
      BY <2>1 DEF VersionsOf
  <2>3. /\ rs[i].type = ts[p] /\ rs[i].date = DateOf[f] /\ rs[i].seq = p
        /\ rs[i].date \in Dates
      BY <2>1, <2>2
  <2> QED
      BY <2>3 DEF f, p
<1>5. m * n \in Nat
    BY <1>0
<1>6. ASSUME NEW i \in 1..(m * n), NEW a \in 1..(i - 1), ~Below(Day, rs[i], rs[a])
      PROVE  \E b \in 1..i : \E c \in 1..(b - 1) : SameKey(rs[c], rs[b])
  <2>1. a \in 1..(m * n) /\ a < i
      BY <1>5
  <2>2. K(a) < K(i) \/ (K(a) = K(i) /\ P(a) < P(i))
    <3>1. /\ K(a) \in Nat \ {0} /\ K(i) \in Nat \ {0}
          /\ P(a) \in 1..n /\ P(i) \in 1..n
          /\ (K(a) - 1) * n + P(a) < (K(i) - 1) * n + P(i)
        BY <1>0, <1>3, <2>1
    <3> QED
        BY <1>0, <3>1, EarlierPlace
  <2>3. K(a) < K(i)
      BY <1>0, <1>3, <1>4, <1>6, <2>1, <2>2 DEF Below
  <2>4. rs[a].date = rs[i].date
    <3>1. Day[DateOf[fs[K(a)]]] >= Day[DateOf[fs[K(i)]]]
        BY <1>0, <1>3, <2>1, <2>3
    <3>2. ~(Day[rs[i].date] < Day[rs[a].date])
        BY <1>6 DEF Below
    <3>3. Day[rs[i].date] \in Nat /\ Day[rs[a].date] \in Nat
        BY <1>4, <2>1
    <3>4. Day[rs[i].date] = Day[rs[a].date]
        BY <1>4, <2>1, <3>1, <3>2, <3>3
    <3> QED
        BY <1>4, <2>1, <3>4
  <2> DEFINE first(k) == (k - 1) * n + 1
  <2>5. ASSUME NEW k \in 1..m
        PROVE  first(k) \in 1..(m * n) /\ K(first(k)) = k /\ P(first(k)) = 1
    <3>1. k - 1 \in Nat /\ k - 1 < m
        BY <1>0
    <3>2. first(k) \in 1..(m * n) /\ ((k - 1) * n) \div n = k - 1 /\ ((k - 1) * n) % n = 0
        BY <1>0, <3>1, Division
    <3>3. first(k) - 1 = (k - 1) * n
        BY <1>0, <3>1
    <3> QED
        BY <3>1, <3>2, <3>3 DEF K, P
  <2> DEFINE b == first(K(i))
             c == first(K(a))
  <2>6. /\ b \in 1..(m * n) /\ K(b) = K(i) /\ P(b) = 1
        /\ c \in 1..(m * n) /\ K(c) = K(a) /\ P(c) = 1
      BY <1>3, <2>1, <2>5
  <2>7. b <= i /\ c < b
    <3>1. b <= i
        BY <1>0, <1>3
    <3>a. K(a) \in 1..m /\ K(i) \in 1..m /\ m \in Nat
        BY <1>0, <1>3, <2>1
    <3>2. K(a) \in Nat \ {0} /\ K(i) \in Nat \ {0}
        BY <3>a
    <3>3. c < b
        BY <1>0, <2>3, <3>2, EarlierBlock
    <3> QED
        BY <3>1, <3>3
  <2> HIDE DEF b, c
  <2>8. SameKey(rs[c], rs[b])
      BY <1>4, <2>1, <2>4, <2>6 DEF SameKey
  <2>9. b \in 1..i /\ c \in 1..(b - 1)
      BY <1>5, <2>6, <2>7
  <2> QED
      BY <2>8, <2>9
<1> QED
    BY <1>1, <1>6 DEF Descends, rs

LEMMA SameWork ==
    ASSUME NEW Day, NEW d \in Jobs, LocksDown(Day, d),
           <<toUpsert'[d], toInsert'[d], held'[d], rows'[d]>>
             = <<toUpsert[d], toInsert[d], held[d], rows[d]>>
    PROVE  LocksDown(Day, d)'
BY DEF LocksDown

LEMMA NoWork ==
    ASSUME NEW Day, NEW j \in Jobs, IInv, NEW how, End(j, how)
    PROVE  LocksDown(Day, j)'
<1>1. toUpsert'[j] = <<>> /\ toInsert'[j] = <<>> /\ held'[j] = {} /\ rows'[j] = {}
    BY DEF End, Set, IInv, Types0
<1> QED
    BY <1>1 DEF LocksDown, Descends

LEMMA StartsDown ==
    ASSUME NEW Day, NEW j \in Jobs, IInv, pc[j] = "start", NEW fs, NEW rs,
           StartWriting(j, fs, rs), Descends(Day, {}, rs),
           \A a, b \in DOMAIN fs : a < b => Filed[fs[a]] > Filed[fs[b]]
    PROVE  LocksDown(Day, j)'
<1>1. toUpsert'[j] = fs /\ toInsert'[j] = rs /\ held'[j] = {} /\ rows'[j] = {}
    BY DEF StartWriting, Set, IInv, Types0, JobInv, NothingPending
<1> QED
    BY <1>1 DEF LocksDown

LEMMA IngestDown ==
    ASSUME NEW Day, NEW j \in Jobs, IInv, Ingest(j)
    PROVE  LocksDown(Day, j)'
<1> DEFINE f  == req[j].filing
           ts == req[j].types
<1>1. req[j] \in Requests /\ Kind(j) = "ingest" /\ pc[j] = "start"
    BY DEF Ingest, IInv, JobInv
<1>2. f \in Filings /\ ts \in TypeList
    BY <1>1, Fields DEF Kind
<1>3. StartWriting(j, <<f>>, VersionsOf(f, ts))
    BY DEF Ingest
<1>4. Descends(Day, {}, VersionsOf(f, ts))
    BY <1>2, VersionsDescend
<1>5. \A a, b \in DOMAIN <<f>> : ~(a < b)
    OBVIOUS
<1> HIDE DEF f, ts
<1> QED
    BY <1>1, <1>3, <1>4, <1>5, StartsDown

LEMMA SyncDown ==
    ASSUME NEW Day \in DateOrders, NEW j \in Jobs, IInv, Follows(j, Day), Sync(j)
    PROVE  LocksDown(Day, j)'
<1> DEFINE list == req[j].filings
           ts   == req[j].types
<1>1. req[j] \in Requests /\ req[j].kind = "sync" /\ pc[j] = "start"
    BY DEF Sync, IInv, JobInv, Kind
<1>2. list \in FilingList /\ ts \in TypeList
    BY <1>1, Fields
<1>3. PICK new \in FilingList : /\ ToSet(new) = Unstored(j)
                                /\ InOrderOf(new, list)
                                /\ StartWriting(j, new, BatchOf(new, ts))
    BY DEF Sync
<1>4. new \in Seq(Filings) /\ list \in Seq(Filings) /\ ToSet(new) \subseteq ToSet(list)
    BY <1>2, <1>3, Lists DEF Unstored
<1>5. \A x, y \in DOMAIN list : x < y =>
          Filed[list[x]] > Filed[list[y]] /\ Day[DateOf[list[x]]] >= Day[DateOf[list[y]]]
    BY <1>1, PipelineAssumption DEF PipelineAssumption, Follows, Kind
<1> HIDE DEF list, ts
<1>6. ASSUME NEW a \in DOMAIN new, NEW b \in DOMAIN new, a < b
      PROVE  Filed[new[a]] > Filed[new[b]] /\ Day[DateOf[new[a]]] >= Day[DateOf[new[b]]]
  <2>1. PICK x \in DOMAIN list : list[x] = new[a]
      BY <1>4 DEF ToSet
  <2>2. PICK y \in DOMAIN list : list[y] = new[b]
      BY <1>4 DEF ToSet
  <2>3. x < y
      BY <1>3, <1>6, <2>1, <2>2 DEF InOrderOf
  <2> QED
      BY <1>5, <2>1, <2>2, <2>3
<1>7. /\ Day \in [Dates -> Nat]
      /\ \A d, e \in Dates : Day[d] = Day[e] => d = e
    BY DEF DateOrders
<1>8. Descends(Day, {}, BatchOf(new, ts))
    BY <1>2, <1>4, <1>6, <1>7, BatchDescends
<1> QED
    BY <1>1, <1>3, <1>6, <1>8, StartsDown

LEMMA NormalizeDown ==
    ASSUME NEW Day, NEW j \in Jobs, IInv, Normalize(j)
    PROVE  LocksDown(Day, j)'
<1>1. PICK r : StartWriting(j, <<>>, <<r>>)
    BY DEF Normalize
<1>2. Descends(Day, {}, <<r>>)
    BY DEF Descends
<1> QED
    BY <1>1, <1>2, StartsDown DEF Normalize

\* What comes after the head of a sequence.
LEMMA TailPlaces ==
    ASSUME NEW S, NEW s \in Seq(S), s # <<>>
    PROVE  /\ 1 \in DOMAIN s /\ Head(s) = s[1]
           /\ DOMAIN Tail(s) = 1..(Len(s) - 1) /\ DOMAIN s = 1..Len(s) /\ Len(s) \in Nat
           /\ \A i \in DOMAIN Tail(s) : i + 1 \in DOMAIN s /\ Tail(s)[i] = s[i + 1]
<1>1. Len(s) \in Nat \ {0} /\ Len(Tail(s)) = Len(s) - 1 /\ DOMAIN s = 1..Len(s)
    OBVIOUS
<1>2. DOMAIN Tail(s) = 1..(Len(s) - 1)
    BY <1>1
<1>3. \A i \in 1..(Len(s) - 1) : i + 1 \in 1..Len(s) /\ Tail(s)[i] = s[i + 1]
    BY <1>1
<1> QED
    BY <1>1, <1>2, <1>3

LEMMA UpsertDown ==
    ASSUME NEW Day, NEW j \in Jobs, IInv, LocksDown(Day, j), UpsertFiling(j)
    PROVE  LocksDown(Day, j)'
<1> DEFINE fs == toUpsert[j]
<1>1. fs \in Seq(Filings) /\ fs # <<>>
    BY DEF UpsertFiling, IInv, Types0
<1>2. /\ toUpsert'[j] = Tail(fs) /\ held'[j] = held[j] \cup {Head(fs)}
      /\ rows'[j] = rows[j] /\ toInsert'[j] = toInsert[j]
    BY DEF UpsertFiling, Set, IInv, Types0
<1>3. /\ rows[j] = {}
      /\ \A a, b \in DOMAIN fs : a < b => Filed[fs[a]] > Filed[fs[b]]
      /\ \A f \in held[j], a \in DOMAIN fs : Filed[f] > Filed[fs[a]]
    BY <1>1 DEF LocksDown
<1> HIDE DEF fs
<1>4. /\ 1 \in DOMAIN fs /\ Head(fs) = fs[1]
      /\ \A i \in DOMAIN Tail(fs) : i + 1 \in DOMAIN fs /\ Tail(fs)[i] = fs[i + 1] /\ i \in Nat \ {0}
    BY <1>1, TailPlaces
<1>5. \A a, b \in DOMAIN Tail(fs) : a < b => Filed[Tail(fs)[a]] > Filed[Tail(fs)[b]]
    BY <1>3, <1>4
<1>6. \A f \in held[j] \cup {Head(fs)}, a \in DOMAIN Tail(fs) : Filed[f] > Filed[Tail(fs)[a]]
    BY <1>3, <1>4
<1>7. Descends(Day, rows[j], toInsert[j])
    BY DEF LocksDown
<1> QED
    BY <1>2, <1>3, <1>5, <1>6, <1>7 DEF LocksDown

LEMMA InsertDown ==
    ASSUME NEW Day, NEW j \in Jobs, IInv, LocksDown(Day, j), InsertVersion(j)
    PROVE  LocksDown(Day, j)'
<1> DEFINE rs == toInsert[j]
           S  == rows[j]
<1>1. rs \in Seq(Row) /\ rs # <<>> /\ toUpsert[j] = <<>>
    BY DEF InsertVersion, Inserting, IInv, Types0
<1>2. PICK id \in 1..MaxRows : rows' = Set(rows, j, rows[j] \cup {[Head(rs) EXCEPT !.id = id]})
    BY DEF InsertVersion
<1> DEFINE new == [Head(rs) EXCEPT !.id = id]
<1>3. /\ toUpsert'[j] = <<>> /\ toInsert'[j] = Tail(rs) /\ rows'[j] = S \cup {new}
      /\ held'[j] = held[j]
    BY <1>1, <1>2 DEF InsertVersion, Set, IInv, Types0
<1>4. \A q \in S : ~SameKey(q, Head(rs))
    BY DEF InsertVersion, Duplicate
<1>5. Descends(Day, S, rs)
    BY DEF LocksDown
<1> HIDE DEF rs, S
<1>6. /\ 1 \in DOMAIN rs /\ Head(rs) = rs[1] /\ rs[1] \in Row
      /\ DOMAIN Tail(rs) = 1..(Len(rs) - 1) /\ DOMAIN rs = 1..Len(rs) /\ Len(rs) \in Nat
      /\ \A i \in DOMAIN Tail(rs) : i + 1 \in DOMAIN rs /\ Tail(rs)[i] = rs[i + 1]
    BY <1>1, TailPlaces
<1>7. new.type = rs[1].type /\ new.date = rs[1].date /\ new.seq = rs[1].seq
  <2>1. rs[1] \in Row
      BY <1>6
  <2> QED
      BY <1>6, <2>1 DEF Row
<1> HIDE DEF new
<1>8. ASSUME NEW i \in DOMAIN Tail(rs)
      PROVE  \/ /\ \A r \in S \cup {new} : Below(Day, Tail(rs)[i], r)
                /\ \A a \in 1..(i - 1) : Below(Day, Tail(rs)[i], Tail(rs)[a])
             \/ \E b \in 1..i :
                  \/ \E q \in S \cup {new} : SameKey(q, Tail(rs)[b])
                  \/ \E a \in 1..(b - 1) : SameKey(Tail(rs)[a], Tail(rs)[b])
  <2>0. /\ i \in Nat \ {0} /\ i + 1 \in DOMAIN rs /\ Tail(rs)[i] = rs[i + 1]
        /\ \A b \in 1..i : b \in DOMAIN Tail(rs)
      BY <1>6
  <2>1. CASE /\ \A r \in S : Below(Day, rs[i + 1], r)
             /\ \A a \in 1..i : Below(Day, rs[i + 1], rs[a])
    <3>1. Below(Day, rs[i + 1], new)
      <4>1. 1 \in 1..i
          BY <2>0
      <4> QED
          BY <1>7, <2>1, <4>1 DEF Below
    <3>2. ASSUME NEW a \in 1..(i - 1)
          PROVE  Below(Day, Tail(rs)[i], Tail(rs)[a])
      <4>1. a \in 1..i /\ a + 1 \in 1..i
          BY <2>0
      <4> QED
          BY <1>6, <2>0, <2>1, <4>1
    <3> QED
        BY <2>0, <2>1, <3>1, <3>2
  <2>2. CASE \E b \in 1..(i + 1) :
               \/ \E q \in S : SameKey(q, rs[b])
               \/ \E a \in 1..(b - 1) : SameKey(rs[a], rs[b])
    <3>1. PICK b \in 1..(i + 1) : \/ \E q \in S : SameKey(q, rs[b])
                                  \/ \E a \in 1..(b - 1) : SameKey(rs[a], rs[b])
        BY <2>2
    <3>2. b # 1
      <4>1. CASE \E q \in S : SameKey(q, rs[b])
          BY <1>4, <1>6, <4>1
      <4>2. CASE \E a \in 1..(b - 1) : SameKey(rs[a], rs[b])
          BY <4>2
      <4> QED
          BY <3>1, <4>1, <4>2
    <3>3. b - 1 \in 1..i /\ Tail(rs)[b - 1] = rs[b]
      <4>1. b - 1 \in 1..i /\ (b - 1) + 1 = b
          BY <2>0, <3>2
      <4> QED
          BY <1>6, <2>0, <4>1
    <3>4. CASE \E q \in S : SameKey(q, rs[b])
        BY <3>3, <3>4
    <3>5. CASE \E a \in 1..(b - 1) : SameKey(rs[a], rs[b])
      <4>1. PICK a \in 1..(b - 1) : SameKey(rs[a], rs[b])
          BY <3>5
      <4>2. CASE a = 1
          BY <1>7, <3>3, <4>1, <4>2 DEF SameKey
      <4>3. CASE a # 1
        <5>1. a - 1 \in 1..((b - 1) - 1) /\ a - 1 \in 1..i /\ (a - 1) + 1 = a
            BY <2>0, <3>2, <4>3
        <5>2. Tail(rs)[a - 1] = rs[a]
            BY <1>6, <2>0, <5>1
        <5> QED
            BY <3>3, <4>1, <5>1, <5>2
      <4> QED
          BY <4>2, <4>3
    <3> QED
        BY <3>1, <3>4, <3>5
  <2>3. \/ /\ \A r \in S : Below(Day, rs[i + 1], r)
           /\ \A a \in 1..((i + 1) - 1) : Below(Day, rs[i + 1], rs[a])
        \/ \E b \in 1..(i + 1) :
             \/ \E q \in S : SameKey(q, rs[b])
             \/ \E a \in 1..(b - 1) : SameKey(rs[a], rs[b])
      BY <1>5, <2>0 DEF Descends
  <2>4. (i + 1) - 1 = i
      BY <2>0
  <2> QED
      BY <2>1, <2>2, <2>3, <2>4
<1>9. Descends(Day, S \cup {new}, Tail(rs))
    BY <1>8 DEF Descends
<1>10. \A a \in DOMAIN toUpsert'[j] : FALSE
    BY <1>3
<1> QED
    BY <1>3, <1>9, <1>10 DEF LocksDown

\* Every writer locks downwards in the orders of dates that its request follows.
Downwards(Day) ==
    \A d \in Jobs : pc[d] = "writing" /\ Follows(d, Day) => LocksDown(Day, d)

LEMMA StepLocksDown ==
    ASSUME NEW Day \in DateOrders, IInv, Downwards(Day), [Next]_vars
    PROVE  Downwards(Day)'
<1>1. CASE UNCHANGED vars
  <2> SUFFICES ASSUME NEW d \in Jobs, pc'[d] = "writing", Follows(d, Day)'
               PROVE  LocksDown(Day, d)'
      BY DEF Downwards
  <2>1. pc[d] = "writing" /\ Follows(d, Day)
      BY <1>1 DEF vars, Follows, Kind
  <2> QED
      BY <1>1, <2>1, SameWork DEF Downwards, vars, work
<1>2. ASSUME NEW j \in Jobs, Step(j) \/ Fail(j) \/ Call(j)
      PROVE  Downwards(Day)'
  <2> SUFFICES ASSUME NEW d \in Jobs, pc'[d] = "writing", Follows(d, Day)'
               PROVE  LocksDown(Day, d)'
      BY DEF Downwards
  <2>1. CASE d = j
    <3>1. ~Call(j)
        BY <2>1 DEF Call, Set, IInv, Types0
    <3>2. ~ReadPayload(j) /\ ~\E how : End(j, how)
        BY <2>1 DEF ReadPayload, End, Set, IInv, Types0
    <3>3. Ingest(j) \/ Sync(j) \/ Normalize(j) \/ UpsertFiling(j) \/ InsertVersion(j)
        BY <1>2, <3>1, <3>2
           DEF Step, Commit, SyncNothingNew, InsertConflict, NormalizeNothing, Process, UpdatePayload,
               UpdateNothing, ReplaceFacts, Fail
    <3>4. req' = req
        BY <3>3 DEF Ingest, Sync, Normalize, UpsertFiling, InsertVersion
    <3>5. Follows(j, Day)
        BY <2>1, <3>4 DEF Follows, Kind
    <3>6. UpsertFiling(j) \/ InsertVersion(j) => LocksDown(Day, j)
        BY <3>5 DEF UpsertFiling, InsertVersion, Inserting, Downwards
    <3> QED
        BY <2>1, <3>3, <3>5, <3>6, IngestDown, SyncDown, NormalizeDown, UpsertDown, InsertDown
  <2>2. CASE d # j
    <3>1. <<toUpsert'[d], toInsert'[d], held'[d], rows'[d], pc'[d], req'[d]>>
            = <<toUpsert[d], toInsert[d], held[d], rows[d], pc[d], req[d]>>
        BY <1>2, <2>2 DEF Step, Fail, Call, Ingest, SyncNothingNew, Sync, UpsertFiling, InsertVersion,
           InsertConflict, Commit, NormalizeNothing, Normalize, Process, UpdatePayload, UpdateNothing,
           ReadPayload, ReplaceFacts, StartWriting, End, Set, work, IInv, Types0
    <3>2. LocksDown(Day, d)
        BY <3>1 DEF Downwards, Follows, Kind
    <3> QED
        BY <3>1, <3>2, SameWork
  <2> QED
      BY <2>1, <2>2
<1> QED
    BY <1>1, <1>2 DEF Next

\* Of the jobs that insert, the one whose next row is the last to be locked.
LEMMA LastToLock ==
    ASSUME NEW Day \in DateOrders, IInv, \E j \in Jobs : Inserting(j)
    PROVE  \E j \in Jobs :
             /\ Inserting(j)
             /\ \A k \in Jobs : Inserting(k) => ~Below(Day, Head(toInsert[k]), Head(toInsert[j]))
<1> DEFINE I == {j \in Jobs : Inserting(j)}
           day(j) == Day[Head(toInsert[j]).date]
           left(j) == Cardinality(Types) - Head(toInsert[j]).seq
<1>1. \A j \in I : Head(toInsert[j]) \in Row
    BY HeadAndTail DEF Inserting, IInv, Types0
<1>2. Cardinality(Types) \in Nat
    BY FS_CardinalityType, PipelineAssumption DEF PipelineAssumption
<1>3. \A j \in I : day(j) \in Nat /\ left(j) \in Nat /\ Head(toInsert[j]).date \in Dates
  <2> SUFFICES ASSUME NEW j \in I
               PROVE  day(j) \in Nat /\ left(j) \in Nat /\ Head(toInsert[j]).date \in Dates
      OBVIOUS
  <2>1. Head(toInsert[j]).date \in Dates /\ Head(toInsert[j]).seq \in Positions
      BY <1>1 DEF Row
  <2> QED
      BY <1>2, <2>1 DEF Positions, DateOrders
<1>4. PICK m \in {day(j) : j \in I} : \A n \in {day(j) : j \in I} : m <= n
  <2>1. {day(j) : j \in I} \in SUBSET Nat /\ {day(j) : j \in I} # {}
      BY <1>3
  <2> QED
      BY <2>1, LeastNumber
<1> DEFINE L == {j \in I : day(j) = m}
<1>5. PICK p \in {left(j) : j \in L} : \A n \in {left(j) : j \in L} : p <= n
  <2>1. {left(j) : j \in L} \in SUBSET Nat /\ {left(j) : j \in L} # {}
      BY <1>3, <1>4
  <2> QED
      BY <2>1, LeastNumber
<1>6. PICK j \in L : p = left(j)
    BY <1>5
<1>7. ASSUME NEW k \in I PROVE ~Below(Day, Head(toInsert[k]), Head(toInsert[j]))
  <2>1. day(j) <= day(k) /\ day(j) \in Nat /\ day(k) \in Nat
      BY <1>3, <1>4, <1>6
  <2>2. ASSUME Head(toInsert[k]).date = Head(toInsert[j]).date
        PROVE  ~(Head(toInsert[k]).seq > Head(toInsert[j]).seq)
    <3>1. k \in L
        BY <1>6, <2>2
    <3>2. left(j) <= left(k)
        BY <1>5, <1>6, <3>1
    <3>3. Head(toInsert[k]).seq \in Nat /\ Head(toInsert[j]).seq \in Nat
        BY <1>1, <1>2, <1>6 DEF Row, Positions
    <3> QED
        BY <1>2, <3>2, <3>3
  <2> QED
      BY <2>1, <2>2 DEF Below
<1> QED
    BY <1>6, <1>7

\* The same for filings.
LEMMA LastToHold ==
    ASSUME IInv, \E j \in Jobs : toUpsert[j] # <<>>
    PROVE  \E j \in Jobs :
             /\ toUpsert[j] # <<>>
             /\ \A k \in Jobs : toUpsert[k] # <<>> =>
                  ~(Filed[Head(toUpsert[k])] < Filed[Head(toUpsert[j])])
<1> DEFINE U == {j \in Jobs : toUpsert[j] # <<>>}
           place(j) == Filed[Head(toUpsert[j])]
<1>1. \A j \in U : place(j) \in Nat
    BY HeadAndTail, PipelineAssumption DEF PipelineAssumption, IInv, Types0
<1>2. {place(j) : j \in U} \in SUBSET Nat /\ {place(j) : j \in U} # {}
    BY <1>1
<1>3. PICK m \in {place(j) : j \in U} : \A n \in {place(j) : j \in U} : m <= n
    BY <1>2, LeastNumber
<1>4. PICK j \in U : m = place(j)
    BY <1>3
<1>5. \A k \in U : place(j) <= place(k) /\ place(j) \in Nat /\ place(k) \in Nat
    BY <1>1, <1>3, <1>4
<1> QED
    BY <1>4, <1>5

\* The job that is last to lock waits for none: the holder of what it needs would have
\* to go on with something that is locked later still.
LEMMA NoCircle ==
    ASSUME IInv, \A Day \in DateOrders : Downwards(Day)
    PROVE  NoWaitCycle
<1> SUFFICES ASSUME NEW w \in Jobs, pc[w] = "writing", NEW Day \in DateOrders,
                    \A j \in Jobs : pc[j] = "writing" => Waiting(j) /\ Follows(j, Day)
             PROVE  FALSE
    BY DEF NoWaitCycle, writers
<1>1. \A j \in Jobs : \/ rows[j] # {} \/ held[j] # {} \/ toUpsert[j] # <<>>
                      => pc[j] = "writing"
    BY DEF IInv, JobInv, NothingPending
<1>0. \A j \in Jobs : pc[j] = "writing" => LocksDown(Day, j)
    BY DEF Downwards
<1>2. CASE \E j \in Jobs : Inserting(j)
  <2>1. PICK j \in Jobs : /\ Inserting(j)
                          /\ \A k \in Jobs : Inserting(k) =>
                               ~Below(Day, Head(toInsert[k]), Head(toInsert[j]))
      BY <1>2, LastToLock
  <2>2. MustWait(j)
      BY <2>1 DEF Inserting, Waiting
  <2>3. PICK k \in Jobs \ {j} : \E q \in rows[k] : SameKey(q, Head(toInsert[j]))
      BY <2>2 DEF MustWait
  <2>4. PICK q \in rows[k] : SameKey(q, Head(toInsert[j]))
      BY <2>3
  <2>5. LocksDown(Day, k) /\ Waiting(k)
      BY <1>0, <1>1, <2>3, <2>4
  <2>6. Inserting(k) /\ MustWait(k)
      BY <2>4, <2>5 DEF LocksDown, Waiting
  <2>7. 1 \in DOMAIN toInsert[k] /\ toInsert[k][1] = Head(toInsert[k])
      BY <2>6, HeadAndTail DEF Inserting, IInv, Types0
  <2>8. \/ \A r \in rows[k] : Below(Day, Head(toInsert[k]), r)
        \/ \E r \in rows[k] : SameKey(r, Head(toInsert[k]))
      BY <2>5, <2>7 DEF LocksDown, Descends
  <2>9. ~\E r \in rows[k] : SameKey(r, Head(toInsert[k]))
    <3>1. PICK l \in Jobs \ {k} : \E r \in rows[l] : SameKey(r, Head(toInsert[k]))
        BY <2>6 DEF MustWait
    <3>2. \A r \in rows[l] : \A s \in rows[k] : ~SameKey(s, r)
        BY <3>1 DEF IInv, Keys
    <3> QED
        BY <3>1, <3>2 DEF SameKey
  <2>10. Below(Day, Head(toInsert[k]), q)
      BY <2>4, <2>8, <2>9
  <2>11. Below(Day, Head(toInsert[k]), Head(toInsert[j]))
      BY <2>4, <2>10 DEF Below, SameKey
  <2> QED
      BY <2>1, <2>6, <2>11
<1>3. CASE ~\E j \in Jobs : Inserting(j)
  <2>1. \A j \in Jobs : pc[j] = "writing" =>
          /\ toUpsert[j] # <<>>
          /\ \E k \in Jobs \ {j} : Head(toUpsert[j]) \in held[k]
      BY <1>3 DEF Waiting
  <2>2. PICK j \in Jobs : /\ toUpsert[j] # <<>>
                          /\ \A k \in Jobs : toUpsert[k] # <<>> =>
                               ~(Filed[Head(toUpsert[k])] < Filed[Head(toUpsert[j])])
      BY <2>1, LastToHold
  <2>3. PICK k \in Jobs \ {j} : Head(toUpsert[j]) \in held[k]
      BY <1>1, <2>1, <2>2
  <2>4. toUpsert[k] # <<>>
      BY <1>1, <2>1, <2>3
  <2>5. /\ 1 \in DOMAIN toUpsert[k] /\ toUpsert[k][1] = Head(toUpsert[k])
        /\ Head(toUpsert[k]) \in Filings /\ Head(toUpsert[j]) \in Filings
      BY <2>2, <2>4, HeadAndTail DEF IInv, Types0
  <2>6. Filed[Head(toUpsert[j])] > Filed[Head(toUpsert[k])]
      BY <1>0, <1>1, <2>3, <2>4, <2>5 DEF LocksDown
  <2>7. Filed[Head(toUpsert[j])] \in Nat /\ Filed[Head(toUpsert[k])] \in Nat
      BY <2>5, PipelineAssumption DEF PipelineAssumption
  <2> QED
      BY <2>2, <2>4, <2>6, <2>7
<1> QED
    BY <1>2, <1>3

-----------------------------------------------------------------------------
(* The theorems.                                                           *)

LEMMA InitIInv == Init => IInv
<1> SUFFICES ASSUME Init
             PROVE  IInv
    OBVIOUS
<1>1. Types0
    BY PipelineAssumption DEF PipelineAssumption, Init, Types0, Outcomes
<1>2. Keys /\ FilingsWithVersions /\ FactsFromIdentity
    BY DEF Init, Keys, FilingsWithVersions, FactsFromIdentity
<1>3. \A j \in Jobs : JobInv(j)
    BY DEF Init, JobInv, NothingPending
<1> QED
    BY <1>1, <1>2, <1>3 DEF IInv

LEMMA StepIInv == IInv /\ [Next]_vars => IInv' /\ Grows
<1> SUFFICES ASSUME IInv, [Next]_vars
             PROVE  IInv' /\ Grows
    OBVIOUS
<1>1. CASE UNCHANGED vars
  <2>1. IInv'
    <3>1. Types0'
        BY <1>1 DEF vars, tables, work, IInv, Types0
    <3>2. ASSUME NEW d \in Jobs
          PROVE  JobInv(d)'
        BY <1>1, Elsewhere DEF vars, tables, work, IInv, Types0
    <3>3. Keys' /\ FilingsWithVersions' /\ FactsFromIdentity'
        BY <1>1 DEF vars, tables, work, IInv, Keys, SameKey, FilingsWithVersions,
                    FactsFromIdentity, SameIdentity, Key
    <3> QED
        BY <3>1, <3>2, <3>3 DEF IInv
  <2> QED
      BY <1>1, <2>1, SameTables DEF vars, tables
<1>2. ASSUME NEW j \in Jobs, Step(j) \/ Fail(j) \/ Call(j)
      PROVE  IInv' /\ Grows
  <2>1. CASE Ingest(j)
      BY <2>1, IngestKeeps, SameTables DEF Ingest, tables
  <2>2. CASE Sync(j)
      BY <2>2, SyncKeeps, SameTables DEF Sync, tables
  <2>3. CASE Normalize(j)
      BY <2>3, NormalizeKeeps, SameTables DEF Normalize, tables
  <2>4. CASE UpsertFiling(j)
      BY <2>4, UpsertKeeps, SameTables DEF UpsertFiling, tables
  <2>5. CASE InsertVersion(j)
      BY <2>5, InsertKeeps, SameTables DEF InsertVersion, tables
  <2>6. CASE Commit(j)
      BY <2>6, CommitKeeps
  <2>7. CASE UpdatePayload(j)
      BY <2>7, UpdateKeeps
  <2>8. CASE ReadPayload(j)
      BY <2>8, ReadKeeps, SameTables DEF ReadPayload, tables
  <2>9. CASE ReplaceFacts(j)
      BY <2>9, ReplaceKeeps
  <2>10. CASE Call(j)
      BY <2>10, CallKeeps, SameTables DEF Call, tables
  <2>11. CASE SyncNothingNew(j) \/ InsertConflict(j) \/ NormalizeNothing(j) \/ Process(j)
             \/ UpdateNothing(j) \/ Fail(j)
      BY <2>11, EndingsKeep
  <2> QED
      BY <1>2, <2>1, <2>2, <2>3, <2>4, <2>5, <2>6, <2>7, <2>8, <2>9, <2>10, <2>11 DEF Step
<1> QED
    BY <1>1, <1>2 DEF Next

LEMMA SpecIInv == Spec => []IInv
BY InitIInv, StepIInv, PTL DEF Spec

\* Every variable of the pipeline keeps its type.
THEOREM TypeCorrect == Spec => []TypeOK
<1>1. IInv => TypeOK
  <2> SUFFICES ASSUME IInv
               PROVE  TypeOK
      OBVIOUS
  <2>1. \A S : \A s \in Seq(S) : ToSet(s) \subseteq S
      BY DEF ToSet
  <2>2. \A j \in Jobs : /\ ToSet(toUpsert[j]) \subseteq Filings
                        /\ ToSet(toInsert[j]) \subseteq Row
    <3>1. \A j \in Jobs : toUpsert[j] \in Seq(Filings) /\ toInsert[j] \in Seq(Row)
        BY DEF IInv, Types0
    <3> QED
        BY <2>1, <3>1
  <2> QED
      BY <2>2 DEF IInv, Types0, TypeOK
<1> QED
    BY SpecIInv, <1>1, PTL

\* However ingests, syncs and normalizations interleave, no two committed versions
\* have the same type, date and version_sequence.
THEOREM VersionsAreUnique == Spec => []UniqueVersions
<1>1. IInv => UniqueVersions
    BY DEF IInv, Keys, SameKey, UniqueVersions
<1> QED
    BY SpecIInv, <1>1, PTL

\* Filings and their versions become visible together, whatever conflicts, failures
\* and rollbacks come between.
THEOREM FilingsComeWithVersions == Spec => []FilingsWithVersions
<1>1. IInv => FilingsWithVersions
    BY DEF IInv
<1> QED
    BY SpecIInv, <1>1, PTL

\* A call that returned normally has stored what it was asked to, and it stays.
THEOREM OkIsStored == Spec => []OkMeansStored
<1>1. IInv => OkMeansStored
    BY DEF IInv, JobInv, Stored, OkMeansStored
<1> QED
    BY SpecIInv, <1>1, PTL

\* At any time the tables are whole and bear out what calls have reported, for any
\* number of jobs, filings, types and calls.
THEOREM TablesAreTrue == Spec => []TablesStayTrue
<1>1. UniqueVersions /\ FilingsWithVersions /\ OkMeansStored => TablesStayTrue
    BY DEF TablesStayTrue
<1> QED
    BY VersionsAreUnique, FilingsComeWithVersions, OkIsStored, <1>1, PTL

\* Facts that no update has left behind are those of a payload that a version of
\* their identity holds, although persist_normalized_facts looks the version up twice.
THEOREM FactsBelong == Spec => []FactsFromIdentity
<1>1. IInv => FactsFromIdentity
    BY DEF IInv
<1> QED
    BY SpecIInv, <1>1, PTL

\* No step loses a committed version or moves it to another filing; a payload is
\* replaced only by an update called for that version, facts only by a persist of its
\* identity.
THEOREM HistoryIsPreserved == Spec => HistoryPreserved
<1> DEFINE Kept1(q, r) ==
               /\ Continues(q, r)
               /\ q.payload # r.payload /\ r.payload # None =>
                    \E j \in Jobs :
                        /\ pc[j] = "start" /\ Kind(j) = "update"
                        /\ <<req[j].filing, req[j].type, req[j].seq>> = <<r.filing, r.type, r.seq>>
                        /\ q.payload = req[j].payload
               /\ q.facts # r.facts =>
                    \E j \in Jobs :
                        /\ pc[j] = "replacing"
                        /\ <<req[j].type, req[j].year, req[j].seq>> = <<r.type, YearOf[r.date], r.seq>>
                        /\ q.facts = chosen[j]
           Kept2 == \A r \in versions : \E q \in versions' : Kept1(q, r)
<1>1. IInv /\ [Next]_vars => [Kept2]_vars
  <2> SUFFICES ASSUME IInv, Next, NEW r \in versions
               PROVE  \E q \in versions' : Kept1(q, r)
      OBVIOUS
  <2>1. CASE r \in versions'
      BY <2>1 DEF Continues
  <2>2. CASE r \notin versions'
    <3>1. PICK j \in Jobs : Step(j) \/ Fail(j) \/ Call(j)
        BY DEF Next
    <3>2. UpdatePayload(j) \/ ReplaceFacts(j)
        BY <2>2, <3>1
           DEF Step, Fail, Call, Ingest, SyncNothingNew, Sync, UpsertFiling, InsertVersion,
               InsertConflict, Commit, NormalizeNothing, Normalize, Process, UpdateNothing,
               ReadPayload, tables
    <3>3. CASE UpdatePayload(j)
      <4> DEFINE q == [r EXCEPT !.payload = req[j].payload]
      <4>1. r \in Updated(j) /\ q \in versions'
          BY <2>2, <3>3 DEF UpdatePayload
      <4>2. r \in Row /\ req[j].payload # None
          BY <3>3, Fields, PipelineAssumption
             DEF PipelineAssumption, IInv, Types0, UpdatePayload, JobInv, Kind
      <4>3. /\ q.type = r.type /\ q.date = r.date /\ q.seq = r.seq /\ q.filing = r.filing
            /\ q.facts = r.facts /\ q.payload = req[j].payload
          BY <4>2 DEF Row
      <4>4. r.filing = req[j].filing /\ r.type = req[j].type /\ r.seq = req[j].seq
          BY <4>1 DEF Updated
      <4> HIDE DEF q
      <4>5. Kept1(q, r)
          BY <3>3, <4>2, <4>3, <4>4 DEF Continues, UpdatePayload
      <4> HIDE DEF Kept1
      <4> QED
          BY <4>1, <4>5
    <3>4. CASE ReplaceFacts(j)
      <4> DEFINE q == [r EXCEPT !.facts = chosen[j]]
      <4>1. r = FirstOf(Persisted(j)) /\ q \in versions' /\ pc[j] = "replacing" /\ Persisted(j) # {}
          BY <2>2, <3>4 DEF ReplaceFacts
      <4>2. r \in Row /\ chosen[j] # None
          BY <4>1 DEF IInv, Types0, JobInv, HasRead
      <4>3. /\ q.type = r.type /\ q.date = r.date /\ q.seq = r.seq /\ q.filing = r.filing
            /\ q.payload = r.payload /\ q.facts = chosen[j]
          BY <4>2 DEF Row
      <4>4. Persisted(j) \in SUBSET Row
          BY DEF IInv, Types0, Persisted, Matching
      <4>5. r \in Persisted(j)
          BY <4>1, <4>4, FirstIsOne
      <4>6. r.type = req[j].type /\ YearOf[r.date] = req[j].year /\ r.seq = req[j].seq
          BY <4>5 DEF Persisted, Matching
      <4> HIDE DEF q
      <4>7. Kept1(q, r)
          BY <4>1, <4>2, <4>3, <4>6 DEF Continues
      <4> HIDE DEF Kept1
      <4> QED
          BY <4>1, <4>7
    <3> QED
        BY <3>2, <3>3, <3>4
  <2> QED
      BY <2>1, <2>2
<1> QED
    BY SpecIInv, <1>1, PTL DEF Spec, HistoryPreserved

\* Whatever is requested, transactions wait in a circle only when the syncs under way
\* take the statement dates in no common order: filings, the positions of the types and
\* single filings never close one, for any number of jobs and dates.
THEOREM NobodyWaitsForever == Spec => []NoWaitCycle
<1> DEFINE Down == \A Day \in DateOrders : Downwards(Day)
<1>1. Init => Down
    BY DEF Init, Downwards
<1>2. IInv /\ Down /\ [Next]_vars => Down'
    BY StepLocksDown DEF DateOrders
<1>3. IInv /\ Down => NoWaitCycle
    BY NoCircle
<1> HIDE DEF Down
<1> QED
    BY <1>1, <1>2, <1>3, SpecIInv, PTL DEF Spec

-----------------------------------------------------------------------------
(* Alignments.                                                             *)

Pcs == {"idle", "update", "insert", "upserted", "refused", "conflict", "failed",
        "committed", "returned"}

Record == [by : Calls, about : Versions]

AlignmentTypes ==
    /\ stored \subseteq Versions
    /\ aligned \in [Versions -> Record \cup {None}]
    /\ pending \in [Versions -> Record \cup {None}]
    /\ at \in [Calls -> Pcs]
    /\ commits \in [Calls -> BOOLEAN]
    /\ batch \in [Calls -> Seq(Versions)]
    /\ next \in [Calls -> Nat \ {0}]
    /\ DOMAIN target = Calls
    /\ DOMAIN absent = Calls

\* A writing call has a version for every record and holds a row for each one done.
Upserting(c) ==
    /\ target[c] \in [1..Len(batch[c]) -> Versions]
    /\ \A i \in 1..Len(batch[c]) : AL!SameIdentity(target[c][i], batch[c][i])
    /\ \A i \in 1..Len(batch[c]) : i < next[c] => AL!Own(c, target[c][i])
    /\ at[c] \in {"update", "insert"} => next[c] <= Len(batch[c])
    /\ at[c] = "upserted" => next[c] = Len(batch[c]) + 1
    /\ at[c] = "insert" => AL!At(c) \in absent[c]
    /\ \A v \in Versions : aligned[v] = None => v \in absent[c]

\* A call that found all its rows does not meet the unique constraint.
Refused(c) == AL!Range(target[c]) \cap absent[c] # {}

CallInv(c) ==
    /\ at[c] = "idle" => next[c] = 1
    /\ AL!Writing(c) => Upserting(c)
    /\ at[c] = "committed" =>
         \A v \in AL!Range(target[c]) : v \in Versions /\ aligned[v] # None
    /\ at[c] = "conflict" => Refused(c)

\* Two batches are not the last at one version each of what both wrote.
Ordered(c, d) ==
    at[c] = "committed" /\ at[d] = "committed" =>
        \A v, w \in AL!Range(target[c]) \cap AL!Range(target[d]) :
            ~(aligned[v].by = c /\ aligned[w].by = d)

\* Whose a row is and what it is about.
RowInv(v) ==
    /\ aligned[v] # None =>
         /\ at[aligned[v].by] = "committed" /\ commits[aligned[v].by]
         /\ AL!SameIdentity(v, aligned[v].about)
    /\ pending[v] # None =>
         /\ AL!Writing(pending[v].by)
         /\ AL!SameIdentity(v, pending[v].about)

AlignmentInv ==
    /\ AlignmentTypes
    /\ \A c \in Calls : CallInv(c)
    /\ \A c, d \in Calls : c # d => Ordered(c, d)
    /\ \A v \in Versions : RowInv(v)

-----------------------------------------------------------------------------

\* The fields a version and a record are made of.
LEMMA Fresh ==
    /\ None \notin Record
    /\ \A r \in Batches : r \in Seq(Versions) /\ r # <<>>
    BY Alignment DEF AL!AlignmentAssumption, Record

\* What is kept by a step of call c that leaves the committed rows alone.
LEMMA OthersKeep ==
    ASSUME AlignmentInv, AlignmentTypes', NEW c \in Calls,
           aligned' = aligned, commits' = commits,
           \A d \in Calls \ {c} : /\ at'[d] = at[d] /\ batch'[d] = batch[d]
                                  /\ target'[d] = target[d] /\ next'[d] = next[d]
                                  /\ absent'[d] = absent[d],
           \A d \in Calls \ {c} : \A v \in Versions : AL!Own(d, v) => AL!Own(d, v)',
           at[c] # "committed", at'[c] # "committed"
    PROVE  /\ \A d \in Calls \ {c} : CallInv(d)'
           /\ \A d, e \in Calls : d # e => Ordered(d, e)'
           /\ \A v \in Versions : aligned'[v] # None =>
                 /\ at'[aligned'[v].by] = "committed" /\ commits'[aligned'[v].by]
                 /\ AL!SameIdentity(v, aligned'[v].about)
<1>1. ASSUME NEW d \in Calls \ {c}
      PROVE  CallInv(d)'
  <2>1. CallInv(d)
      BY DEF AlignmentInv
  <2>2. Upserting(d) => Upserting(d)'
    <3>1. SUFFICES ASSUME Upserting(d) PROVE Upserting(d)'
        OBVIOUS
    <3>2. /\ at'[d] = at[d] /\ batch'[d] = batch[d] /\ target'[d] = target[d]
          /\ next'[d] = next[d] /\ absent'[d] = absent[d] /\ aligned' = aligned
        OBVIOUS
    <3>3. AL!At(d)' = AL!At(d)
        BY <3>2 DEF AL!At
    <3>4. ASSUME NEW i \in 1..Len(batch[d]), i < next[d]
          PROVE  AL!Own(d, target[d][i])'
      <4>1. target[d][i] \in Versions /\ AL!Own(d, target[d][i])
          BY <3>1, <3>4 DEF Upserting
      <4>2. \A v \in Versions : AL!Own(d, v) => AL!Own(d, v)'
          OBVIOUS
      <4> QED
          BY <3>2, <4>1, <4>2 DEF AL!Own
    <3>5. /\ target'[d] \in [1..Len(batch'[d]) -> Versions]
          /\ \A i \in 1..Len(batch'[d]) : AL!SameIdentity(target'[d][i], batch'[d][i])
          /\ at'[d] \in {"update", "insert"} => next'[d] <= Len(batch'[d])
          /\ at'[d] = "upserted" => next'[d] = Len(batch'[d]) + 1
          /\ at'[d] = "insert" => AL!At(d)' \in absent'[d]
          /\ \A v \in Versions : aligned'[v] = None => v \in absent'[d]
        BY <3>1, <3>2, <3>3 DEF Upserting
    <3>6. \A i \in 1..Len(batch'[d]) : i < next'[d] => AL!Own(d, target[d][i])'
        BY <3>2, <3>4
    <3> QED
        BY <3>5, <3>6 DEF Upserting, AL!Own
  <2> QED
      BY <2>1, <2>2 DEF CallInv, AL!Writing, Refused
<1>2. \A d, e \in Calls : d # e => Ordered(d, e)'
    BY DEF AlignmentInv, Ordered
<1>3. ASSUME NEW v \in Versions, aligned'[v] # None
      PROVE  /\ at'[aligned'[v].by] = "committed" /\ commits'[aligned'[v].by]
             /\ AL!SameIdentity(v, aligned'[v].about)
  <2>1. at[aligned[v].by] = "committed" /\ commits[aligned[v].by] /\ AL!SameIdentity(v, aligned[v].about)
        /\ aligned[v].by \in Calls
      BY <1>3 DEF AlignmentInv, RowInv, AlignmentTypes, Record
  <2> QED
      BY <2>1
<1> QED
    BY <1>1, <1>2, <1>3
\* With the call's own part, the others' and what is pending, the invariant is kept.
LEMMA FromOthers ==
    ASSUME AlignmentInv, AlignmentTypes', NEW c \in Calls,
           aligned' = aligned, commits' = commits,
           \A d \in Calls \ {c} : /\ at'[d] = at[d] /\ batch'[d] = batch[d]
                                  /\ target'[d] = target[d] /\ next'[d] = next[d]
                                  /\ absent'[d] = absent[d],
           \A d \in Calls \ {c} : \A v \in Versions : AL!Own(d, v) => AL!Own(d, v)',
           at[c] # "committed", at'[c] # "committed",
           CallInv(c)',
           \A v \in Versions : pending'[v] # None =>
               /\ AL!Writing(pending[v].by)'
               /\ AL!SameIdentity(v, pending'[v].about)
    PROVE  AlignmentInv'
<1>1. /\ \A d \in Calls \ {c} : CallInv(d)'
      /\ \A d, e \in Calls : d # e => Ordered(d, e)'
      /\ \A v \in Versions : aligned'[v] # None =>
            /\ at'[aligned'[v].by] = "committed" /\ commits'[aligned'[v].by]
            /\ AL!SameIdentity(v, aligned'[v].about)
    BY OthersKeep
<1>2. \A d \in Calls : CallInv(d)'
    BY <1>1
<1>3. \A v \in Versions : RowInv(v)'
    BY <1>1 DEF RowInv, AL!SameIdentity
<1> QED
    BY <1>1, <1>2, <1>3 DEF AlignmentInv

\* The record at hand and the row of its version.
LEMMA AtHand ==
    ASSUME AlignmentInv, NEW c \in Calls, at[c] \in {"update", "insert"}
    PROVE  /\ next[c] \in 1..Len(batch[c])
           /\ AL!At(c) \in Versions
           /\ batch[c][next[c]] \in Versions
           /\ AL!SameIdentity(AL!At(c), batch[c][next[c]])
<1>1. Upserting(c) /\ batch[c] \in Seq(Versions) /\ next[c] \in Nat \ {0}
    BY DEF AlignmentInv, CallInv, AL!Writing, AlignmentTypes
<1>2. next[c] \in 1..Len(batch[c])
    BY <1>1 DEF Upserting
<1>3. AL!SameIdentity(target[c][next[c]], batch[c][next[c]])
    BY <1>1, <1>2 DEF Upserting
<1> QED
    BY <1>1, <1>2, <1>3 DEF Upserting, AL!At

\* A row that no other call holds is written.
LEMMA WriteKeeps ==
    ASSUME AlignmentInv, NEW c \in Calls, AL!Write(c),
           at[c] \in {"update", "insert"}, ~AL!HeldByOther(c, AL!At(c))
    PROVE  AlignmentInv'
<1> DEFINE rec == [by |-> c, about |-> batch[c][next[c]]]
<1>1. /\ next[c] \in 1..Len(batch[c])
      /\ AL!At(c) \in Versions
      /\ batch[c][next[c]] \in Versions
      /\ AL!SameIdentity(AL!At(c), batch[c][next[c]])
    BY AtHand
<1>2. rec \in Record /\ rec # None
    BY <1>1, Fresh DEF Record
<1>3. AlignmentTypes
    BY DEF AlignmentInv
<1>4. /\ pending' = [pending EXCEPT ![AL!At(c)] = rec]
      /\ next' = [next EXCEPT ![c] = @ + 1]
      /\ at' = [at EXCEPT ![c] = IF next[c] = Len(batch[c]) THEN "upserted" ELSE "update"]
      /\ UNCHANGED <<stored, aligned, commits, batch, target, absent>>
    BY DEF AL!Write
<1>5. pending'[AL!At(c)] = rec /\ \A v \in Versions \ {AL!At(c)} : pending'[v] = pending[v]
    BY <1>1, <1>3, <1>4 DEF AlignmentTypes
<1>6. /\ next'[c] = next[c] + 1
      /\ at'[c] = IF next[c] = Len(batch[c]) THEN "upserted" ELSE "update"
      /\ \A d \in Calls \ {c} : next'[d] = next[d] /\ at'[d] = at[d]
    BY <1>3, <1>4 DEF AlignmentTypes
<1>7. AlignmentTypes'
  <2>1. pending' \in [Versions -> Record \cup {None}]
      BY <1>2, <1>3, <1>4 DEF AlignmentTypes
  <2>2. next' \in [Calls -> Nat \ {0}] /\ at' \in [Calls -> Pcs]
      BY <1>3, <1>4 DEF AlignmentTypes, Pcs
  <2> QED
      BY <1>3, <1>4, <2>1, <2>2 DEF AlignmentTypes
<1>8. \A v \in Versions : AL!Own(c, v) => AL!Own(c, v)'
    BY <1>2, <1>5 DEF AL!Own
<1>9. pending'[AL!At(c)] # None /\ pending'[AL!At(c)].by = c
    BY <1>2, <1>5
<1>10. \A d \in Calls \ {c} : \A v \in Versions : AL!Own(d, v) => AL!Own(d, v)'
    BY <1>5 DEF AL!Own, AL!HeldByOther
<1>11. Upserting(c) /\ batch[c] \in Seq(Versions) /\ Len(batch[c]) \in Nat
       /\ next[c] \in Nat \ {0}
    BY <1>3 DEF AlignmentInv, CallInv, AL!Writing, AlignmentTypes
<1>12. CallInv(c)'
  <2>1. \A i \in 1..Len(batch[c]) : i < next'[c] => AL!Own(c, target[c][i])'
    <3>1. SUFFICES ASSUME NEW i \in 1..Len(batch[c]), i < next[c] + 1
                   PROVE  AL!Own(c, target[c][i])'
        BY <1>6
    <3>2. target' = target /\ target[c][i] \in Versions
        BY <1>4, <1>11 DEF Upserting
    <3>3. CASE i < next[c]
      <4>1. AL!Own(c, target[c][i])
          BY <1>11, <3>3 DEF Upserting
      <4> QED
          BY <1>8, <3>2, <4>1 DEF AL!Own
    <3>4. CASE i = next[c]
        BY <1>9, <3>2, <3>4 DEF AL!At, AL!Own
    <3> QED
        BY <1>11, <3>1, <3>3, <3>4
  <2>2. /\ target'[c] \in [1..Len(batch'[c]) -> Versions]
        /\ \A i \in 1..Len(batch'[c]) : AL!SameIdentity(target'[c][i], batch'[c][i])
        /\ \A v \in Versions : aligned'[v] = None => v \in absent'[c]
      BY <1>4, <1>11 DEF Upserting
  <2>3. /\ at'[c] \in {"update", "insert"} => next'[c] <= Len(batch'[c])
        /\ at'[c] = "upserted" => next'[c] = Len(batch'[c]) + 1
        /\ at'[c] # "insert"
      BY <1>1, <1>4, <1>6, <1>11
  <2>4. Upserting(c)'
      BY <1>4, <2>1, <2>2, <2>3 DEF Upserting, AL!Own
  <2> QED
      BY <1>6, <2>4 DEF CallInv
<1>13. ASSUME NEW v \in Versions, pending'[v] # None
       PROVE  AL!Writing(pending[v].by)' /\ AL!SameIdentity(v, pending'[v].about)
  <2>1. CASE v = AL!At(c)
      BY <1>1, <1>5, <1>6, <2>1 DEF AL!Writing
  <2>2. CASE v # AL!At(c)
    <3>1. pending'[v] = pending[v] /\ pending[v] \in Record
        BY <1>3, <1>5, <1>13, <2>2 DEF AlignmentTypes
    <3>2. AL!Writing(pending[v].by) /\ AL!SameIdentity(v, pending[v].about)
          /\ pending[v].by \in Calls
        BY <1>13, <3>1 DEF AlignmentInv, RowInv, Record
    <3>3. pending[v].by = c \/ at'[pending[v].by] = at[pending[v].by]
        BY <1>6, <3>2
    <3> QED
        BY <1>6, <3>1, <3>2, <3>3 DEF AL!Writing
  <2> QED
      BY <2>1, <2>2
<1>14. at[c] # "committed" /\ at'[c] # "committed"
    BY <1>6
<1> QED
    BY <1>4, <1>6, <1>7, <1>10, <1>12, <1>13, <1>14, FromOthers
\* A call without a commit ends, and what it held is released.
LEMMA LeaveKeeps ==
    ASSUME AlignmentInv, NEW c \in Calls, NEW how, AL!Leave(c, how),
           AL!Writing(c), how \in {"conflict", "failed", "returned"},
           how = "conflict" => Refused(c)
    PROVE  AlignmentInv'
<1>1. AlignmentTypes
    BY DEF AlignmentInv
<1>2. /\ at' = [at EXCEPT ![c] = how]
      /\ pending' = [v \in Versions |-> IF AL!Own(c, v) THEN None ELSE pending[v]]
      /\ UNCHANGED <<stored, aligned, commits, batch, target, next, absent>>
    BY DEF AL!Leave, AL!Released
<1>3. at'[c] = how /\ \A d \in Calls \ {c} : at'[d] = at[d]
    BY <1>1, <1>2 DEF AlignmentTypes
<1>4. AlignmentTypes'
  <2>1. pending' \in [Versions -> Record \cup {None}]
      BY <1>1, <1>2 DEF AlignmentTypes
  <2>2. at' \in [Calls -> Pcs]
      BY <1>1, <1>2 DEF AlignmentTypes, Pcs
  <2> QED
      BY <1>1, <1>2, <2>1, <2>2 DEF AlignmentTypes
<1>5. \A d \in Calls \ {c} : \A v \in Versions : AL!Own(d, v) => AL!Own(d, v)'
    BY <1>2 DEF AL!Own
<1>6. CallInv(c)'
    BY <1>2, <1>3 DEF CallInv, AL!Writing, Refused
<1>7. ASSUME NEW v \in Versions, pending'[v] # None
      PROVE  AL!Writing(pending[v].by)' /\ AL!SameIdentity(v, pending'[v].about)
  <2>1. pending'[v] = pending[v] /\ ~AL!Own(c, v) /\ pending[v] \in Record
      BY <1>1, <1>2, <1>7 DEF AlignmentTypes
  <2>2. AL!Writing(pending[v].by) /\ AL!SameIdentity(v, pending[v].about)
        /\ pending[v].by \in Calls /\ pending[v].by # c
      BY <1>7, <2>1 DEF AlignmentInv, RowInv, Record, AL!Own
  <2> QED
      BY <1>3, <2>1, <2>2 DEF AL!Writing
<1>8. at[c] # "committed" /\ at'[c] # "committed"
    BY <1>3 DEF AL!Writing
<1> QED
    BY <1>2, <1>3, <1>4, <1>5, <1>6, <1>7, <1>8, FromOthers

\* The versions of a batch are found.
LEMMA LookUpKeeps ==
    ASSUME AlignmentInv, NEW c \in Calls, AL!LookUp(c)
    PROVE  AlignmentInv'
<1>1. AlignmentTypes
    BY DEF AlignmentInv
<1>a. PICK records \in Batches :
          \E t \in AL!Targets(records) :
             /\ batch' = [batch EXCEPT ![c] = records]
             /\ target' = [target EXCEPT ![c] = t]
    BY DEF AL!LookUp
<1>2. PICK t \in AL!Targets(records) :
          /\ batch' = [batch EXCEPT ![c] = records]
          /\ target' = [target EXCEPT ![c] = t]
    BY <1>a
<1>3. /\ absent' = [absent EXCEPT ![c] = {v \in Versions : aligned[v] = None}]
      /\ at' = [at EXCEPT ![c] = "update"]
      /\ at[c] = "idle"
      /\ UNCHANGED <<stored, aligned, pending, commits, next>>
    BY DEF AL!LookUp
<1>4. /\ at'[c] = "update" /\ batch'[c] = records /\ target'[c] = t
      /\ absent'[c] = {v \in Versions : aligned[v] = None}
      /\ \A d \in Calls \ {c} : /\ at'[d] = at[d] /\ batch'[d] = batch[d]
                                /\ target'[d] = target[d] /\ next'[d] = next[d]
                                /\ absent'[d] = absent[d]
    BY <1>1, <1>2, <1>3 DEF AlignmentTypes
<1>5. records \in Seq(Versions) /\ records # <<>>
    BY Fresh
<1>6. next'[c] = 1
    BY <1>3 DEF AlignmentInv, CallInv
<1>7. AlignmentTypes'
    BY <1>1, <1>2, <1>3, <1>5 DEF AlignmentTypes, Pcs
<1>8. t \in [1..Len(records) -> Versions]
      /\ \A i \in 1..Len(records) : AL!SameIdentity(t[i], records[i])
    BY <1>1 DEF AL!Targets, AlignmentTypes
<1>9. Len(records) \in Nat /\ Len(records) >= 1
    BY <1>5
<1>10. CallInv(c)'
  <2>1. Upserting(c)'
    <3>1. /\ target'[c] \in [1..Len(batch'[c]) -> Versions]
          /\ \A i \in 1..Len(batch'[c]) : AL!SameIdentity(target'[c][i], batch'[c][i])
        BY <1>4, <1>8
    <3>2. \A i \in 1..Len(batch'[c]) : i < next'[c] => AL!Own(c, target[c][i])'
        BY <1>4, <1>6, <1>9
    <3>3. /\ at'[c] \in {"update", "insert"} => next'[c] <= Len(batch'[c])
          /\ at'[c] # "upserted" /\ at'[c] # "insert"
          /\ \A v \in Versions : aligned'[v] = None => v \in absent'[c]
        BY <1>3, <1>4, <1>6, <1>9
    <3> QED
        BY <3>1, <3>2, <3>3 DEF Upserting, AL!Own
  <2> QED
      BY <1>4, <2>1 DEF CallInv
<1>11. ASSUME NEW v \in Versions, pending'[v] # None
       PROVE  AL!Writing(pending[v].by)' /\ AL!SameIdentity(v, pending'[v].about)
  <2>1. AL!Writing(pending[v].by) /\ AL!SameIdentity(v, pending[v].about)
        /\ pending[v].by \in Calls
      BY <1>1, <1>3, <1>11 DEF AlignmentInv, RowInv, AlignmentTypes, Record
  <2> QED
      BY <1>3, <1>4, <2>1 DEF AL!Writing
<1>12. \A d \in Calls \ {c} : \A v \in Versions : AL!Own(d, v) => AL!Own(d, v)'
    BY <1>3 DEF AL!Own
<1> QED
    BY <1>3, <1>4, <1>7, <1>10, <1>11, <1>12, FromOthers

\* A step of a call that writes nothing and ends nowhere but "refused" or "insert".
LEMMA MovesOn ==
    ASSUME AlignmentInv, NEW c \in Calls, AL!NotFound(c) \/ AL!NothingUpdated(c)
    PROVE  AlignmentInv'
<1>1. AlignmentTypes
    BY DEF AlignmentInv
<1>2. /\ at' = [at EXCEPT ![c] = "refused"] \/ at' = [at EXCEPT ![c] = "insert"]
      /\ UNCHANGED <<stored, aligned, pending, commits, batch, target, next, absent>>
      /\ at[c] \in {"idle", "update"}
    BY DEF AL!NotFound, AL!NothingUpdated
<1>3. \A d \in Calls \ {c} : at'[d] = at[d]
    BY <1>1, <1>2 DEF AlignmentTypes
<1>4. at'[c] \in {"refused", "insert"}
    BY <1>1, <1>2 DEF AlignmentTypes
<1>5. AlignmentTypes'
    BY <1>1, <1>2 DEF AlignmentTypes, Pcs
<1>6. CallInv(c)'
  <2>1. CASE AL!NotFound(c)
    <3>1. at'[c] = "refused"
        BY <1>1, <2>1 DEF AL!NotFound, AlignmentTypes
    <3> QED
        BY <3>1 DEF CallInv, AL!Writing
  <2>2. CASE AL!NothingUpdated(c)
    <3>1. at[c] = "update" /\ at'[c] = "insert" /\ aligned[AL!At(c)] = None
        BY <1>1, <2>2 DEF AL!NothingUpdated, AlignmentTypes
    <3>2. Upserting(c) /\ AL!At(c) \in Versions
        BY <3>1, AtHand DEF AlignmentInv, CallInv, AL!Writing
    <3>3. AL!At(c) \in absent[c] /\ next[c] <= Len(batch[c])
        BY <3>1, <3>2 DEF Upserting
    <3>4. Upserting(c)'
        BY <1>2, <3>1, <3>2, <3>3 DEF Upserting, AL!At, AL!Own
    <3> QED
        BY <3>1, <3>4 DEF CallInv
  <2> QED
      BY <2>1, <2>2
<1>7. ASSUME NEW v \in Versions, pending'[v] # None
      PROVE  AL!Writing(pending[v].by)' /\ AL!SameIdentity(v, pending'[v].about)
  <2>1. AL!Writing(pending[v].by) /\ AL!SameIdentity(v, pending[v].about)
        /\ pending[v].by \in Calls
      BY <1>1, <1>2, <1>7 DEF AlignmentInv, RowInv, AlignmentTypes, Record
  <2>2. pending[v].by = c => at'[c] = "insert"
      BY <1>1, <2>1 DEF AL!NotFound, AL!NothingUpdated, AL!Writing, AlignmentTypes
  <2> QED
      BY <1>2, <1>3, <2>1, <2>2 DEF AL!Writing
<1>8. \A d \in Calls \ {c} : \A v \in Versions : AL!Own(d, v) => AL!Own(d, v)'
    BY <1>2 DEF AL!Own
<1> QED
    BY <1>2, <1>3, <1>4, <1>5, <1>6, <1>7, <1>8, FromOthers
\* The caller's commit: every row of its batch is its own, so that no other's is.
LEMMA AlignmentCommitKeeps ==
    ASSUME AlignmentInv, NEW c \in Calls, AL!Commit(c)
    PROVE  AlignmentInv'
<1>1. AlignmentTypes
    BY DEF AlignmentInv
<1>2. /\ at[c] = "upserted" /\ commits[c]
      /\ aligned' = [v \in Versions |-> IF AL!Own(c, v) THEN pending[v] ELSE aligned[v]]
      /\ pending' = [v \in Versions |-> IF AL!Own(c, v) THEN None ELSE pending[v]]
      /\ at' = [at EXCEPT ![c] = "committed"]
      /\ UNCHANGED <<stored, commits, batch, target, next, absent>>
    BY DEF AL!Commit, AL!Released
<1>3. at'[c] = "committed" /\ \A d \in Calls \ {c} : at'[d] = at[d]
    BY <1>1, <1>2 DEF AlignmentTypes
<1>4. \A v \in Versions : aligned'[v] = IF AL!Own(c, v) THEN pending[v] ELSE aligned[v]
    BY <1>2
<1>5. AlignmentTypes'
  <2>1. aligned' \in [Versions -> Record \cup {None}]
      BY <1>1, <1>2 DEF AlignmentTypes
  <2>2. pending' \in [Versions -> Record \cup {None}]
      BY <1>1, <1>2 DEF AlignmentTypes
  <2>3. at' \in [Calls -> Pcs]
      BY <1>1, <1>2 DEF AlignmentTypes, Pcs
  <2> QED
      BY <1>1, <1>2, <2>1, <2>2, <2>3 DEF AlignmentTypes
<1>6. \A v \in AL!Range(target[c]) : v \in Versions /\ AL!Own(c, v)
  <2>1. Upserting(c) /\ batch[c] \in Seq(Versions) /\ Len(batch[c]) \in Nat
      BY <1>1, <1>2 DEF AlignmentInv, CallInv, AL!Writing, AlignmentTypes
  <2>2. \A i \in 1..Len(batch[c]) : target[c][i] \in Versions /\ AL!Own(c, target[c][i])
      BY <1>2, <2>1 DEF Upserting
  <2>3. DOMAIN target[c] = 1..Len(batch[c])
      BY <2>1 DEF Upserting
  <2> QED
      BY <2>2, <2>3 DEF AL!Range
<1>7. \A v \in Versions : aligned[v] # None => aligned'[v] # None
    BY <1>4 DEF AL!Own
<1>8. ASSUME NEW d \in Calls
      PROVE  CallInv(d)'
  <2>1. CASE d = c
    <3>1. \A v \in AL!Range(target[c]) : v \in Versions /\ aligned'[v] # None
        BY <1>4, <1>6 DEF AL!Own
    <3> QED
        BY <1>2, <1>3, <2>1, <3>1 DEF CallInv, AL!Writing
  <2>2. CASE d # c
    <3>1. CallInv(d)
        BY DEF AlignmentInv
    <3>2. at'[d] = at[d] /\ target'[d] = target[d] /\ batch'[d] = batch[d]
          /\ next'[d] = next[d] /\ absent'[d] = absent[d]
        BY <1>2, <1>3, <2>2
    <3>3. Upserting(d) => Upserting(d)'
      <4>1. SUFFICES ASSUME Upserting(d) PROVE Upserting(d)'
          OBVIOUS
      <4>2. AL!At(d)' = AL!At(d)
          BY <3>2 DEF AL!At
      <4>3. \A v \in Versions : AL!Own(d, v) => AL!Own(d, v)'
          BY <1>2, <2>2 DEF AL!Own
      <4>4. ASSUME NEW i \in 1..Len(batch[d]), i < next[d]
            PROVE  pending'[target[d][i]] # None /\ pending'[target[d][i]].by = d
        <5>1. target[d][i] \in Versions /\ AL!Own(d, target[d][i])
            BY <4>1, <4>4 DEF Upserting
        <5> QED
            BY <4>3, <5>1 DEF AL!Own
      <4>5. /\ target'[d] \in [1..Len(batch'[d]) -> Versions]
            /\ \A i \in 1..Len(batch'[d]) : AL!SameIdentity(target'[d][i], batch'[d][i])
            /\ at'[d] \in {"update", "insert"} => next'[d] <= Len(batch'[d])
            /\ at'[d] = "upserted" => next'[d] = Len(batch'[d]) + 1
            /\ at'[d] = "insert" => AL!At(d)' \in absent'[d]
          BY <3>2, <4>1, <4>2 DEF Upserting
      <4>6. \A v \in Versions : aligned'[v] = None => v \in absent'[d]
          BY <1>7, <3>2, <4>1 DEF Upserting
      <4> QED
          BY <3>2, <4>4, <4>5, <4>6 DEF Upserting, AL!Own
    <3> QED
        BY <1>7, <3>1, <3>2, <3>3 DEF CallInv, AL!Writing, Refused
  <2> QED
      BY <2>1, <2>2
<1>9. ASSUME NEW d \in Calls, NEW e \in Calls, d # e
      PROVE  Ordered(d, e)'
  <2>1. SUFFICES ASSUME at'[d] = "committed", at'[e] = "committed",
                        NEW v \in AL!Range(target[d]) \cap AL!Range(target[e]),
                        NEW w \in AL!Range(target[d]) \cap AL!Range(target[e]),
                        aligned'[v].by = d, aligned'[w].by = e
                 PROVE  FALSE
      BY <1>2 DEF Ordered
  <2>2. CASE d = c
    <3>1. w \in Versions /\ AL!Own(c, w)
        BY <1>6, <2>1, <2>2
    <3> QED
        BY <1>4, <1>9, <2>1, <2>2, <3>1 DEF AL!Own
  <2>3. CASE e = c
    <3>1. v \in Versions /\ AL!Own(c, v)
        BY <1>6, <2>1, <2>3
    <3> QED
        BY <1>4, <1>9, <2>1, <2>3, <3>1 DEF AL!Own
  <2>4. CASE d # c /\ e # c
    <3>1. at[d] = "committed" /\ at[e] = "committed"
        BY <1>3, <2>1, <2>4
    <3>2. v \in Versions /\ w \in Versions
        BY <3>1, <2>1 DEF AlignmentInv, CallInv
    <3>3. aligned'[v] = aligned[v] /\ aligned'[w] = aligned[w]
        BY <1>4, <2>1, <2>4, <3>2 DEF AL!Own
    <3> QED
        BY <1>9, <2>1, <3>1, <3>3 DEF AlignmentInv, Ordered
  <2> QED
      BY <2>2, <2>3, <2>4
<1>10. ASSUME NEW v \in Versions
       PROVE  RowInv(v)'
  <2>1. RowInv(v)
      BY DEF AlignmentInv
  <2>2. aligned[v] # None => aligned[v].by \in Calls
      BY <1>1 DEF AlignmentTypes, Record
  <2>3. pending[v] # None => pending[v].by \in Calls
      BY <1>1 DEF AlignmentTypes, Record
  <2>4. ASSUME aligned'[v] # None
        PROVE  /\ at'[aligned'[v].by] = "committed" /\ commits'[aligned'[v].by]
               /\ AL!SameIdentity(v, aligned'[v].about)
    <3>1. CASE AL!Own(c, v)
      <4>1. aligned'[v] = pending[v] /\ pending[v] # None /\ pending[v].by = c
          BY <1>4, <3>1 DEF AL!Own
      <4> QED
          BY <1>2, <1>3, <2>1, <4>1 DEF RowInv
    <3>2. CASE ~AL!Own(c, v)
      <4>1. aligned'[v] = aligned[v]
          BY <1>4, <3>2
      <4>2. at[aligned[v].by] = "committed" /\ commits[aligned[v].by]
            /\ AL!SameIdentity(v, aligned[v].about) /\ aligned[v].by \in Calls
          BY <2>1, <2>2, <2>4, <4>1 DEF RowInv
      <4> QED
          BY <1>2, <1>3, <4>1, <4>2
    <3> QED
        BY <3>1, <3>2
  <2>5. ASSUME pending'[v] # None
        PROVE  AL!Writing(pending[v].by)' /\ AL!SameIdentity(v, pending'[v].about)
    <3>1. pending'[v] = pending[v] /\ ~AL!Own(c, v)
        BY <1>2, <2>5
    <3>2. pending[v].by # c /\ pending[v].by \in Calls
          /\ AL!Writing(pending[v].by) /\ AL!SameIdentity(v, pending[v].about)
        BY <2>1, <2>3, <2>5, <3>1 DEF RowInv, AL!Own
    <3> QED
        BY <1>3, <3>1, <3>2 DEF AL!Writing
  <2> QED
      BY <2>4, <2>5 DEF RowInv, AL!SameIdentity
<1> QED
    BY <1>5, <1>8, <1>9, <1>10 DEF AlignmentInv

-----------------------------------------------------------------------------

LEMMA AlignmentInit ==
    ASSUME AL!Init
    PROVE  AlignmentInv
<1>1. AlignmentTypes
    BY DEF AL!Init, AlignmentTypes, Pcs
<1>2. \A c \in Calls : at[c] = "idle" /\ next[c] = 1
    BY DEF AL!Init
<1>3. \A v \in Versions : aligned[v] = None /\ pending[v] = None
    BY DEF AL!Init
<1> QED
    BY <1>1, <1>2, <1>3 DEF AlignmentInv, CallInv, Ordered, RowInv, AL!Writing

LEMMA AlignmentStep ==
    ASSUME AlignmentInv, [AL!Next]_AL!vars
    PROVE  AlignmentInv'
<1>1. CASE UNCHANGED AL!vars
  <2>1. UNCHANGED <<stored, aligned, pending, at, commits, batch, target, next, absent>>
      BY <1>1 DEF AL!vars, AL!work
  <2> QED
      BY <2>1 DEF AlignmentInv, AlignmentTypes, CallInv, AL!Writing, Upserting, AL!Own, AL!At, Refused, Ordered, RowInv
<1>2. CASE AL!FileVersion
  <2>1. /\ stored' \subseteq Versions
        /\ UNCHANGED <<aligned, pending, at, commits, batch, target, next, absent>>
      BY <1>2 DEF AL!FileVersion, AL!work, AlignmentInv, AlignmentTypes
  <2> QED
      BY <2>1 DEF AlignmentInv, AlignmentTypes, CallInv, AL!Writing, Upserting, AL!Own, AL!At, Refused, Ordered, RowInv
<1>3. ASSUME NEW c \in Calls,
             \/ AL!LookUp(c) \/ AL!NotFound(c)
             \/ AL!Update(c) \/ AL!NothingUpdated(c) \/ AL!Insert(c) \/ AL!Conflict(c)
             \/ AL!Fail(c) \/ AL!Commit(c) \/ AL!ExitUseCase(c)
      PROVE  AlignmentInv'
  <2>1. CASE AL!LookUp(c)
      BY <2>1, LookUpKeeps
  <2>2. CASE AL!NotFound(c) \/ AL!NothingUpdated(c)
      BY <2>2, MovesOn
  <2>3. CASE AL!Update(c)
      BY <2>3, WriteKeeps DEF AL!Update
  <2>4. CASE AL!Insert(c)
      BY <2>4, WriteKeeps DEF AL!Insert
  <2>5. CASE AL!Conflict(c)
    <3>1. at[c] = "insert" /\ AL!Leave(c, "conflict")
        BY <2>5 DEF AL!Conflict
    <3>2. Upserting(c) /\ next[c] \in 1..Len(batch[c])
        BY <3>1, AtHand DEF AlignmentInv, CallInv, AL!Writing
    <3>3. AL!At(c) \in absent[c] /\ AL!At(c) \in AL!Range(target[c])
        BY <3>1, <3>2 DEF Upserting, AL!At, AL!Range
    <3> QED
        BY <3>1, <3>3, LeaveKeeps DEF Refused, AL!Writing
  <2>6. CASE AL!Fail(c)
      BY <2>6, LeaveKeeps DEF AL!Fail
  <2>7. CASE AL!Commit(c)
      BY <2>7, AlignmentCommitKeeps
  <2>8. CASE AL!ExitUseCase(c)
      BY <2>8, LeaveKeeps DEF AL!ExitUseCase, AL!Writing
  <2> QED
      BY <1>3, <2>1, <2>2, <2>3, <2>4, <2>5, <2>6, <2>7, <2>8
<1> QED
    BY <1>1, <1>2, <1>3 DEF AL!Next

LEMMA AlignmentAlways == AL!Spec => []AlignmentInv
<1>1. AL!Init => AlignmentInv
    BY AlignmentInit
<1>2. AlignmentInv /\ [AL!Next]_AL!vars => AlignmentInv'
    BY AlignmentStep
<1> QED
    BY <1>1, <1>2, PTL DEF AL!Spec

-----------------------------------------------------------------------------

\* What StatementAlignment calls finite, and its sizes, are what the lemmas speak of.
LEMMA SameSizes ==
    ASSUME NEW S
    PROVE  /\ AL!IsFiniteSet(S) <=> IsFiniteSet(S)
           /\ AL!Cardinality(S) = Cardinality(S)
BY DEF AL!IsFiniteSet, AL!Cardinality, IsFiniteSet, Cardinality

\* The last of a key in the timeline has the highest sequence of the key.
LEMMA LastIsLatest ==
    ASSUME NEW list \in AL!Timelines, NEW i \in DOMAIN list,
           i + 1 \notin DOMAIN list \/ list[i].key # list[i + 1].key,
           NEW v \in AL!LatestOf(list[i].key)
    PROVE  v.seq = list[i].seq
<1> DEFINE having == {w \in Versions : aligned[w] # None}
           n == Cardinality(having)
<1>1. n \in Nat
  <2>1. IsFiniteSet(having)
      BY FS_Subset, SameSizes, Alignment DEF AL!AlignmentAssumption
  <2> QED
      BY <2>1, FS_CardinalityType
<1>2. /\ list \in [1..n -> having]
      /\ AL!Range(list) = having
      /\ \A j, k \in DOMAIN list : j < k => ~AL!Earlier(list[k], list[j])
    BY SameSizes DEF AL!Timelines
<1> HIDE DEF n
<1>3. /\ DOMAIN list = 1..n /\ i \in 1..n
      /\ \A k \in 1..n : /\ list[k] \in having
                         /\ list[k].key \in Nat /\ list[k].seq \in Nat
    BY <1>2, Alignment DEF AL!AlignmentAssumption
<1>4. v \in having /\ v.key = list[i].key /\ list[i].seq <= v.seq
    BY <1>3 DEF AL!LatestOf, AL!Aligned
<1>5. PICK k \in 1..n : v = list[k]
    BY <1>2, <1>3, <1>4 DEF AL!Range
<1>6. CASE k <= i
    BY <1>1, <1>2, <1>3, <1>4, <1>5, <1>6 DEF AL!Earlier
<1>7. CASE i < k
  <2>1. i + 1 \in 1..n /\ i < i + 1 /\ i + 1 <= k
      BY <1>1, <1>3, <1>5, <1>7
  <2>2. ~AL!Earlier(list[i + 1], list[i]) /\ list[i].key # list[i + 1].key
      BY <1>2, <1>3, <2>1
  <2>3. list[i].key < list[i + 1].key
      BY <1>3, <2>1, <2>2 DEF AL!Earlier
  <2>4. k = i + 1 \/ ~AL!Earlier(list[k], list[i + 1])
      BY <1>1, <1>2, <1>3, <1>5, <2>1
  <2> QED
      BY <1>3, <1>4, <1>5, <2>1, <2>3, <2>4 DEF AL!Earlier
<1> QED
    BY <1>1, <1>3, <1>5, <1>6, <1>7

LEMMA BatchesFollow ==
    ASSUME AlignmentInv
    PROVE  BatchesStayWhole
<1>1. \A c, d \in Calls : c # d /\ at[c] = "committed" /\ at[d] = "committed" =>
         \A v, w \in AL!Range(target[c]) \cap AL!Range(target[d]) :
            ~(aligned[v].by = c /\ aligned[w].by = d)
    BY DEF AlignmentInv, Ordered
<1>2. \A c \in Calls : at[c] = "committed" =>
         \A v \in AL!Range(target[c]) : aligned[v] # None
    BY DEF AlignmentInv, CallInv
<1>3. ASSUME NEW v \in Versions, aligned[v] # None
      PROVE  /\ at[aligned[v].by] = "committed" /\ commits[aligned[v].by]
             /\ aligned[v].about = v \/ \E w \in Versions \ {v} : AL!SameIdentity(v, w)
  <2>1. /\ at[aligned[v].by] = "committed" /\ commits[aligned[v].by]
        /\ AL!SameIdentity(v, aligned[v].about) /\ aligned[v].about \in Versions
      BY <1>3 DEF AlignmentInv, RowInv, AlignmentTypes, Record
  <2> QED
      BY <2>1
<1>4. \A c \in Calls : at[c] = "conflict" => AL!Range(target[c]) \cap absent[c] # {}
    BY DEF AlignmentInv, CallInv, Refused
<1>5. \A list \in AL!Timelines :
         \A i \in DOMAIN list :
            (i + 1 \notin DOMAIN list \/ list[i].key # list[i + 1].key) =>
                \A v \in AL!LatestOf(list[i].key) : v.seq = list[i].seq
    BY LastIsLatest
<1> QED
    BY <1>1, <1>2, <1>3, <1>4, <1>5 DEF BatchesStayWhole, AL!BatchesStayWhole

\* Every part of the state of upsert_alignments and of its callers stays of its type.
THEOREM AlignmentTypeCorrect == AL!Spec => []AlignmentTypes
<1>1. AlignmentInv => AlignmentTypes
    BY DEF AlignmentInv
<1> QED
    BY <1>1, AlignmentAlways, PTL

\* For any number of calls, versions and batches of any length, batches of alignments
\* are stored whole and one after the other, rows are of callers that committed, and
\* a statement's answer is the end of its timeline.  (upsert_alignments,
\* get_alignment_for_statement, list_alignment_timeline_for_company)
THEOREM BatchesAreWhole == AL!Spec => []BatchesStayWhole
<1>1. AlignmentInv => BatchesStayWhole
    BY BatchesFollow
<1> QED
    BY <1>1, AlignmentAlways, PTL

=============================================================================
