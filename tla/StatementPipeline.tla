-------------------------- MODULE StatementPipeline --------------------------
(***************************************************************************)
(* EDGAR filings and statement versions of one company: the use cases that *)
(* write sec.filings, sec.statement_versions and                           *)
(* sec.edgar_normalized_facts, and the tables with their constraints.      *)
(*                                                                         *)
(* A job is one call of a use case.  It runs in one database transaction   *)
(* (SqlAlchemyUnitOfWork) at READ COMMITTED: it reads what others have     *)
(* committed and what it wrote itself, every statement on its own          *)
(* snapshot.  Jobs interleave at every statement.  An insert that meets an *)
(* uncommitted row with the same unique key waits for its transaction to   *)
(* end; one that meets a committed row raises IntegrityError and the unit  *)
(* of work rolls everything back.                                          *)
(*                                                                         *)
(* A normalized payload is a value of its own: what the engine makes of an *)
(* XBRL document depends on the override rules of the day, and             *)
(* update_normalized_payload stores what its caller supplies.  Facts are   *)
(* told apart by the payload they were flattened from.                     *)
(***************************************************************************)
EXTENDS Naturals, FiniteSets, Sequences, SequencesExt

CONSTANTS
    Jobs,        \* the calls of a use case that may be under way at once
    Requests,    \* what a call may ask for, see Request below
    Filings,     \* accession ids
    Types,       \* statement types
    Dates,       \* statement dates
    DateOf,      \* the filing's period_end_date, or else its filing_date
    YearOf,      \* fiscal_year of a statement date
    Filed,       \* a filing's place in the order of (filing_date, accession_id)
    Payloads,    \* normalized payloads
    MaxCalls,    \* bound: calls of a use case in all
    MaxRows,     \* bound: rows of one statement identity
    None         \* SQL NULL

Years     == {YearOf[d] : d \in Dates}
Positions == 1..Cardinality(Types)
TypeList  == {ts \in BoundedSeq(Types, Cardinality(Types)) : ts # <<>> /\ IsInjective(ts)}
FilingList == {fs \in BoundedSeq(Filings, Cardinality(Filings)) : IsInjective(fs)}

\* ingest_edgar_filing, sync_recent_filings (filings: what EDGAR reports for the
\* requested window, newest first), normalize_xbrl_statement (payload: what the
\* document maps to under the rules of the day, None when no fact does),
\* process_xbrl_for_filing, persist_normalized_facts_for_statement, and the
\* repository's own update_normalized_payload, which no use case calls.
Request ==
    [kind : {"ingest"}, filing : Filings, types : TypeList]
      \cup [kind : {"sync"}, filings : FilingList, types : TypeList]
      \cup [kind : {"normalize"}, filing : Filings, type : Types, year : Years,
            seq : Positions, payload : Payloads \cup {None}]
      \cup [kind : {"process"}, filing : Filings, only : SUBSET Types]
      \cup [kind : {"persist"}, type : Types, year : Years, seq : Positions]
      \cup [kind : {"update"}, filing : Filings, type : Types, seq : Positions,
            payload : Payloads]

ASSUME PipelineAssumption ==
    /\ Requests \subseteq Request
    /\ IsFiniteSet(Types)
    /\ IsFiniteSet(Dates)
    /\ DateOf \in [Filings -> Dates]
    /\ YearOf \in [Dates -> Nat \ {0}]
    /\ Filed \in [Filings -> Nat]
    /\ \A q \in Requests : q.kind = "sync" =>
         \A x, y \in DOMAIN q.filings : x < y => Filed[q.filings[x]] > Filed[q.filings[y]]
    /\ MaxCalls \in Nat
    /\ MaxRows \in Nat
    /\ None \notin Payloads
    /\ None \notin Requests

\* A statement_versions row and the facts that reference it.  id orders the
\* random uuids of the rows with the same identity; 0 before the insert.
Row == [type : Types, date : Dates, seq : Positions, id : 0..MaxRows,
        filing : Filings, payload : Payloads \cup {None}, facts : Payloads \cup {None}]

VARIABLES
    filings,   \* committed sec.filings, by accession
    versions,  \* committed sec.statement_versions with their facts
    overtaken, \* history: jobs whose payload was replaced after they had read it
    stale,     \* history: keys of versions whose facts a replaced payload left behind
    req,       \* the last request of each job
    pc,        \* where its use case is
    toUpsert,  \* filings still to be upserted
    toInsert,  \* statement versions still to be inserted
    held,      \* filings upserted and not yet committed
    rows,      \* statement versions inserted and not yet committed
    chosen,    \* the payload persist_normalized_facts has read
    outcome,   \* how the last call of the job ended
    calls      \* calls made so far

tables == <<filings, versions, overtaken, stale>>
work   == <<toUpsert, toInsert, held, rows>>
vars   == <<tables, req, pc, work, chosen, outcome, calls>>

Outcomes == {"none", "ok", "not_found", "no_payload", "conflict", "failed"}

TypeOK ==
    /\ filings \subseteq Filings
    /\ versions \subseteq Row
    /\ overtaken \subseteq Jobs
    /\ stale \subseteq Types \X Dates \X Positions
    /\ \A j \in Jobs : req[j] = None \/ req[j] \in Requests
    /\ pc \in [Jobs -> {"idle", "start", "writing", "replacing"}]
    /\ \A j \in Jobs :
         /\ ToSet(toUpsert[j]) \subseteq Filings
         /\ ToSet(toInsert[j]) \subseteq Row
         /\ held[j] \subseteq Filings
         /\ rows[j] \subseteq Row
    /\ chosen \in [Jobs -> Payloads \cup {None}]
    /\ outcome \in [Jobs -> Outcomes]
    /\ calls \in 0..MaxCalls

Init ==
    /\ filings = {}
    /\ versions = {}
    /\ overtaken = {}
    /\ stale = {}
    /\ req = [j \in Jobs |-> None]
    /\ pc = [j \in Jobs |-> "idle"]
    /\ toUpsert = [j \in Jobs |-> <<>>]
    /\ toInsert = [j \in Jobs |-> <<>>]
    /\ held = [j \in Jobs |-> {}]
    /\ rows = [j \in Jobs |-> {}]
    /\ chosen = [j \in Jobs |-> None]
    /\ outcome = [j \in Jobs |-> "none"]
    /\ calls = 0

Set(f, j, value) == [f EXCEPT ![j] = value]

Kind(j) == req[j].kind

\* The use case returns or raises; the session is closed, uncommitted work gone.
End(j, how) ==
    /\ pc' = Set(pc, j, "idle")
    /\ outcome' = Set(outcome, j, how)
    /\ toUpsert' = Set(toUpsert, j, <<>>)
    /\ toInsert' = Set(toInsert, j, <<>>)
    /\ held' = Set(held, j, {})
    /\ rows' = Set(rows, j, {})
    /\ chosen' = Set(chosen, j, None)

StartWriting(j, fs, rs) ==
    /\ pc' = Set(pc, j, "writing")
    /\ toUpsert' = Set(toUpsert, j, fs)
    /\ toInsert' = Set(toInsert, j, rs)
    /\ UNCHANGED <<held, rows, chosen, outcome>>

-----------------------------------------------------------------------------
(* Queries.                                                                *)

\* The statement identity of the fact store and of the version queries.  The
\* gateway calls every fiscal period FY, so all dates of a year share it.
MatchingAnySequence(type, year, seq) ==  \* mutant: version_sequence is not compared
    {r \in versions : r.type = type /\ YearOf[r.date] = year}

Matching(type, year, seq) ==
    {r \in versions : r.type = type /\ YearOf[r.date] = year /\ r.seq = seq}

\* ORDER BY statement_version_id LIMIT 1.
FirstOf(S) == CHOOSE r \in S : \A q \in S : r.id <= q.id

SameIdentity(r, q) == r.type = q.type /\ YearOf[r.date] = YearOf[q.date] /\ r.seq = q.seq

\* uq_statement_versions_identity; the company is fixed.
Key(r) == <<r.type, r.date, r.seq>>
SameKey(r, q) == r.type = q.type /\ r.date = q.date /\ r.seq = q.seq

-----------------------------------------------------------------------------
(* ingest_edgar_filing and sync_recent_filings.                            *)

VersionsFromZero(f, types) ==  \* mutant: positions counted from 0
    [i \in 1..Len(types) |->
        [type |-> types[i], date |-> DateOf[f], seq |-> i - 1, id |-> 0,
         filing |-> f, payload |-> None, facts |-> None]]

\* Metadata-only versions: version_sequence is the position of the type in the
\* request, whatever versions of the statement exist.
VersionsOf(f, types) ==
    [i \in 1..Len(types) |->
        [type |-> types[i], date |-> DateOf[f], seq |-> i, id |-> 0,
         filing |-> f, payload |-> None, facts |-> None]]

Ingest(j) ==
    /\ pc[j] = "start"
    /\ Kind(j) = "ingest"
    /\ LET f == req[j].filing
       IN  StartWriting(j, <<f>>, VersionsOf(f, req[j].types))
    /\ UNCHANGED <<tables, req, calls>>

UnstoredDirty(j) ==  \* mutant: uncommitted filings of other transactions count as stored
    ToSet(req[j].filings) \ (filings \cup UNION {held[k] : k \in Jobs})

\* Of the filings EDGAR lists, those whose accession is not stored.
Unstored(j) == ToSet(req[j].filings) \ filings

SyncNothingNew(j) ==
    /\ pc[j] = "start"
    /\ Kind(j) = "sync"
    /\ Unstored(j) = {}
    /\ End(j, "ok")
    /\ UNCHANGED <<tables, req, calls>>

\* fs lists its filings in the order of list.
InOrderOf(fs, list) ==
    \A a, b \in DOMAIN fs, x, y \in DOMAIN list :
        a < b /\ list[x] = fs[a] /\ list[y] = fs[b] => x < y

\* The versions of the first filing, then those of the next.
BatchOf(fs, types) ==
    LET n == Len(types)
    IN  [i \in 1..(Len(fs) * n) |-> VersionsOf(fs[(i - 1) \div n + 1], types)[((i - 1) % n) + 1]]

SyncInAnyOrder(j) ==  \* mutant: deduplication as a set, the order of the listing is lost
    /\ pc[j] = "start"
    /\ Kind(j) = "sync"
    /\ Unstored(j) # {}
    /\ \E new \in FilingList :
         /\ ToSet(new) = Unstored(j)
         /\ StartWriting(j, new, BatchOf(new, req[j].types))
    /\ UNCHANGED <<tables, req, calls>>

Sync(j) ==
    /\ pc[j] = "start"
    /\ Kind(j) = "sync"
    /\ Unstored(j) # {}
    /\ \E new \in FilingList :
         /\ ToSet(new) = Unstored(j)
         /\ InOrderOf(new, req[j].filings)
         /\ StartWriting(j, new, BatchOf(new, req[j].types))
    /\ UNCHANGED <<tables, req, calls>>

-----------------------------------------------------------------------------
(* The repositories' writes, the commit and the rollback.                  *)

\* upsert_filings: an upsert locks the row of its accession.
UpsertFiling(j) ==
    /\ pc[j] = "writing"
    /\ toUpsert[j] # <<>>
    /\ \A k \in Jobs \ {j} : Head(toUpsert[j]) \notin held[k]
    /\ held' = Set(held, j, held[j] \cup {Head(toUpsert[j])})
    /\ toUpsert' = Set(toUpsert, j, Tail(toUpsert[j]))
    /\ UNCHANGED <<tables, req, pc, toInsert, rows, chosen, outcome, calls>>

Inserting(j) ==
    /\ pc[j] = "writing"
    /\ toUpsert[j] = <<>>
    /\ toInsert[j] # <<>>

\* The unique index makes the insert wait for an uncommitted duplicate.
MustWait(j) == \E k \in Jobs \ {j} : \E q \in rows[k] : SameKey(q, Head(toInsert[j]))
Duplicate(j) == \E q \in versions \cup rows[j] : SameKey(q, Head(toInsert[j]))

\* upsert_statement_versions, one row at a time: a plain INSERT, fresh uuid.
InsertVersion(j) ==
    /\ Inserting(j)
    /\ ~MustWait(j)
    /\ ~Duplicate(j)
    /\ \E id \in 1..MaxRows :
         /\ \A q \in versions \cup UNION {rows[k] : k \in Jobs} :
              SameIdentity(q, Head(toInsert[j])) => q.id # id
         /\ rows' = Set(rows, j, rows[j] \cup {[Head(toInsert[j]) EXCEPT !.id = id]})
    /\ toInsert' = Set(toInsert, j, Tail(toInsert[j]))
    /\ UNCHANGED <<tables, req, pc, toUpsert, held, chosen, outcome, calls>>

InsertConflictSkips(j) ==  \* mutant: ON CONFLICT DO NOTHING
    /\ Inserting(j)
    /\ ~MustWait(j)
    /\ Duplicate(j)
    /\ toInsert' = Set(toInsert, j, Tail(toInsert[j]))
    /\ UNCHANGED <<tables, req, pc, toUpsert, held, rows, chosen, outcome, calls>>

InsertConflict(j) ==
    /\ Inserting(j)
    /\ ~MustWait(j)
    /\ Duplicate(j)
    /\ End(j, "conflict")
    /\ UNCHANGED <<tables, req, calls>>

Commit(j) ==
    /\ pc[j] = "writing"
    /\ toUpsert[j] = <<>>
    /\ toInsert[j] = <<>>
    /\ filings' = filings \cup held[j]
    /\ versions' = versions \cup rows[j]
    /\ End(j, "ok")
    /\ UNCHANGED <<overtaken, stale, req, calls>>

\* The database fails, no company row exists, the task is cancelled or the
\* process dies.  (A call that fails before its first statement leaves nothing
\* behind, like a call never made.)
Fail(j) ==
    /\ pc[j] \in {"writing", "replacing"}
    /\ End(j, "failed")
    /\ UNCHANGED <<tables, req, calls>>

-----------------------------------------------------------------------------
(* normalize_xbrl_statement and process_xbrl_for_filing.                   *)

Persisted(j) == Matching(req[j].type, req[j].year, req[j].seq)

Targets(j) == {r \in Matching(req[j].type, req[j].year, req[j].seq) : r.filing = req[j].filing}

NormalizeNothing(j) ==
    /\ pc[j] = "start"
    /\ Kind(j) = "normalize"
    /\ \/ Targets(j) = {} /\ End(j, "not_found")
       \/ /\ Targets(j) # {}
          /\ FirstOf(Targets(j)).payload # None \/ req[j].payload = None
          /\ End(j, "ok")
    /\ UNCHANGED <<tables, req, calls>>

\* The normalized version is written with the key of the row it was read from.
Normalize(j) ==
    /\ pc[j] = "start"
    /\ Kind(j) = "normalize"
    /\ Targets(j) # {}
    /\ FirstOf(Targets(j)).payload = None
    /\ req[j].payload # None
    /\ StartWriting(j, <<>>,
           <<[FirstOf(Targets(j)) EXCEPT !.id = 0, !.payload = req[j].payload, !.facts = None]>>)
    /\ UNCHANGED <<tables, req, calls>>

\* It asks for the versions of fiscal year 0; with none it raises.
Process(j) ==
    /\ pc[j] = "start"
    /\ Kind(j) = "process"
    /\ ~\E r \in versions : YearOf[r.date] = 0 /\ r.type \in req[j].only
    /\ End(j, "not_found")
    /\ UNCHANGED <<tables, req, calls>>

UpdatedAnyFiling(j) ==  \* mutant: the UPDATE does not ask for the accession
    {r \in versions : r.type = req[j].type /\ r.seq = req[j].seq}

\* The versions of that filing, type and sequence: at most one, as its date is.
Updated(j) == {r \in versions : /\ r.filing = req[j].filing
                                /\ r.type = req[j].type /\ r.seq = req[j].seq}

\* update_normalized_payload: the UPDATE and its commit, whatever payload is there.
UpdatePayload(j) ==
    /\ pc[j] = "start"
    /\ Kind(j) = "update"
    /\ Updated(j) # {}
    /\ versions' = {IF r \in Updated(j) THEN [r EXCEPT !.payload = req[j].payload] ELSE r :
                      r \in versions}
    /\ overtaken' = overtaken \cup
         {k \in Jobs : /\ pc[k] = "replacing"
                      /\ \E r \in Updated(j) \cap Persisted(k) : r.payload = chosen[k]}
    /\ stale' = stale \cup
         {Key(q) : q \in {q \in versions : \E r \in Updated(j) :
                             SameIdentity(q, r) /\ q.facts = r.payload /\ q.facts # None}}
    /\ End(j, "ok")
    /\ UNCHANGED <<filings, req, calls>>

UpdateNothing(j) ==
    /\ pc[j] = "start"
    /\ Kind(j) = "update"
    /\ Updated(j) = {}
    /\ End(j, "not_found")
    /\ UNCHANGED <<tables, req, calls>>

-----------------------------------------------------------------------------
(* persist_normalized_facts_for_statement.                                 *)

ReadPayload(j) ==
    /\ pc[j] = "start"
    /\ Kind(j) = "persist"
    /\ overtaken' = overtaken \ {j}
    /\ \/ Persisted(j) = {} /\ End(j, "not_found")
       \/ /\ Persisted(j) # {}
          /\ FirstOf(Persisted(j)).payload = None
          /\ End(j, "no_payload")
       \/ /\ Persisted(j) # {}
          /\ FirstOf(Persisted(j)).payload # None
          /\ chosen' = Set(chosen, j, FirstOf(Persisted(j)).payload)
          /\ pc' = Set(pc, j, "replacing")
          /\ UNCHANGED <<work, outcome>>
    /\ UNCHANGED <<filings, versions, stale, req, calls>>

\* replace_facts_for_statement resolves the row again, deletes, inserts; commit.
ReplaceFacts(j) ==
    /\ pc[j] = "replacing"
    /\ Persisted(j) # {}
    /\ LET target == FirstOf(Persisted(j))
       IN  /\ versions' = (versions \ {target}) \cup {[target EXCEPT !.facts = chosen[j]]}
           /\ stale' = IF j \in overtaken THEN stale \cup {Key(target)} ELSE stale \ {Key(target)}
    /\ End(j, "ok")
    /\ UNCHANGED <<filings, overtaken, req, calls>>

-----------------------------------------------------------------------------

\* A caller starts the next use case, or repeats a request, whether or not an
\* answer reached it.
Call(j) ==
    /\ pc[j] = "idle"
    /\ calls < MaxCalls
    /\ calls' = calls + 1
    /\ \E q \in Requests : req' = Set(req, j, q)
    /\ pc' = Set(pc, j, "start")
    /\ outcome' = Set(outcome, j, "none")
    /\ UNCHANGED <<tables, work, chosen>>

Step(j) ==
    \/ Ingest(j) \/ SyncNothingNew(j) \/ Sync(j)
    \/ UpsertFiling(j) \/ InsertVersion(j) \/ InsertConflict(j) \/ Commit(j)
    \/ NormalizeNothing(j) \/ Normalize(j) \/ Process(j)
    \/ UpdatePayload(j) \/ UpdateNothing(j)
    \/ ReadPayload(j) \/ ReplaceFacts(j)

Next == \E j \in Jobs : Step(j) \/ Fail(j) \/ Call(j)

Spec == Init /\ [][Next]_vars

-----------------------------------------------------------------------------
(* Safety.                                                                 *)

\* Concurrent transactions never store two versions with the same company, type,
\* date and version_sequence.
UniqueVersions ==
    \A r, q \in versions :
        r.type = q.type /\ r.date = q.date /\ r.seq = q.seq => r = q

\* A filing and its versions appear together: sec.filings never names a filing
\* whose versions were lost to a conflict, and no version lacks its filing.
FilingsWithVersions == filings = {r.filing : r \in versions}

\* A call that returned normally has stored, for good, what it was asked to: an
\* ingest the requested versions of its filing, a sync every filing EDGAR listed.
OkMeansStored ==
    \A j \in Jobs : outcome[j] = "ok" =>
        /\ Kind(j) = "ingest" =>
             \A i \in 1..Len(req[j].types) : \E r \in versions :
                 r.filing = req[j].filing /\ r.type = req[j].types[i] /\ r.seq = i
        /\ Kind(j) = "sync" => ToSet(req[j].filings) \subseteq filings

\* The tables and what was said about them fit together: no key is stored twice, a
\* filing is there exactly when versions of it are, and what a call that returned
\* normally was asked to store is in them, with the filings of a batch that came
\* to grief halfway gone.  (ingest_edgar_filing, sync_recent_filings)
TablesStayTrue == UniqueVersions /\ FilingsWithVersions /\ OkMeansStored

\* The stored facts are those of a payload that a version of their identity holds,
\* although the row is looked up twice and another version of the identity may come
\* in between; unless update_normalized_payload has replaced that payload since the
\* persist read it, before or after the facts were stored.  A persist that reads
\* after the last update puts it right.
FactsFromIdentity ==
    \A r \in versions : r.facts # None /\ Key(r) \notin stale =>
        \E q \in versions : SameIdentity(r, q) /\ q.payload = r.facts

\* The version r lives on as q, and its payload and its facts are not withdrawn.
Continues(q, r) ==
    /\ <<q.type, q.date, q.seq, q.filing>> = <<r.type, r.date, r.seq, r.filing>>
    /\ r.payload # None => q.payload # None
    /\ r.facts # None => q.facts # None

\* "Repositories preserve historical versions, never overwriting": a committed
\* version stays, with its filing, and keeps its payload and its facts but for two
\* writes of its own: update_normalized_payload, called for that filing, type and
\* sequence, refreshes the payload with the one supplied, and a persist of its
\* identity replaces the facts.
HistoryPreserved ==
    [][\A r \in versions : \E q \in versions' :
          /\ Continues(q, r)
          /\ q.payload # r.payload /\ r.payload # None =>
               \E j \in Jobs :
                   /\ pc[j] = "start" /\ Kind(j) = "update"
                   /\ <<req[j].filing, req[j].type, req[j].seq>> = <<r.filing, r.type, r.seq>>
                   /\ q.payload = req[j].payload
          /\ q.facts # r.facts =>
               \E j \in Jobs :
                   /\ pc[j] = "replacing"
                   /\ <<req[j].type, req[j].year, req[j].seq>> = <<r.type, YearOf[r.date], r.seq>>
                   /\ q.facts = chosen[j]]_vars

Waiting(j) ==
    \/ toUpsert[j] # <<>> /\ \E k \in Jobs \ {j} : Head(toUpsert[j]) \in held[k]
    \/ Inserting(j) /\ MustWait(j)

writers == {j \in Jobs : pc[j] = "writing"}

DateOrders == {day \in [Dates -> 1..Cardinality(Dates)] :
                 \A d, e \in Dates : day[d] = day[e] => d = e}

\* The job's request takes statement dates downwards in that order.
Follows(j, day) ==
    Kind(j) = "sync" =>
        \A x, y \in DOMAIN req[j].filings :
            x < y => day[DateOf[req[j].filings[x]]] >= day[DateOf[req[j].filings[y]]]

\* Transactions wait for each other's rows in a circle only when the syncs under way
\* have no common order of statement dates: a batch takes filings in the order of
\* fetch_filings_for_company, in which a late amendment of an older period puts its
\* date first.  Filings alone, ingests, normalizations and the positions of the types
\* never close a circle.  (When one closes, the database ends a transaction: Fail.)
NoWaitCycle ==
    (writers # {} /\ \E day \in DateOrders : \A j \in writers : Follows(j, day))
      => \E j \in writers : ~Waiting(j)

-----------------------------------------------------------------------------
(* What the documentation says and the code does not do.                   *)

\* normalize_xbrl_statement "update[s] the statement version in place": storing
\* the payload cannot conflict with the row it is for.
NormalizesInPlace ==
    \A j \in Jobs : outcome[j] = "conflict" => Kind(j) # "normalize"

\* "Ingestion is idempotent": repeating an ingest whose versions are all stored
\* is not refused.
IngestIdempotent ==
    \A j \in Jobs :
        (outcome[j] = "conflict" /\ Kind(j) = "ingest") =>
            \E i \in 1..Len(req[j].types) : ~\E r \in versions :
                r.filing = req[j].filing /\ r.type = req[j].types[i] /\ r.seq = i
=============================================================================
