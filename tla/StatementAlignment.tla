--------------------------- MODULE StatementAlignment ---------------------------
(***************************************************************************)
(* SqlAlchemyEdgarStatementAlignmentRepository over                        *)
(* sec.edgar_statement_alignment, which has one row per statement version, *)
(* and PersistStatementAlignmentUseCase, which leaves its unit of work     *)
(* without a commit.                                                       *)
(*                                                                         *)
(* upsert_alignments finds the version of every record by its identity,    *)
(* which has no date, and then updates the row of each in turn, and        *)
(* inserts one where none was updated.  Calls run side by side (READ       *)
(* COMMITTED): an update waits for whoever wrote the row and does not see  *)
(* a row inserted and not committed; an insert waits for an insert of the  *)
(* same version, and fails on the unique constraint if that is committed.  *)
(* A wait cycle is ended by the database.                                  *)
(*                                                                         *)
(* Of a record its version and its date are kept.  A version is stored     *)
(* with its company only, so that a company not found is a version not     *)
(* found.                                                                  *)
(***************************************************************************)
EXTENDS FiniteSetsExt, SequencesExt

CONSTANTS
    Versions,  \* sec.statement_versions: [key, seq, date]; key is type, year and period
    Batches,   \* bound: the batches upserted, sequences of versions that records are about
    Calls,     \* bound: one for each call of upsert_alignments
    None

AlignmentAssumption ==
    /\ IsFiniteSet(Versions)
    /\ \A v \in Versions : v.key \in Nat /\ v.seq \in Nat /\ v.date \in Nat
    /\ \A v, w \in Versions : v.key = w.key /\ v.seq = w.seq /\ v.date = w.date => v = w
    /\ Batches \subseteq Seq(Versions) \ {<<>>}
    /\ None \notin [by : Calls, about : Versions]

VARIABLES
    stored,   \* committed statement versions
    rows,     \* committed alignments, by version: whose, and the version its record is about
    pending,  \* rows updated or inserted and not committed, one for a version
    pc,       \* by call
    commits,  \* the caller commits by itself; the use case does not
    batch,    \* the records of a call
    target,   \* the version found for each
    next,     \* the record at hand
    absent    \* history: versions without a row when a call looked its versions up

work == <<pc, commits, batch, target, next, absent>>
vars == <<stored, rows, pending, work>>

Init ==
    /\ stored \in SUBSET Versions
    /\ rows = [v \in Versions |-> None]
    /\ pending = [v \in Versions |-> None]
    /\ pc = [c \in Calls |-> "idle"]
    /\ commits \in [Calls -> BOOLEAN]
    /\ batch = [c \in Calls |-> <<>>]
    /\ target = [c \in Calls |-> <<>>]
    /\ next = [c \in Calls |-> 1]
    /\ absent = [c \in Calls |-> {}]

-----------------------------------------------------------------------------
\* create_version and the commit, by an ingest.
FileVersion ==
    /\ \E v \in Versions \ stored : stored' = stored \cup {v}
    /\ UNCHANGED <<rows, pending, work>>

SameIdentity(v, w) == v.key = w.key /\ v.seq = w.seq

\* The versions the batch may be taken for: one row for each identity, any of several.
Targets(records) ==
    {t \in [1..Len(records) -> stored] :
        /\ \A i \in 1..Len(records) : SameIdentity(t[i], records[i])
        /\ \A i, k \in 1..Len(records) : SameIdentity(t[i], t[k]) => t[i] = t[k]}

\* execute, or a caller with a unit of work of its own, and _fetch_statement_versions.
LookUp(c) ==
    /\ pc[c] = "idle"
    /\ \E records \in Batches :
         \E t \in Targets(records) :
            /\ batch' = [batch EXCEPT ![c] = records]
            /\ target' = [target EXCEPT ![c] = t]
    /\ absent' = [absent EXCEPT ![c] = {v \in Versions : rows[v] = None}]
    /\ pc' = [pc EXCEPT ![c] = "update"]
    /\ UNCHANGED <<stored, rows, pending, commits, next>>

\* EdgarIngestionError: nothing has been written.
NotFound(c) ==
    /\ pc[c] = "idle"
    /\ \E records \in Batches : Targets(records) = {}
    /\ pc' = [pc EXCEPT ![c] = "refused"]
    /\ UNCHANGED <<stored, rows, pending, commits, batch, target, next, absent>>

Writing(c) == pc[c] \in {"update", "insert", "upserted"}

At(c) == target[c][next[c]]

Own(c, v) == pending[v] # None /\ pending[v].by = c

HeldByOther(c, v) == pending[v] # None /\ pending[v].by # c

Write(c) ==
    /\ pending' = [pending EXCEPT ![At(c)] = [by |-> c, about |-> batch[c][next[c]]]]
    /\ next' = [next EXCEPT ![c] = @ + 1]
    /\ pc' = [pc EXCEPT ![c] = IF next[c] = Len(batch[c]) THEN "upserted" ELSE "update"]
    /\ UNCHANGED <<stored, rows, commits, batch, target, absent>>

UpdateUnlocked(c) ==  \* mutant: the update does not hold its row until the commit
    /\ pc[c] = "update"
    /\ Own(c, At(c)) \/ rows[At(c)] # None
    /\ Write(c)

\* A committed row, once no other holds it, or its own.
Update(c) ==
    /\ pc[c] = "update"
    /\ Own(c, At(c)) \/ rows[At(c)] # None
    /\ ~HeldByOther(c, At(c))
    /\ Write(c)

\* rowcount 0: no row, or one that is not committed.
NothingUpdated(c) ==
    /\ pc[c] = "update"
    /\ rows[At(c)] = None
    /\ ~Own(c, At(c))
    /\ pc' = [pc EXCEPT ![c] = "insert"]
    /\ UNCHANGED <<stored, rows, pending, commits, batch, target, next, absent>>

Insert(c) ==
    /\ pc[c] = "insert"
    /\ rows[At(c)] = None
    /\ ~HeldByOther(c, At(c))
    /\ Write(c)

Released(c) == [v \in Versions |-> IF Own(c, v) THEN None ELSE pending[v]]

\* Without a commit: the rollback of __aexit__.
Leave(c, how) ==
    /\ pc' = [pc EXCEPT ![c] = how]
    /\ pending' = Released(c)
    /\ UNCHANGED <<stored, rows, commits, batch, target, next, absent>>

\* uq_edgar_statement_alignment_statement_version; the whole batch is rolled back.
Conflict(c) ==
    /\ pc[c] = "insert"
    /\ rows[At(c)] # None
    /\ Leave(c, "conflict")

\* deadlock_detected, or another failure of a statement, or the caller gives up.
Fail(c) ==
    /\ Writing(c)
    /\ Leave(c, "failed")

\* The caller's commit.
Commit(c) ==
    /\ pc[c] = "upserted"
    /\ commits[c]
    /\ rows' = [v \in Versions |-> IF Own(c, v) THEN pending[v] ELSE rows[v]]
    /\ pending' = Released(c)
    /\ pc' = [pc EXCEPT ![c] = "committed"]
    /\ UNCHANGED <<stored, commits, batch, target, next, absent>>

\* PersistStatementAlignmentUseCase.execute: __aexit__ does not commit.
ExitUseCase(c) ==
    /\ pc[c] = "upserted"
    /\ ~commits[c]
    /\ Leave(c, "returned")

Next ==
    \/ FileVersion
    \/ \E c \in Calls :
         \/ LookUp(c) \/ NotFound(c)
         \/ Update(c) \/ NothingUpdated(c) \/ Insert(c) \/ Conflict(c)
         \/ Fail(c) \/ Commit(c) \/ ExitUseCase(c)

Spec == Init /\ [][Next]_vars

-----------------------------------------------------------------------------
(* Queries.                                                                *)

Aligned(key) == {v \in Versions : rows[v] # None /\ v.key = key}

OldestOf(key) ==  \* mutant: in ascending order
    {v \in Aligned(key) : \A w \in Aligned(key) : v.seq <= w.seq}

\* get_alignment_for_statement: the highest version_sequence, whichever the identity
\* names; of several any (by a random id).
LatestOf(key) == {v \in Aligned(key) : \A w \in Aligned(key) : w.seq <= v.seq}

Earlier(v, w) == v.key < w.key \/ (v.key = w.key /\ v.seq < w.seq)

\* list_alignment_timeline_for_company: in any order of equals.
Timelines ==
    LET aligned == {v \in Versions : rows[v] # None}
    IN  {list \in [1..Cardinality(aligned) -> aligned] :
            /\ Range(list) = aligned
            /\ \A i, k \in DOMAIN list : i < k => ~Earlier(list[k], list[i])}

-----------------------------------------------------------------------------
\* Batches are stored whole and one after the other although nothing but the locks of
\* single rows orders them: of two that were committed and wrote the same two versions,
\* one is not the last at the one and the other at the other.  A row is of a caller
\* that committed, never of the use case, and is about its version unless another
\* stored version has the same identity.  A call that found a row for all its versions
\* is not refused by the unique constraint.  And what is answered for a statement is
\* the end of its part of the timeline.  (upsert_alignments, get_alignment_for_statement,
\* list_alignment_timeline_for_company)
BatchesStayWhole ==
    /\ \A c, d \in Calls : c # d /\ pc[c] = "committed" /\ pc[d] = "committed" =>
         \A v, w \in Range(target[c]) \cap Range(target[d]) :
            ~(rows[v].by = c /\ rows[w].by = d)
    /\ \A c \in Calls : pc[c] = "committed" =>
         \A v \in Range(target[c]) : rows[v] # None
    /\ \A v \in Versions : rows[v] # None =>
         /\ pc[rows[v].by] = "committed" /\ commits[rows[v].by]
         /\ rows[v].about = v \/ \E w \in Versions \ {v} : SameIdentity(v, w)
    /\ \A c \in Calls : pc[c] = "conflict" => Range(target[c]) \cap absent[c] # {}
    /\ \A list \in Timelines :
         \A i \in DOMAIN list :
            (i + 1 \notin DOMAIN list \/ list[i].key # list[i + 1].key) =>
                \A v \in LatestOf(list[i].key) : v.seq = list[i].seq
=============================================================================
