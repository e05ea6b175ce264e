-------------------------- MODULE MCStatementTables --------------------------
(* Writers of the statement tables, one part at a time.

   Tables: the filings, jobs and requests of MCStatementPipeline.

   Alignment: three calls of upsert_alignments about three versions, of which two
   share an identity; batches of the same two in either order, and one whose
   records are taken for one version.                                *)
EXTENDS MCStatementPipeline, StatementTables

VARIABLE part

Version(seq, date) == [key |-> 1, seq |-> seq, date |-> date]

MCVersions == {Version(1, 1), Version(1, 2), Version(2, 1)}
MCBatches  == {<<Version(1, 1), Version(2, 1)>>, <<Version(2, 1), Version(1, 1)>>,
               <<Version(1, 1), Version(1, 2)>>}

alignment == <<stored, aligned, pending, at, commits, batch, target, next, absent>>

Tables == part = "tables" /\ UNCHANGED <<part, alignment>>
Aligns == part = "alignment" /\ UNCHANGED <<part, vars>>

\* The part that is not explored stays in one of its initial states.
PartsInit ==
    /\ part \in {"tables", "alignment"}
    /\ Init
    /\ AL!Init
    /\ part # "alignment" => stored = {} /\ \A c \in Calls : commits[c]

PartsNext ==
    \/ Aligns /\ AL!FileVersion
    \/ \E j \in Jobs :
         \/ Tables /\ Call(j)
         \/ Tables /\ Ingest(j)
         \/ Tables /\ SyncNothingNew(j)
         \/ Tables /\ Sync(j)
         \/ Tables /\ UpsertFiling(j)
         \/ Tables /\ InsertVersion(j)
         \/ Tables /\ InsertConflict(j)
         \/ Tables /\ Commit(j)
         \/ Tables /\ NormalizeNothing(j)
         \/ Tables /\ Normalize(j)
         \/ Tables /\ Process(j)
         \/ Tables /\ UpdatePayload(j)
         \/ Tables /\ UpdateNothing(j)
         \/ Tables /\ ReadPayload(j)
         \/ Tables /\ ReplaceFacts(j)
         \/ Tables /\ Fail(j)
    \/ \E c \in Calls :
         \/ Aligns /\ AL!LookUp(c)
         \/ Aligns /\ AL!NotFound(c)
         \/ Aligns /\ AL!Update(c)
         \/ Aligns /\ AL!NothingUpdated(c)
         \/ Aligns /\ AL!Insert(c)
         \/ Aligns /\ AL!Conflict(c)
         \/ Aligns /\ AL!Fail(c)
         \/ Aligns /\ AL!Commit(c)
         \/ Aligns /\ AL!ExitUseCase(c)

PartsSpec == PartsInit /\ [][PartsNext]_<<part, vars, alignment>>
=============================================================================
