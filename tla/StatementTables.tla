---------------------------- MODULE StatementTables ----------------------------
(***************************************************************************)
(* The writers of the statement tables: the statement pipeline, and the    *)
(* alignments of its versions, which no route writes and no transaction of *)
(* the pipeline touches.  Statement versions the alignments look up are    *)
(* not those of the pipeline's bounded instance.                           *)
(***************************************************************************)
EXTENDS StatementPipeline

\* Of the alignments; see StatementAlignment.
CONSTANTS Versions, Batches, Calls
VARIABLES stored, aligned, pending, at, commits, batch, target, next, absent

AL == INSTANCE StatementAlignment WITH rows <- aligned, pc <- at

ASSUME Alignment == AL!AlignmentAssumption

\* Batches of alignments are stored whole, one after the other.  (upsert_alignments;
\* stated in StatementAlignment)
BatchesStayWhole == AL!BatchesStayWhole
=============================================================================
