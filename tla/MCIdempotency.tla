---------------------------- MODULE MCIdempotency ----------------------------
(* Three requests: two that race and a retry of one of them, or one for each of
   three records when the key expires twice.                                 *)
EXTENDS Idempotency, TLC

Symmetry == Permutations(Requests) \cup Permutations(Hashes)
=============================================================================
