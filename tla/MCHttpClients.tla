---------------------------- MODULE MCHttpClients ----------------------------
(* Two calls, one retry each, listings of two pages, excerpts of one, documents
   with two candidate URLs; the breaker opens on the second failure.         *)
EXTENDS HttpClients

MCCalls == {"c1", "c2"}
=============================================================================
