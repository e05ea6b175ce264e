------------------------- MODULE MCSingleFlightCache -------------------------
(* Three calls; a load may outlast the lock, the entry and the waiting time.      *)
EXTENDS SingleFlightCache

MCCallers == {"c1", "c2", "c3"}
=============================================================================
