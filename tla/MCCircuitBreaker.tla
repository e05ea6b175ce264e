-------------------------- MODULE MCCircuitBreaker --------------------------
(* Three concurrent calls, two HALF_OPEN slots and two cancellations: enough
   for late results of every earlier period and for a wedged breaker.        *)
EXTENDS CircuitBreaker

MCCalls == {"c1", "c2", "c3"}
=============================================================================
