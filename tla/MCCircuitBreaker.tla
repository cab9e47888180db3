-------------------------- MODULE MCCircuitBreaker --------------------------
(* Three concurrent calls behind one breaker that trips after two failures. *)
EXTENDS CircuitBreaker

CONSTANTS c1, c2, c3

MCCalls == {c1, c2, c3}
=============================================================================
