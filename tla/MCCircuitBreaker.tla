-------------------------- MODULE MCCircuitBreaker --------------------------
(* Two overlapping calls through one breaker.                              *)
EXTENDS CircuitBreaker
CONSTANTS g1, g2
TwoCallers == {g1, g2}
=============================================================================
