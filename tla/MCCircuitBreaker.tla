---------------------------- MODULE MCCircuitBreaker ----------------------------
(***************************************************************************)
(* Small instances of CircuitBreaker.                                      *)
(***************************************************************************)
EXTENDS CircuitBreaker, TLC

CONSTANTS c1, c2, c3

Callers == {c1, c2, c3}

\* The callers are interchangeable.
Symmetry == Permutations(Callers)

=============================================================================
