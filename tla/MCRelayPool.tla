----------------------------- MODULE MCRelayPool -----------------------------
(* Instances of RelayPool small enough for TLC. *)
EXTENDS RelayPool

CONSTANTS a, b, s, q1, q2

Relays == [l \in {s, q1, q2} |-> IF l = s THEN {a, b} ELSE {a}]
=============================================================================
