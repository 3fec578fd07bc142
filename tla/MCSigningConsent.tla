--------------------------- MODULE MCSigningConsent ---------------------------
(* Instances of SigningConsent small enough for TLC. *)
EXTENDS SigningConsent

CONSTANTS s1, s2, d1, d2, d3, k1, k2, q1, q2, q3

Sources == [d \in Doc |-> IF d = d3 THEN s2 ELSE s1]

(* Requests are made in this order, and the first for d1 and k1. *)
Ordered ==
  /\ req[q1].pc = "idle" => req[q2].pc = "idle"
  /\ req[q1].doc = d1 /\ req[q1].key = k1
===============================================================================
