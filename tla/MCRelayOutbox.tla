--------------------------- MODULE MCRelayOutbox ---------------------------
(* Instances of RelayOutbox small enough for TLC. *)
EXTENDS RelayOutbox

CONSTANTS alice, bob, r1, r2, m1, m2

ToOwner == [m \in Message |-> {IF m = m1 THEN alice ELSE bob}]
OneOwner == [m \in Message |-> alice]
TwoOwners == [m \in Message |-> IF m = m1 THEN alice ELSE bob]
ToBoth == [m \in Message |-> {alice, bob}]
=============================================================================
