---------------------------- MODULE MCNearbyOutbox ----------------------------
(* Instances of NearbyOutbox small enough for TLC. *)
EXTENDS NearbyOutbox

CONSTANTS p1, p2, m1, m2, m3

Conversation == [m \in Message |-> IF m = m3 THEN p2 ELSE p1]

(* Messages are interchangeable: m1 is the first of its peer. *)
Ordered == m2 \in Message => (row[m1] = "none" => row[m2] = "none")

(* At most two of the things that go wrong in a behaviour. *)
TwoTroubles == faults + Cardinality(rejected) + Cardinality(resent) <= 2
===============================================================================
