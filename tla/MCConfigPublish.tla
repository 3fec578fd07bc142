--------------------------- MODULE MCConfigPublish ---------------------------
(* Instances of ConfigPublish small enough for TLC. *)
EXTENDS ConfigPublish, TLC

CONSTANTS routing, inbox, muted, r1, r2, r3

(* Relays are told apart by what they acknowledge only. *)
RelaySymmetry == Permutations(Relay)

(* One coordinate is used in a behaviour; the private list alone sees two  *)
(* events of the session, the network or the process, with a single edit.  *)
Used(s) ==
  \/ cached[s] # NoEvent \/ pending[s] # NoRow \/ content[s] # Nothing
  \/ edit[s] # NoEdit \/ job[s] # NoJobHere \/ reconcile[s] # NoEvent
  \/ list[s].revision # 0 \/ \E e \in Event : made[s][e] # Unsigned
OneSlot ==
  LET used == {s \in Slot : Used(s)} IN
  /\ Cardinality(used) <= 1
  /\ events = MaxEvents => used \subseteq Private /\ edits < MaxEdits
=============================================================================
