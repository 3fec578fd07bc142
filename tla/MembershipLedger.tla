-------------------------- MODULE MembershipLedger --------------------------
(***************************************************************************)
(* What the members of a group are, with no quarantine, tail cursor or     *)
(* incremental path: a set of known actions, and the members their replay  *)
(* in order gives, whatever the order they became known in.  Only an       *)
(* action that has never had an effect may be forgotten.                   *)
(***************************************************************************)
EXTENDS GroupMembership

CONSTANTS Histories   \* what may have been said in the group

VARIABLES
  log,        \* the rumors of the group, by position
  baseline,   \* the initial members, {} while the group is unknown
  cursor,     \* the position of the rumor that established them
  known,      \* positions of the known membership actions
  applied,    \* those that had an effect at some time
  members

vars == <<log, baseline, cursor, known, applied, members>>

Init ==
  /\ log \in Histories
  /\ baseline = {} /\ cursor = 0
  /\ known = {} /\ applied = {} /\ members = {}

(* The group becomes known. *)
Establish ==
  /\ baseline = {} /\ baseline' # {}
  /\ cursor' \in Position

(* The members and the actions that ever had an effect follow from what is *)
(* known, of which nothing that had an effect is forgotten.                *)
Revise ==
  /\ applied \subseteq known'
  /\ IF baseline' = {} THEN UNCHANGED <<applied, members>>
     ELSE /\ members' = ReplayedMembers(log, baseline', cursor', known')
          /\ applied' = applied
                 \union AppliedActions(log, baseline', cursor', known')

Next ==
  /\ Establish \/ UNCHANGED <<baseline, cursor>>
  /\ Revise
  /\ UNCHANGED log

Spec == Init /\ [][Next]_vars
=============================================================================
