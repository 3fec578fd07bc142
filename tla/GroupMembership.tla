-------------------------- MODULE GroupMembership --------------------------
(***************************************************************************)
(* Replay of membership actions (group/group-membership.ts).  The rumors   *)
(* of a group are numbered in the order of their keys (orderAt, then id),  *)
(* oldest first, so the number of a rumor is its place in every replay.    *)
(***************************************************************************)
EXTENDS Integers, FiniteSets

CONSTANTS
  Last      \* bound: rumors are numbered 1..Last

ASSUME LastIsPositive == Last \in Nat \ {0}

Position == 1..Last

(* The largest of a set of positions, 0 for none. *)
Newest(S) == IF S = {} THEN 0 ELSE CHOOSE n \in S : \A m \in S : m <= n

(* An authorized action adds or deletes its target. *)
Effect(action, members) ==
  IF action.kind = "invite" THEN members \union {action.target}
                            ELSE members \ {action.target}

(***************************************************************************)
(* The members after each position, when actions (a set of positions of    *)
(* the log) newer than the cursor are replayed from the baseline.          *)
(***************************************************************************)
Rosters(log, baseline, cursor, actions) ==
  LET after[n \in 0..Last] ==
        IF n = 0 THEN baseline
        ELSE LET members == after[n - 1] IN
             IF n \in actions /\ n > cursor /\ log[n].author \in members
             THEN Effect(log[n], members) ELSE members
  IN  after

ReplayedMembers(log, baseline, cursor, actions) ==
  Rosters(log, baseline, cursor, actions)[Last]

(* The actions whose author is a member at their own place. *)
AppliedActions(log, baseline, cursor, actions) ==
  LET after == Rosters(log, baseline, cursor, actions)
  IN  {n \in actions : n > cursor /\ log[n].author \in after[n - 1]}

(* The newest action seen, applied or not. *)
ReplayTail(cursor, actions) == Newest({n \in actions : n > cursor})
=============================================================================
