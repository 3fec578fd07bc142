------------------------- MODULE GroupReceiveProofs -------------------------
(***************************************************************************)
(* Receiving the messages of a group (GroupReceive), for any people, any   *)
(* history, whatever order its messages arrive in and however often, and   *)
(* whoever created the group: the members are the replay of the actions    *)
(* received, in the order of the history and not of their arrival, and     *)
(* the tail, the name and the unread count are those of what is stored.    *)
(*                                                                         *)
(* Receiving keeps the members without replaying: an action newer than the *)
(* tail is applied to the members there are, one without effect waits, and *)
(* the oldest of those that wait are evicted.  That this is the replay     *)
(* rests on three facts about it: actions without effect may be forgotten  *)
(* or learnt (IneffectiveActions), one beyond all the others is applied to *)
(* their result (NewestAction), and those an action finds before it are    *)
(* all that decide whether it has an effect (MembersBefore).  They are     *)
(* shown along the history, by the least position where they would fail.   *)
(***************************************************************************)
EXTENDS GroupReceive, WellFoundedInduction, FiniteSetTheorems, TLAPS

-----------------------------------------------------------------------------
(* Numbers, and the replay as a function of the history.                   *)

(* A set of numbers has a least one. *)
LEMMA LeastNatural ==
    ASSUME NEW S \in SUBSET Nat, S # {}
    PROVE  \E n \in S : \A m \in S : n <= m
<1> DEFINE R == OpToRel(<, Nat)
<1>1. IsWellFoundedOn(R, Nat)
  BY NatLessThanWellFounded
<1>2. \A m, n \in Nat : m < n => <<m, n>> \in R
  BY DEF OpToRel
<1> HIDE DEF R
<1>3. PICK n \in S : \A m \in S : ~ (<<m, n>> \in R)
  BY <1>1, WFMin
<1>4. ASSUME NEW m \in S PROVE n <= m
  <2>1. m \in Nat /\ n \in Nat /\ ~ (m < n)
    BY <1>2, <1>3
  <2> QED
    BY <2>1
<1> QED
  BY <1>4

(* What holds at the start, and after a position if before it, holds at all. *)
LEMMA Induction ==
    ASSUME NEW S, 0 \in S, \A n \in 1..Last : n - 1 \in S => n \in S
    PROVE  \A n \in 0..Last : n \in S
<1> SUFFICES ASSUME NEW k \in 0..Last, k \notin S PROVE FALSE
  OBVIOUS
<1> DEFINE T == {n \in 0..Last : n \notin S}
<1>1. T \in SUBSET Nat /\ T # {}
  BY LastIsPositive
<1>2. PICK n \in T : \A m \in T : n <= m
  BY <1>1, LeastNatural
<1>3. n \in 1..Last /\ n \notin S
  BY <1>2, LastIsPositive
<1>4. n - 1 \in 0..Last /\ n - 1 < n
  BY <1>3, LastIsPositive
<1>5. n - 1 \in S
  BY <1>2, <1>4, LastIsPositive
<1> QED
  BY <1>3, <1>5

(* Newest returns the greatest of a set of positions, or 0. *)
LEMMA NewestIsMaximal ==
    ASSUME NEW S \in SUBSET (0..Last)
    PROVE  /\ Newest(S) \in 0..Last
           /\ \A m \in S : m <= Newest(S)
           /\ S = {} => Newest(S) = 0
           /\ S # {} => Newest(S) \in S
<1>1. CASE S = {}
  BY <1>1, LastIsPositive DEF Newest
<1>2. CASE S # {}
  <2> DEFINE T == {n \in Nat : \A m \in S : m <= n}
  <2>1. T \in SUBSET Nat /\ T # {}
    <3>1. Last \in T
      BY LastIsPositive
    <3> QED
      BY <3>1
  <2>2. PICK n \in T : \A m \in T : n <= m
    BY <2>1, LeastNatural
  <2>3. n \in S
    <3> SUFFICES ASSUME n \notin S PROVE FALSE
      OBVIOUS
    <3>1. n \in Nat /\ \A m \in S : m \in Nat /\ m <= n /\ m # n
      BY <2>2, LastIsPositive
    <3>2. ASSUME NEW m \in S PROVE n - 1 \in Nat /\ m <= n - 1
      <4>1. n \in Nat /\ m \in Nat /\ m <= n /\ m # n
        BY <3>1
      <4> QED
        BY <4>1
    <3>3. n - 1 \in T
      BY <1>2, <3>2
    <3> QED
      BY <2>2, <3>1, <3>3
  <2>4. \E x \in S : \A m \in S : m <= x
    BY <2>2, <2>3
  <2> QED
    BY <1>2, <2>4, LastIsPositive DEF Newest
<1> QED
  BY <1>1, <1>2

-----------------------------------------------------------------------------
NextRoster(log, cursor, actions, n, members) ==
    IF n \in actions /\ n > cursor /\ log[n].author \in members
    THEN Effect(log[n], members) ELSE members

RosterFunction(log, baseline, cursor, actions, k, f) ==
    f = [n \in 0..k |-> IF n = 0 THEN baseline
                        ELSE NextRoster(log, cursor, actions, n, f[n - 1])]

(* A replay can be continued from any position to the next. *)
LEMMA RosterExists ==
    ASSUME NEW log, NEW baseline, NEW cursor, NEW actions
    PROVE  \E f : RosterFunction(log, baseline, cursor, actions, Last, f)
<1> DEFINE G(k, f) == RosterFunction(log, baseline, cursor, actions, k, f)
           S == {k \in 0..Last : \E f : G(k, f)}
<1>1. 0 \in S
  <2>1. G(0, [n \in 0..0 |-> baseline])
    BY DEF RosterFunction
  <2> QED
    BY <2>1, LastIsPositive
<1>2. ASSUME NEW n \in 1..Last, n - 1 \in S PROVE n \in S
  <2>1. PICK f : G(n - 1, f)
    BY <1>2
  <2> DEFINE h == [m \in 0..n |-> IF m = n THEN NextRoster(log, cursor, actions, n, f[n - 1])
                                  ELSE f[m]]
  <2>2. ASSUME NEW m \in 0..n
        PROVE  h[m] = IF m = 0 THEN baseline
                      ELSE NextRoster(log, cursor, actions, m, h[m - 1])
    <3>0. n \in Nat /\ m \in Nat /\ n # 0
      BY <1>2, <2>2, LastIsPositive
    <3>1. CASE m = n
      BY <3>0, <3>1
    <3>2. CASE m # n
      <4>1. m \in 0..(n - 1) /\ (m # 0 => m - 1 \in 0..n /\ m - 1 # n)
        BY <3>0, <3>2
      <4>2. f[m] = IF m = 0 THEN baseline
                   ELSE NextRoster(log, cursor, actions, m, f[m - 1])
        BY <2>1, <4>1 DEF RosterFunction
      <4> QED
        BY <3>2, <4>1, <4>2
    <3> QED
      BY <3>1, <3>2
  <2>3. G(n, h)
    BY <2>2, Zenon DEF RosterFunction
  <2> QED
    BY <2>3, LastIsPositive
<1> HIDE DEF S
<1>3. Last \in S
  BY <1>1, <1>2, Induction, LastIsPositive
<1> QED
  BY <1>3 DEF S

(* The recursive definition of Rosters has a solution, so it is one. *)
LEMMA RosterDefined ==
    ASSUME NEW log, NEW baseline, NEW cursor, NEW actions
    PROVE  RosterFunction(log, baseline, cursor, actions, Last,
                          Rosters(log, baseline, cursor, actions))
<1>1. Rosters(log, baseline, cursor, actions)
        = CHOOSE f : RosterFunction(log, baseline, cursor, actions, Last, f)
  BY DEF Rosters, RosterFunction, NextRoster
<1> QED
  BY <1>1, RosterExists

(* The roster after each position follows from the one before it. *)
LEMMA RosterSteps ==
    ASSUME NEW log, NEW baseline, NEW cursor, NEW actions
    PROVE  LET R == Rosters(log, baseline, cursor, actions) IN
           /\ R[0] = baseline
           /\ \A n \in 1..Last : R[n] = NextRoster(log, cursor, actions, n, R[n - 1])
<1> DEFINE R == Rosters(log, baseline, cursor, actions)
<1>1. RosterFunction(log, baseline, cursor, actions, Last, R)
  BY RosterDefined
<1> HIDE DEF R
<1>2. \A n \in 1..Last : n \in 0..Last /\ n # 0
  BY LastIsPositive
<1>3. R[0] = baseline
  BY <1>1, LastIsPositive DEF RosterFunction
<1>4. \A n \in 1..Last : R[n] = NextRoster(log, cursor, actions, n, R[n - 1])
  BY <1>1, <1>2 DEF RosterFunction
<1> QED
  BY <1>3, <1>4 DEF R

(* What is forgotten or learnt of actions without effect changes nothing.  *)
LEMMA IneffectiveActions ==
    ASSUME NEW log, NEW baseline, NEW cursor,
           NEW old \in SUBSET Position, NEW new \in SUBSET Position,
           \A n \in (old \ new) \union (new \ old) : n > cursor =>
               log[n].author \notin Rosters(log, baseline, cursor, old)[n - 1]
    PROVE  /\ ReplayedMembers(log, baseline, cursor, new)
                = ReplayedMembers(log, baseline, cursor, old)
           /\ AppliedActions(log, baseline, cursor, new)
                = AppliedActions(log, baseline, cursor, old)
<1> DEFINE R == Rosters(log, baseline, cursor, old)
           Q == Rosters(log, baseline, cursor, new)
           S == {n \in 0..Last : Q[n] = R[n]}
<1>1. /\ R[0] = baseline /\ Q[0] = baseline
      /\ \A n \in 1..Last : R[n] = NextRoster(log, cursor, old, n, R[n - 1])
      /\ \A n \in 1..Last : Q[n] = NextRoster(log, cursor, new, n, Q[n - 1])
  BY RosterSteps
<1>5. \A n \in (old \ new) \union (new \ old) : n > cursor => log[n].author \notin R[n - 1]
  OBVIOUS
<1> HIDE DEF R, Q
<1>2. 0 \in S
  BY <1>1, LastIsPositive
<1>3. ASSUME NEW n \in 1..Last, n - 1 \in S PROVE n \in S
  <2>1. n \in 0..Last /\ Q[n - 1] = R[n - 1]
    BY <1>3, LastIsPositive
  <2>2. NextRoster(log, cursor, new, n, R[n - 1]) = NextRoster(log, cursor, old, n, R[n - 1])
    BY <1>5 DEF NextRoster, Position
  <2> QED
    BY <1>1, <2>1, <2>2
<1> HIDE DEF S
<1>4. \A n \in 0..Last : n \in S
  BY <1>2, <1>3, Induction, LastIsPositive
<1>6. \A n \in 0..Last : Q[n] = R[n]
  BY <1>4 DEF S
<1>7. Q[Last] = R[Last] /\ \A n \in Position : Q[n - 1] = R[n - 1]
  BY <1>6, LastIsPositive DEF Position
<1>8. {n \in new : n > cursor /\ log[n].author \in Q[n - 1]}
        = {n \in old : n > cursor /\ log[n].author \in R[n - 1]}
  BY <1>5, <1>7
<1> QED
  BY <1>7, <1>8 DEF ReplayedMembers, AppliedActions, R, Q

(* Past the last action of those replayed the roster stays as it is. *)
LEMMA RosterAfter ==
    ASSUME NEW log, NEW baseline, NEW cursor, NEW k \in 0..Last,
           NEW actions \in SUBSET (0..k)
    PROVE  \A n \in 0..Last : n >= k =>
               Rosters(log, baseline, cursor, actions)[n]
                 = Rosters(log, baseline, cursor, actions)[k]
<1> DEFINE R == Rosters(log, baseline, cursor, actions)
           S == {n \in 0..Last : n >= k => R[n] = R[k]}
<1>1. \A n \in 1..Last : R[n] = NextRoster(log, cursor, actions, n, R[n - 1])
  BY RosterSteps
<1> HIDE DEF R
<1>2. 0 \in S
  BY LastIsPositive
<1>3. ASSUME NEW n \in 1..Last, n - 1 \in S PROVE n \in S
  <2>1. n \in 0..Last /\ n - 1 \in 0..Last /\ (n - 1 >= k => R[n - 1] = R[k])
    BY <1>3, LastIsPositive
  <2>2. CASE n > k
    <3>1. n \notin actions /\ n - 1 >= k
      BY <2>2, LastIsPositive
    <3>2. R[n] = R[n - 1]
      BY <1>1, <3>1 DEF NextRoster
    <3> QED
      BY <2>1, <3>1, <3>2
  <2>3. CASE n <= k
    BY <2>1, <2>3
  <2> QED
    BY <2>1, <2>2, <2>3
<1> HIDE DEF S
<1>4. \A n \in 0..Last : n \in S
  BY <1>2, <1>3, Induction
<1> QED
  BY <1>4 DEF S, R

(* The newest action of a member takes effect on the members at the end.   *)
LEMMA NewestAction ==
    ASSUME NEW log, NEW baseline, NEW cursor, NEW actions \in SUBSET Position, NEW n \in Position,
           n > cursor, \A m \in actions : m < n,
           log[n].author \in ReplayedMembers(log, baseline, cursor, actions)
    PROVE  /\ ReplayedMembers(log, baseline, cursor, actions \union {n})
                = Effect(log[n], ReplayedMembers(log, baseline, cursor, actions))
           /\ AppliedActions(log, baseline, cursor, actions \union {n})
                = AppliedActions(log, baseline, cursor, actions) \union {n}
<1> DEFINE new == actions \union {n}
           R == Rosters(log, baseline, cursor, actions)
           Q == Rosters(log, baseline, cursor, new)
           S == {k \in 0..Last : k < n => Q[k] = R[k]}
<1>0. n \in 1..Last /\ n - 1 \in 0..Last /\ n \in 0..Last /\ Last >= n /\ Last \in 0..Last
  BY LastIsPositive DEF Position
<1>1. /\ R[0] = baseline /\ Q[0] = baseline
      /\ \A k \in 1..Last : R[k] = NextRoster(log, cursor, actions, k, R[k - 1])
      /\ \A k \in 1..Last : Q[k] = NextRoster(log, cursor, new, k, Q[k - 1])
  BY RosterSteps
<1>2. actions \in SUBSET (0..(n - 1))
  BY <1>0 DEF Position
<1>3. new \in SUBSET (0..n)
  BY <1>0 DEF Position
<1>4. R[Last] = R[n - 1]
  <2>1. \A k \in 0..Last : k >= n - 1 => R[k] = R[n - 1]
    BY <1>0, <1>2, RosterAfter
  <2> QED
    BY <1>0, <2>1, LastIsPositive
<1>5. Q[Last] = Q[n]
  <2>1. \A k \in 0..Last : k >= n => Q[k] = Q[n]
    BY <1>0, <1>3, RosterAfter
  <2> QED
    BY <1>0, <2>1, LastIsPositive
<1>6. log[n].author \in R[Last]
  BY DEF ReplayedMembers
<1> HIDE DEF R, Q
<1>7. 0 \in S
  BY <1>1, LastIsPositive
<1>8. ASSUME NEW k \in 1..Last, k - 1 \in S PROVE k \in S
  <2>1. k \in 0..Last /\ (k < n => Q[k - 1] = R[k - 1] /\ k # n)
    BY <1>0, <1>8, LastIsPositive
  <2>2. k # n => NextRoster(log, cursor, new, k, R[k - 1])
                   = NextRoster(log, cursor, actions, k, R[k - 1])
    BY DEF NextRoster
  <2> QED
    BY <1>1, <2>1, <2>2
<1> HIDE DEF S
<1>9. \A k \in 0..Last : k \in S
  BY <1>7, <1>8, Induction
<1>10. \A k \in 0..Last : k < n => Q[k] = R[k]
  BY <1>9 DEF S
<1>11. Q[n - 1] = R[Last]
  BY <1>0, <1>4, <1>10
<1>12. Q[Last] = Effect(log[n], R[Last])
  <2>1. Q[n] = NextRoster(log, cursor, new, n, R[Last])
    BY <1>0, <1>1, <1>11
  <2> QED
    BY <1>5, <1>6, <2>1 DEF NextRoster
<1>13. {k \in new : k > cursor /\ log[k].author \in Q[k - 1]}
         = {k \in actions : k > cursor /\ log[k].author \in R[k - 1]} \union {n}
  <2>1. \A k \in actions : Q[k - 1] = R[k - 1] /\ k # n
    BY <1>0, <1>10 DEF Position
  <2> QED
    BY <1>6, <1>11, <2>1
<1> QED
  BY <1>12, <1>13 DEF ReplayedMembers, AppliedActions, R, Q

(* Without actions the roster is the baseline. *)
LEMMA NoActions ==
    ASSUME NEW log, NEW baseline, NEW cursor
    PROVE  ReplayedMembers(log, baseline, cursor, {}) = baseline
<1>1. \A n \in 0..Last : n >= 0 =>
          Rosters(log, baseline, cursor, {})[n] = Rosters(log, baseline, cursor, {})[0]
  BY RosterAfter, LastIsPositive
<1>2. Rosters(log, baseline, cursor, {})[0] = baseline
  BY RosterSteps
<1> QED
  BY <1>1, <1>2, LastIsPositive DEF ReplayedMembers

(* Before the newest action the members are those of the end.              *)
LEMMA MembersBefore ==
    ASSUME NEW log, NEW baseline, NEW cursor, NEW actions \in SUBSET Position,
           NEW n \in Position, \A m \in actions : m < n
    PROVE  Rosters(log, baseline, cursor, actions)[n - 1]
             = ReplayedMembers(log, baseline, cursor, actions)
<1>1. n - 1 \in 0..Last /\ Last \in 0..Last /\ Last >= n - 1
  BY LastIsPositive DEF Position
<1>2. actions \in SUBSET (0..(n - 1))
  BY <1>1 DEF Position
<1>3. \A k \in 0..Last : k >= n - 1 => Rosters(log, baseline, cursor, actions)[k]
                                      = Rosters(log, baseline, cursor, actions)[n - 1]
  BY <1>1, <1>2, RosterAfter
<1> QED
  BY <1>1, <1>3 DEF ReplayedMembers

(* A replay yields people. *)
LEMMA RosterType ==
    ASSUME NEW log \in [Position -> [kind: {"content", "reaction", "invite", "remove", "rename"},
                                     author: Person, target: Person, audience: SUBSET Person]],
           NEW baseline \in SUBSET Person, NEW cursor, NEW actions
    PROVE  ReplayedMembers(log, baseline, cursor, actions) \in SUBSET Person
<1> DEFINE R == Rosters(log, baseline, cursor, actions)
           S == {n \in 0..Last : R[n] \in SUBSET Person}
<1>1. /\ R[0] = baseline
      /\ \A n \in 1..Last : R[n] = NextRoster(log, cursor, actions, n, R[n - 1])
  BY RosterSteps
<1> HIDE DEF R
<1>2. 0 \in S
  BY <1>1, LastIsPositive
<1>3. ASSUME NEW n \in 1..Last, n - 1 \in S PROVE n \in S
  <2>1. n \in 0..Last /\ n \in Position /\ R[n - 1] \in SUBSET Person
    BY <1>3, LastIsPositive DEF Position
  <2>2. log[n].target \in Person
    BY <2>1
  <2>3. NextRoster(log, cursor, actions, n, R[n - 1]) \in SUBSET Person
    BY <2>1, <2>2 DEF NextRoster, Effect
  <2> QED
    BY <1>1, <2>1, <2>3
<1> HIDE DEF S
<1>4. \A n \in 0..Last : n \in S
  BY <1>2, <1>3, Induction
<1> QED
  BY <1>4, LastIsPositive DEF S, R, ReplayedMembers

(* The newest of a set is found from the newest of a part of it.           *)
LEMMA NewestOfParts ==
    ASSUME NEW S \in SUBSET (0..Last), NEW T \in SUBSET (0..Last)
    PROVE  Newest({Newest(S)} \union T) = Newest(S \union T)
<1> DEFINE s == Newest(S)
           a == Newest({s} \union T)
           b == Newest(S \union T)
<1>1. s \in 0..Last /\ (\A m \in S : m <= s) /\ (S # {} => s \in S) /\ (S = {} => s = 0)
  BY NewestIsMaximal
<1> HIDE DEF s
<1>2. {s} \union T \in SUBSET (0..Last) /\ S \union T \in SUBSET (0..Last)
  BY <1>1
<1>3. a \in 0..Last /\ (\A m \in {s} \union T : m <= a) /\ a \in {s} \union T
  BY <1>2, NewestIsMaximal
<1>4. /\ b \in 0..Last /\ \A m \in S \union T : m <= b
      /\ S \union T # {} => b \in S \union T
      /\ S \union T = {} => b = 0
  BY <1>2, NewestIsMaximal
<1> HIDE DEF a, b
<1>5. s <= b
  BY <1>1, <1>4
<1>6. a <= b
  BY <1>3, <1>4, <1>5
<1>7. b <= a
  <2>1. CASE b \in S
    BY <1>1, <1>3, <1>4, <2>1
  <2>2. CASE b \in T
    BY <1>3, <2>2
  <2>3. CASE b = 0
    BY <1>3, <2>3
  <2> QED
    BY <1>4, <2>1, <2>2, <2>3
<1>8. a = b
  BY <1>3, <1>4, <1>6, <1>7
<1> QED
  BY <1>8 DEF a, b, s

(* The unread count is a number. *)
LEMMA CountsAreNatural == ASSUME NEW S \in SUBSET Position PROVE Cardinality(S) \in Nat
<1>1. IsFiniteSet(Position)
  BY FS_Interval, LastIsPositive DEF Position
<1> QED
  BY <1>1, FS_Subset, FS_CardinalityType

-----------------------------------------------------------------------------
(***************************************************************************)
(* The invariant.                                                          *)
(***************************************************************************)
Intake == Network \union {"archive", "local"}

GroupRow == [exists: BOOLEAN, ours: BOOLEAN, boot: 0..Last, members: SUBSET Person,
             tail: 0..Last, name: 0..Last, read: 0..Last, unread: Nat, deleted: 0..Last]

TypeInv ==
    /\ rumor \in Histories /\ group \in GroupRow
    /\ stored \in SUBSET Position /\ formal \in SUBSET Position /\ late \in SUBSET Position
    /\ building \in SUBSET Position
    /\ pending \in [Position -> Intake \union {None}]
    /\ reading \in 0..Last

(* Of a group that is not known there is nothing but what waits for it, and *)
(* nothing waits for one created here.                                      *)
UnknownInv == group.boot = 0 =>
    /\ stored = {} /\ \A n \in building : rumor[n].kind = "content"
    /\ \A n \in Quarantined : ~ CanBootstrap(n)
    /\ group.ours => Quarantined = {}

RowInv == (~ group.exists => group.boot = 0) /\ (group.exists /\ group.boot = 0 => group.ours)

(* What waits is not shown, and once the group is known only actions wait. *)
WaitingInv ==
    /\ formal \subseteq stored /\ late \subseteq stored /\ Quarantined \cap stored = {}
    /\ group.boot # 0 => Quarantined \subseteq Candidates

Known == formal \union Candidates

(* The members are those of the replay, and what has an effect now is kept. *)
ReplayInv == group.boot # 0 =>
    LET base == BootstrapMembers(group.boot) IN
    /\ group.members = ReplayedMembers(rumor, base, group.boot, Known)
    /\ AppliedActions(rumor, base, group.boot, Known) \subseteq formal

TailInv ==
    /\ group.tail # 0 => group.boot # 0 /\ group.tail > group.boot
    /\ TailIsNewest

Named == {m \in stored \ late : HasSubject(m)}
NameInv == group.name = Newest(Named)

GroupInv ==
    TypeInv /\ UnknownInv /\ RowInv /\ WaitingInv /\ ReplayInv /\ TailInv /\ NameInv

(* What a rumor of a history says of people. *)
LEMMA RumorFacts ==
    ASSUME TypeInv, NEW n \in Position
    PROVE  /\ rumor[n].author \in Person /\ rumor[n].target \in Person
           /\ BootstrapMembers(n) \in SUBSET Person /\ BootstrapMembers(n) # {}
           /\ rumor \in [Position -> [kind: {"content", "reaction", "invite", "remove", "rename"},
                                      author: Person, target: Person, audience: SUBSET Person]]
<1>1. rumor \in [Position -> [kind: {"content", "reaction", "invite", "remove", "rename"},
                              author: Person, target: Person, audience: SUBSET Person]]
  BY GroupConstants DEF TypeInv
<1>2. /\ rumor[n].author \in Person /\ rumor[n].target \in Person
      /\ rumor[n].audience \in SUBSET Person
  BY <1>1
<1> QED
  BY <1>1, <1>2 DEF BootstrapMembers

LEMMA GroupInit == Init => GroupInv
<1> SUFFICES ASSUME Init PROVE GroupInv
  OBVIOUS
<1>1. TypeInv
  BY LastIsPositive DEF Init, TypeInv, NoGroup, GroupRow, Intake, None
<1>2. Quarantined = {} /\ Named = {} /\ formal = {}
  BY DEF Init, Quarantined, Named, None
<1>3. NameInv
  BY <1>2, NewestIsMaximal DEF Init, NameInv, NoGroup
<1> QED
  BY <1>1, <1>2, <1>3
     DEF Init, NoGroup, GroupInv, UnknownInv, RowInv, WaitingInv, ReplayInv, TailInv, TailIsNewest,
         Candidates

-----------------------------------------------------------------------------
(* What the helpers of receive() return.                                   *)

SameGroup(g, h) ==
    /\ h.exists = g.exists /\ h.ours = g.ours /\ h.boot = g.boot /\ h.members = g.members
    /\ h.tail = g.tail /\ h.name = g.name

Counted(g, rows) ==
    g.deleted = 0 => g.unread = Unread(rows, g.read)

(* refreshConversation changes only the counters, and counts anew. *)
LEMMA RefreshedShape ==
    ASSUME NEW g \in GroupRow, NEW n \in Position, NEW active, NEW rows \in SUBSET Position
    PROVE  LET h == Refreshed(g, n, active, rows) IN
           h \in GroupRow /\ SameGroup(g, h) /\ Counted(h, rows)
<1>1. CASE g.deleted # 0 /\ n <= g.deleted
  BY <1>1 DEF Refreshed, SameGroup, Counted
<1>2. CASE ~ (g.deleted # 0 /\ n <= g.deleted)
  <2> DEFINE read == IF rumor[n].author = Me \/ active THEN Newest({g.read, n}) ELSE g.read
             count == Unread(rows, read)
  <2>1. read \in 0..Last
    <3>1. {g.read, n} \in SUBSET (0..Last)
      BY LastIsPositive DEF GroupRow, Position
    <3>2. Newest({g.read, n}) \in 0..Last
      BY <3>1, NewestIsMaximal
    <3> QED
      BY <3>2 DEF GroupRow
  <2>2. count \in Nat
    <3>1. Cardinality({m \in rows : Visible(m) /\ m > read}) \in Nat
      BY CountsAreNatural
    <3> QED
      BY <3>1, GroupConstants DEF Unread
  <2>3. Refreshed(g, n, active, rows)
          = [g EXCEPT !.deleted = 0, !.read = read, !.unread = count]
    BY <1>2 DEF Refreshed
  <2> HIDE DEF read, count
  <2> DEFINE h == [g EXCEPT !.deleted = 0, !.read = read, !.unread = count]
  <2>4. h \in GroupRow
    <3>1. 0 \in 0..Last /\ g \in GroupRow
      BY LastIsPositive
    <3> HIDE DEF h
    <3> QED
      BY <2>1, <2>2, <3>1 DEF GroupRow, h
  <2>5. SameGroup(g, h) /\ h.read = read /\ h.unread = count
    BY DEF GroupRow, SameGroup
  <2>6. Counted(h, rows)
    BY <2>5 DEF Counted, count
  <2> HIDE DEF h
  <2> QED
    BY <2>3, <2>4, <2>5, <2>6 DEF h
<1> QED
  BY <1>1, <1>2

(* Quarantining adds one rumor at most; it may evict others. *)
LEMMA QuarantineShape ==
    ASSUME TypeInv, NEW n \in Position, NEW intake \in Intake
    PROVE  /\ QuarantinedWith(n, intake) \in [Position -> Intake \union {None}]
           /\ \A m \in Position : QuarantinedWith(n, intake)[m] # None =>
                  m = n \/ (m \in Quarantined /\ QuarantinedWith(n, intake)[m] = pending[m])
<1> DEFINE rows == Quarantined \union {n}
           Before(m, k) == IF IsAction(m) = IsAction(k) THEN m > k ELSE IsAction(m)
           kept == {k \in rows : Cardinality({m \in rows : Before(m, k)}) < GroupCap}
<1>1. QuarantinedWith(n, intake)
        = [m \in Position |-> IF m \notin kept THEN None ELSE IF m = n THEN intake ELSE pending[m]]
  BY DEF QuarantinedWith
<1>2. kept \subseteq Quarantined \union {n}
  OBVIOUS
<1> HIDE DEF kept
<1> QED
  BY <1>1, <1>2 DEF TypeInv, Quarantined

(* The bounds of the positions. *)
LEMMA Positions ==
    Position \subseteq 0..Last /\ 0 \notin Position /\ 0..Last \subseteq Nat /\ 0 \in 0..Last
  BY LastIsPositive DEF Position

(* The tail cursor of a replay is the newest of its actions. *)
LEMMA TailShape ==
    ASSUME NEW cursor \in 0..Last, NEW actions \in SUBSET Position
    PROVE  LET t == ReplayTail(cursor, actions) IN
           /\ t \in 0..Last /\ (t # 0 => t > cursor)
           /\ \A m \in actions : m <= IF t = 0 THEN cursor ELSE t
<1> DEFINE S == {n \in actions : n > cursor}
<1>1. S \in SUBSET (0..Last) /\ 0 \notin S
  BY Positions
<1>2. /\ Newest(S) \in 0..Last /\ \A m \in S : m <= Newest(S)
      /\ S = {} => Newest(S) = 0
      /\ S # {} => Newest(S) \in S
  BY <1>1, NewestIsMaximal
<1>3. ASSUME NEW m \in actions PROVE m \in Nat /\ (m \in S \/ m <= cursor)
  <2>1. m \in Nat /\ cursor \in Nat
    BY Positions
  <2>2. m \in S \/ ~ (m > cursor)
    OBVIOUS
  <2> QED
    BY <2>1, <2>2
<1> QED
  BY <1>1, <1>2, <1>3 DEF ReplayTail

MadeRow(g, boot, members, tail, name) ==
    g = [NoGroup EXCEPT !.exists = TRUE, !.boot = boot, !.name = name, !.members = members,
           !.tail = tail]

(* The row of a group made known now. *)
LEMMA NewRow ==
    ASSUME NEW boot \in 0..Last, NEW members \in SUBSET Person, NEW tail \in 0..Last,
           NEW name \in 0..Last, NEW g, MadeRow(g, boot, members, tail, name)
    PROVE  /\ g \in GroupRow /\ g.exists /\ g.boot = boot /\ g.name = name
           /\ g.members = members /\ g.tail = tail
<1>1. NoGroup \in GroupRow
  BY Positions DEF GroupRow, NoGroup
<1>2. g.exists /\ g.boot = boot /\ g.name = name /\ g.members = members /\ g.tail = tail
  BY <1>1 DEF GroupRow, MadeRow
<1>3. g \in GroupRow
  BY <1>1 DEF GroupRow, MadeRow
<1> QED
  BY <1>2, <1>3

(* What comes with a rumor: it was built for a draft if one is there.      *)
Comes(n, intake) ==
    /\ n \in Position /\ intake \in Intake
    /\ rumor' = rumor /\ building' \subseteq building /\ reading' = reading
    /\ group.boot = 0 /\ group.ours => CanBootstrap(n)

(* What is stored along with a rumor in the step that first shows it.      *)
Shows(n, S) ==
    /\ stored' = stored \union S /\ S \cap stored = {}
    /\ Counted(group', stored')
    /\ \A m \in S : m = n \/ m \in Quarantined
    /\ n \in S => pending[n] = None

(* What a step adds to the actions that ever had an effect has one now.    *)
Grows ==
    /\ formal \subseteq formal' /\ (group.boot # 0 => group'.boot = group.boot)
    /\ group'.boot = 0 => formal' = formal
    /\ group'.boot # 0 => formal' \ formal \subseteq
           AppliedActions(rumor, BootstrapMembers(group'.boot), group'.boot, Known')

(* A first message makes the group known and replays what waited. *)
LEMMA GroupBootstrap ==
    ASSUME GroupInv, NEW n, NEW intake, Comes(n, intake), NEW active, NEW cursor,
           Bootstrap(n, intake, active, cursor)
    PROVE  GroupInv' /\ Grows /\ \E S : Shows(n, S) /\ Notify(S, n, intake)
<1> USE DEF GroupInv
<1> DEFINE base == BootstrapMembers(n)
           due == AppliedActions(rumor, base, n, Candidates)
           accepted == {m \in Quarantined \ Candidates : rumor[m].author \in base}
           promoted == due \union accepted
           finalized == {m \in promoted : /\ intake \in Network
                                          /\ pending[m] # "archive"
                                          /\ m <= cursor}
           named == NameWith(n, promoted, finalized)
           g == [NoGroup EXCEPT !.exists = TRUE, !.boot = n, !.name = named,
                   !.members = ReplayedMembers(rumor, base, n, Candidates),
                   !.tail = ReplayTail(n, Candidates)]
<1>1. /\ n \in Position /\ n \in 0..Last /\ n # 0 /\ intake \in Intake
      /\ rumor' = rumor /\ building' \subseteq building /\ reading' = reading
  BY Positions DEF Comes
<1>2. /\ group.boot = 0 /\ stored = {} /\ formal = {} /\ late = {} /\ n \notin Quarantined
      /\ CanBootstrap(n)
  BY DEF Bootstrap, RowInv, UnknownInv, WaitingInv
<1>3. /\ Candidates \subseteq Quarantined /\ Quarantined \subseteq Position
      /\ \A m \in Candidates : IsMembership(m)
  BY DEF Candidates, Quarantined
<1>4. /\ stored' = stored \union ({n} \union promoted) /\ Notify({n} \union promoted, n, intake)
      /\ formal' = formal \union due /\ late' = late \union finalized
      /\ pending' = [m \in Position |-> IF m \in Candidates \ due THEN pending[m] ELSE None]
      /\ group' = Refreshed(g, n, active, stored')
  BY Zenon DEF Bootstrap, Insert
<1>5. due \subseteq Candidates
  BY DEF AppliedActions
<1>6. base \in SUBSET Person /\ base # {}
  BY <1>1, RumorFacts
<1>7. /\ g \in GroupRow /\ g.exists /\ g.boot = n /\ g.name = named
      /\ g.tail = ReplayTail(n, Candidates)
      /\ g.members = ReplayedMembers(rumor, base, n, Candidates)
  <2>1. ReplayedMembers(rumor, base, n, Candidates) \in SUBSET Person
    BY <1>1, <1>6, RosterType, RumorFacts
  <2>2. ReplayTail(n, Candidates) \in 0..Last
    BY <1>1, <1>3, TailShape
  <2>3. named \in 0..Last
    <3>1. promoted \subseteq Position
      <4> HIDE DEF due
      <4> QED
        BY <1>3, <1>5
    <3> HIDE DEF promoted, finalized
    <3>2. {n} \union {m \in promoted \ finalized : HasSubject(m)} \in SUBSET (0..Last)
      BY <1>1, <3>1, Positions
    <3> QED
      BY <3>2, NewestIsMaximal DEF NameWith
  <2> DEFINE members == ReplayedMembers(rumor, base, n, Candidates)
             tail == ReplayTail(n, Candidates)
  <2> HIDE DEF named, base, members, tail
  <2>4. MadeRow(g, n, members, tail, named)
    BY DEF MadeRow, members, tail
  <2>5. members \in SUBSET Person /\ tail \in 0..Last
    BY <2>1, <2>2 DEF members, tail
  <2> HIDE DEF g
  <2>6. g \in GroupRow /\ g.exists /\ g.boot = n /\ g.name = named
        /\ g.members = members /\ g.tail = tail
    BY <1>1, <2>3, <2>4, <2>5, NewRow
  <2> QED
    BY <2>6 DEF members, tail
<1> HIDE DEF due, finalized, g, base
<1>8. stored' \in SUBSET Position /\ formal' \in SUBSET Position /\ late' \in SUBSET Position
  BY <1>1, <1>2, <1>3, <1>4, <1>5 DEF finalized
<1>9. group' \in GroupRow /\ SameGroup(g, group') /\ Counted(group', stored')
  BY <1>1, <1>4, <1>7, <1>8, RefreshedShape
<1>10. /\ group'.exists /\ group'.boot = n /\ group'.name = named
       /\ group'.tail = ReplayTail(n, Candidates)
       /\ group'.members = ReplayedMembers(rumor, base, n, Candidates)
  BY <1>7, <1>9 DEF SameGroup
<1>11. TypeInv'
  BY <1>1, <1>4, <1>8, <1>9, Zenon DEF TypeInv, Quarantined
<1>12. Quarantined' = Candidates \ due /\ Candidates' = Candidates \ due
  BY <1>1, <1>3, <1>4 DEF Quarantined, Candidates, IsMembership
<1>13. UnknownInv' /\ RowInv'
  BY <1>1, <1>10 DEF UnknownInv, RowInv
<1>14. WaitingInv'
  BY <1>2, <1>3, <1>4, <1>5, <1>12 DEF WaitingInv, finalized
<1>15. Known' = Candidates
  BY <1>2, <1>4, <1>5, <1>12 DEF Known
<1>16. ReplayInv'
  <2>1. BootstrapMembers(group.boot)' = base
    BY <1>1, <1>10 DEF BootstrapMembers, base
  <2>2. AppliedActions(rumor, base, n, Candidates) \subseteq formal'
    BY <1>4 DEF due
  <2> QED
    BY <1>1, <1>10, <1>15, <2>1, <2>2 DEF ReplayInv
<1>17. TailInv'
  BY <1>1, <1>3, <1>10, <1>15, TailShape DEF TailInv, TailIsNewest, TailCursor, Known
<1>18. NameInv'
  <2>1. n \notin finalized
    BY <1>2, <1>3, <1>5 DEF finalized
  <2>2. {n} \union {m \in promoted \ finalized : HasSubject(m)} = Named'
    BY <1>1, <1>2, <1>4, <2>1 DEF Named, HasSubject, CanBootstrap
  <2> QED
    BY <1>10, <2>2 DEF NameInv, NameWith
<1>19. Shows(n, {n} \union promoted)
  BY <1>1, <1>2, <1>3, <1>4, <1>5, <1>9, <1>10 DEF Shows, Quarantined
<1>20. Grows
  BY <1>1, <1>2, <1>4, <1>10, <1>15 DEF Grows, due, base
<1> QED
  BY <1>4, <1>11, <1>13, <1>14, <1>16, <1>17, <1>18, <1>19, <1>20

(* Nothing that the user sees of the messages changes.                     *)
Kept ==
    /\ UNCHANGED <<stored, notified>>
    /\ group'.read = group.read /\ group'.unread = group.unread
    /\ group'.deleted = group.deleted

(* What cannot make the group known waits, and is not shown. *)
LEMMA GroupWaitsForBootstrap ==
    ASSUME GroupInv, NEW n, NEW intake, Comes(n, intake), WaitForBootstrap(n, intake)
    PROVE  GroupInv' /\ Kept
<1> USE DEF GroupInv
<1>1. /\ n \in Position /\ intake \in Intake
      /\ rumor' = rumor /\ building' \subseteq building /\ reading' = reading
      /\ group.boot = 0 /\ ~ CanBootstrap(n) /\ ~ group.ours
      /\ pending' = QuarantinedWith(n, intake)
      /\ UNCHANGED <<group, stored, formal, late, notified>>
  BY DEF Comes, WaitForBootstrap, RowInv
<1>2. /\ pending' \in [Position -> Intake \union {None}]
      /\ Quarantined' \subseteq Quarantined \union {n}
  BY <1>1, QuarantineShape DEF Quarantined
<1>3. TypeInv'
  BY <1>1, <1>2 DEF TypeInv
<1>4. UnknownInv' /\ RowInv'
  BY <1>1, <1>2 DEF UnknownInv, RowInv, CanBootstrap
<1>5. WaitingInv' /\ ReplayInv' /\ NameInv'
  BY <1>1 DEF WaitingInv, ReplayInv, NameInv, Named, HasSubject, UnknownInv
<1>6. TailInv'
  BY <1>1 DEF TailInv, TailIsNewest
<1> QED
  BY <1>1, <1>3, <1>4, <1>5, <1>6 DEF Kept

(* The first message of a group created here makes it known. *)
LEMMA GroupEstablishes ==
    ASSUME GroupInv, NEW n, NEW intake, Comes(n, intake), EstablishDraft(n, intake)
    PROVE  GroupInv' /\ \E S : Shows(n, S) /\ UNCHANGED notified
<1> USE DEF GroupInv
<1> DEFINE named == NameWith(group.name, {n}, {})
           g == [group EXCEPT !.boot = n, !.name = NameWith(@, {n}, {})]
<1>1. /\ n \in Position /\ n \in 0..Last /\ n # 0
      /\ rumor' = rumor /\ building' \subseteq building /\ reading' = reading
  BY Positions DEF Comes
<1>2. /\ group.exists /\ group.boot = 0 /\ group.ours /\ rumor[n].kind = "content"
      /\ group.members = BootstrapMembers(n) /\ stored = {} /\ formal = {} /\ late = {}
      /\ Quarantined = {} /\ group \in GroupRow
  BY DEF EstablishDraft, RowInv, UnknownInv, WaitingInv, TypeInv
<1>3. /\ stored' = stored \union {n} /\ group' = Refreshed(g, n, TRUE, stored')
      /\ UNCHANGED <<formal, late, pending, notified>>
  BY Zenon DEF EstablishDraft, Insert
<1>4. named = n
  <2>1. Newest({n}) \in {n}
    BY <1>1, NewestIsMaximal, Positions
  <2>2. group.name = Newest({})
    <3>1. Named = {}
      BY <1>2 DEF Named
    <3> QED
      BY <3>1 DEF NameInv
  <2>3. {m \in {n} \ {} : HasSubject(m)} = {n}
    BY <1>2 DEF HasSubject
  <2>4. Newest({Newest({})} \union {n}) = Newest({} \union {n})
    BY <1>1, NewestOfParts
  <2> QED
    BY <2>1, <2>2, <2>3, <2>4 DEF NameWith
<1>5. /\ g \in GroupRow /\ g.boot = n /\ g.exists /\ g.name = n
      /\ g.members = group.members /\ g.tail = group.tail
  <2>1. g = [group EXCEPT !.boot = n, !.name = named]
    BY <1>2 DEF GroupRow
  <2> HIDE DEF named, g
  <2> QED
    BY <1>1, <1>2, <1>4, <2>1 DEF GroupRow
<1> HIDE DEF g, named
<1>6. stored' \in SUBSET Position
  BY <1>1, <1>2, <1>3
<1>7. group' \in GroupRow /\ SameGroup(g, group') /\ Counted(group', stored')
  BY <1>1, <1>3, <1>5, <1>6, RefreshedShape
<1>8. /\ group'.boot = n /\ group'.exists /\ group'.name = n
      /\ group'.members = group.members /\ group'.tail = group.tail
  BY <1>5, <1>7 DEF SameGroup
<1>9. TypeInv'
  BY <1>1, <1>3, <1>6, <1>7, Zenon DEF TypeInv
<1>10. Quarantined' = {} /\ Candidates = {} /\ Candidates' = {}
  BY <1>2, <1>3 DEF Quarantined, Candidates
<1>11. UnknownInv' /\ RowInv' /\ WaitingInv'
  BY <1>1, <1>2, <1>3, <1>8, <1>10 DEF UnknownInv, RowInv, WaitingInv
<1>12. Known' = {}
  BY <1>2, <1>3, <1>10 DEF Known
<1>13. ReplayInv'
  <2>1. BootstrapMembers(group.boot)' = BootstrapMembers(n)
    BY <1>1, <1>8 DEF BootstrapMembers
  <2>2. AppliedActions(rumor, BootstrapMembers(n), n, {}) = {}
    BY DEF AppliedActions
  <2>3. ReplayedMembers(rumor, BootstrapMembers(n), n, {}) = BootstrapMembers(n)
    BY NoActions
  <2> QED
    BY <1>1, <1>2, <1>8, <1>12, <2>1, <2>2, <2>3 DEF ReplayInv
<1>14. TailInv'
  <2>1. group.tail = 0
    BY <1>2 DEF TailInv
  <2> QED
    BY <1>2, <1>3, <1>8, <1>10, <2>1 DEF TailInv, TailIsNewest
<1>15. NameInv'
  <2>1. Named' = {n}
    BY <1>1, <1>2, <1>3 DEF Named, HasSubject
  <2>2. Newest({n}) \in {n}
    BY <1>1, NewestIsMaximal, Positions
  <2> QED
    BY <1>8, <2>1, <2>2 DEF NameInv
<1>16. Shows(n, {n})
  BY <1>1, <1>2, <1>3, <1>7 DEF Shows, Quarantined
<1> QED
  BY <1>3, <1>9, <1>11, <1>13, <1>14, <1>15, <1>16

-----------------------------------------------------------------------------
(* Once the group is known. *)

KnownRow(g, members, tail, name) ==
    g = [group EXCEPT !.members = members, !.tail = tail, !.name = name]

(* The row of a known group after its roster or its name changed. *)
LEMMA KnownRowShape ==
    ASSUME group \in GroupRow, NEW members \in SUBSET Person, NEW tail \in 0..Last,
           NEW name \in 0..Last, NEW g, KnownRow(g, members, tail, name)
    PROVE  /\ g \in GroupRow /\ g.exists = group.exists /\ g.boot = group.boot
           /\ g.ours = group.ours /\ g.name = name /\ g.members = members /\ g.tail = tail
           /\ g.read = group.read /\ g.unread = group.unread /\ g.deleted = group.deleted
<1>1. /\ g.exists = group.exists /\ g.boot = group.boot
      /\ g.ours = group.ours /\ g.name = name /\ g.members = members /\ g.tail = tail
      /\ g.read = group.read /\ g.unread = group.unread /\ g.deleted = group.deleted
  BY DEF KnownRow, GroupRow
<1>2. g \in GroupRow
  BY DEF KnownRow, GroupRow
<1> QED
  BY <1>1, <1>2

(* A new name is the position of a subject. *)
LEMMA NewNameType ==
    ASSUME TypeInv, NEW S \in SUBSET Position, NEW T
    PROVE  NameWith(group.name, S, T) \in 0..Last
<1>1. group.name \in 0..Last
  BY DEF TypeInv, GroupRow
<1>2. {group.name} \union {m \in S \ T : HasSubject(m)} \in SUBSET (0..Last)
  BY <1>1, Positions
<1> QED
  BY <1>2, NewestIsMaximal DEF NameWith

(* The name follows what is stored, finalized subjects left out.           *)
LEMMA NamedAnew ==
    ASSUME TypeInv, NameInv, NEW S \in SUBSET Position, NEW T \in SUBSET S,
           S \cap stored = {}, late \subseteq stored, rumor' = rumor,
           stored' = stored \union S, late' = late \union T,
           group'.name = NameWith(group.name, S, T)
    PROVE  NameInv'
<1>1. Named \in SUBSET (0..Last) /\ {m \in S \ T : HasSubject(m)} \in SUBSET (0..Last)
  BY Positions DEF Named, TypeInv
<1>2. Named' = Named \union {m \in S \ T : HasSubject(m)}
  BY DEF Named, HasSubject
<1> QED
  BY <1>1, <1>2, NewestOfParts DEF NameInv, NameWith

(* Actions that have no effect come and go.                                *)
LEMMA IneffectiveKept ==
    ASSUME TypeInv, ReplayInv, group.boot # 0, rumor' = rumor, formal' = formal,
           group'.boot = group.boot, group'.members = group.members,
           Known \in SUBSET Position, Known' \in SUBSET Position,
           \A m \in Known' \ Known : rumor[m].author
               \notin Rosters(rumor, BootstrapMembers(group.boot), group.boot, Known)[m - 1]
    PROVE  ReplayInv'
<1> DEFINE base == BootstrapMembers(group.boot)
<1>1. /\ group.members = ReplayedMembers(rumor, base, group.boot, Known)
      /\ AppliedActions(rumor, base, group.boot, Known) \subseteq formal
  BY DEF ReplayInv
<1>2. \A m \in Known' \ Known :
          rumor[m].author \notin Rosters(rumor, base, group.boot, Known)[m - 1]
  OBVIOUS
<1>3. BootstrapMembers(group.boot)' = base
  BY DEF BootstrapMembers
<1> HIDE DEF base
<1>4. \A m \in Known \ Known' : m > group.boot =>
          rumor[m].author \notin Rosters(rumor, base, group.boot, Known)[m - 1]
  BY <1>1 DEF AppliedActions, Known
<1>5. /\ ReplayedMembers(rumor, base, group.boot, Known')
           = ReplayedMembers(rumor, base, group.boot, Known)
      /\ AppliedActions(rumor, base, group.boot, Known')
           = AppliedActions(rumor, base, group.boot, Known)
  <2> DEFINE new == Known'
  <2>1. \A m \in (Known \ new) \union (new \ Known) : m > group.boot =>
            rumor[m].author \notin Rosters(rumor, base, group.boot, Known)[m - 1]
    BY <1>2, <1>4
  <2> HIDE DEF new
  <2>2. new \in SUBSET Position
    BY DEF new
  <2>3. /\ ReplayedMembers(rumor, base, group.boot, new)
             = ReplayedMembers(rumor, base, group.boot, Known)
        /\ AppliedActions(rumor, base, group.boot, new)
             = AppliedActions(rumor, base, group.boot, Known)
    BY <2>1, <2>2, IneffectiveActions
  <2> QED
    BY <2>3 DEF new
<1> QED
  BY <1>1, <1>3, <1>5 DEF ReplayInv

(* What a quarantine of the rumor leaves. *)
LEMMA QuarantinedKnown ==
    ASSUME TypeInv, NEW n \in Position, NEW intake \in Intake, rumor' = rumor,
           pending' = QuarantinedWith(n, intake)
    PROVE  /\ pending' \in [Position -> Intake \union {None}]
           /\ Quarantined' \subseteq Quarantined \union {n}
           /\ Candidates' \subseteq Candidates \union {n}
           /\ Candidates' \subseteq Position
<1>1. /\ pending' \in [Position -> Intake \union {None}]
      /\ Quarantined' \subseteq Quarantined \union {n}
  BY QuarantineShape DEF Quarantined
<1> QED
  BY <1>1 DEF Candidates, IsMembership, Quarantined

(* An action without effect is quarantined; what is evicted had none. *)
LEMMA GroupWaits ==
    ASSUME GroupInv, NEW n, NEW intake, Comes(n, intake), UnknownAction(n), n > TailCursor,
           rumor[n].author \notin group.members,
           pending' = QuarantinedWith(n, intake), group' = [group EXCEPT !.tail = n],
           UNCHANGED <<stored, formal, inForce, jobs, notified, late>>
    PROVE  GroupInv' /\ Kept
<1> USE DEF GroupInv
<1>1. /\ n \in Position /\ n \in 0..Last /\ n # 0 /\ intake \in Intake
      /\ rumor' = rumor /\ building' \subseteq building /\ reading' = reading
      /\ group.boot # 0 /\ IsMembership(n) /\ n \notin stored
  BY Positions DEF Comes, UnknownAction
<1>2. /\ group' \in GroupRow /\ group'.exists = group.exists /\ group'.boot = group.boot
      /\ group'.ours = group.ours /\ group'.name = group.name /\ group'.members = group.members
      /\ group'.tail = n /\ group'.read = group.read /\ group'.unread = group.unread
      /\ group'.deleted = group.deleted
  BY <1>1 DEF TypeInv, GroupRow
<1>3. /\ pending' \in [Position -> Intake \union {None}]
      /\ Quarantined' \subseteq Quarantined \union {n}
      /\ Candidates' \subseteq Candidates \union {n}
      /\ Candidates' \subseteq Position
  BY <1>1, QuarantinedKnown
<1>4. TypeInv'
  BY <1>1, <1>2, <1>3 DEF TypeInv
<1>5. UnknownInv' /\ RowInv'
  BY <1>1, <1>2 DEF UnknownInv, RowInv
<1>6. WaitingInv'
  BY <1>1, <1>2, <1>3 DEF WaitingInv, Candidates, IsMembership
<1>7. NameInv'
  BY <1>1, <1>2 DEF NameInv, Named, HasSubject
<1>8. Known \in SUBSET Position /\ Known' \in SUBSET Position /\ Known' \subseteq Known \union {n}
  BY <1>3 DEF Known, TypeInv, Candidates, Quarantined
<1>9. /\ group.boot \in 0..Last /\ TailCursor \in 0..Last /\ group.boot <= TailCursor
      /\ \A m \in Known : m <= TailCursor
  BY <1>1, Positions DEF TailInv, TailIsNewest, TailCursor, Known, TypeInv, GroupRow
<1>10. ReplayInv'
  <2>1. rumor[n].author
          \notin Rosters(rumor, BootstrapMembers(group.boot), group.boot, Known)[n - 1]
    <3>1. \A m \in Known : m < n
      BY <1>1, <1>8, <1>9, Positions
    <3>2. Rosters(rumor, BootstrapMembers(group.boot), group.boot, Known)[n - 1]
            = ReplayedMembers(rumor, BootstrapMembers(group.boot), group.boot, Known)
      BY <1>1, <1>8, <3>1, MembersBefore
    <3> QED
      BY <1>1, <3>2 DEF ReplayInv
  <2> QED
    BY <1>1, <1>2, <1>8, <2>1, IneffectiveKept
<1>11. TailInv'
  <2>1. \A m \in Known' : m <= n
    BY <1>1, <1>8, <1>9, Positions
  <2> QED
    BY <1>1, <1>2, <1>9, <2>1, Positions DEF TailInv, TailIsNewest, TailCursor, Known
<1> QED
  BY <1>2, <1>4, <1>5, <1>6, <1>7, <1>10, <1>11 DEF Kept

(* An action newer than all the known ones is applied to the members. *)
LEMMA GroupApplies ==
    ASSUME GroupInv, NEW n, NEW intake, Comes(n, intake), UnknownAction(n), n > TailCursor,
           NEW active, NEW g,
           rumor[n].author \in group.members,
           formal' = formal \union {n}, stored' = stored \union {n},
           KnownRow(g, Effect(rumor[n], group.members), n, NameWith(group.name, {n}, {})),
           group' = Refreshed(g, n, active, stored'),
           UNCHANGED <<pending, late>>
    PROVE  GroupInv' /\ Grows /\ Shows(n, {n})
<1> USE DEF GroupInv
<1> DEFINE base == BootstrapMembers(group.boot)
<1>1. /\ n \in Position /\ n \in 0..Last /\ n # 0 /\ group.boot # 0 /\ IsMembership(n)
      /\ n \notin stored /\ n \notin formal /\ n \notin Quarantined /\ group \in GroupRow
      /\ rumor' = rumor /\ building' \subseteq building /\ reading' = reading
  BY Positions DEF Comes, UnknownAction, TypeInv
<1>2. /\ g \in GroupRow /\ g.exists = group.exists /\ g.boot = group.boot
      /\ g.ours = group.ours /\ g.name = NameWith(group.name, {n}, {})
      /\ g.members = Effect(rumor[n], group.members) /\ g.tail = n
  <2>1. Effect(rumor[n], group.members) \in SUBSET Person
    BY <1>1, RumorFacts DEF Effect, GroupRow
  <2>2. NameWith(group.name, {n}, {}) \in 0..Last
    BY <1>1, NewNameType
  <2> QED
    BY <1>1, <2>1, <2>2, KnownRowShape
<1>3. stored' \in SUBSET Position /\ formal' \in SUBSET Position
  BY <1>1 DEF TypeInv
<1>4. group' \in GroupRow /\ SameGroup(g, group') /\ Counted(group', stored')
  BY <1>1, <1>2, <1>3, RefreshedShape
<1>5. /\ group'.exists = group.exists /\ group'.boot = group.boot
      /\ group'.ours = group.ours /\ group'.name = NameWith(group.name, {n}, {})
      /\ group'.members = Effect(rumor[n], group.members) /\ group'.tail = n
  BY <1>2, <1>4 DEF SameGroup
<1>6. TypeInv'
  BY <1>1, <1>3, <1>4, Zenon DEF TypeInv
<1>7. Quarantined' = Quarantined /\ Candidates' = Candidates
  BY <1>1 DEF Quarantined, Candidates, IsMembership
<1>8. UnknownInv' /\ RowInv' /\ WaitingInv'
  BY <1>1, <1>5, <1>7 DEF UnknownInv, RowInv, WaitingInv
<1>9. NameInv'
  BY <1>1, <1>5, NamedAnew DEF WaitingInv
<1>10. Known \in SUBSET Position /\ Known' = Known \union {n}
  BY <1>7 DEF Known, TypeInv, Candidates, Quarantined
<1>11. /\ group.boot \in 0..Last /\ TailCursor \in 0..Last /\ group.boot <= TailCursor
       /\ \A m \in Known : m <= TailCursor
  BY <1>1, Positions DEF TailInv, TailIsNewest, TailCursor, Known, GroupRow
<1>12. n > group.boot /\ \A m \in Known : m < n
  <2>1. n \in Nat /\ group.boot \in Nat /\ TailCursor \in Nat /\ Known \subseteq Nat
    BY <1>1, <1>10, <1>11, Positions
  <2> QED
    BY <1>11, <2>1
<1>13. /\ group.members = ReplayedMembers(rumor, base, group.boot, Known)
       /\ AppliedActions(rumor, base, group.boot, Known) \subseteq formal
  BY <1>1 DEF ReplayInv
<1>14. ReplayInv' /\ Grows
  <2>1. BootstrapMembers(group.boot)' = base /\ BootstrapMembers(group'.boot) = base
    BY <1>1, <1>5 DEF BootstrapMembers
  <2> HIDE DEF base
  <2>2. /\ ReplayedMembers(rumor, base, group.boot, Known \union {n})
             = Effect(rumor[n], group.members)
        /\ AppliedActions(rumor, base, group.boot, Known \union {n})
             = AppliedActions(rumor, base, group.boot, Known) \union {n}
    BY <1>1, <1>10, <1>12, <1>13, NewestAction
  <2>3. ReplayInv'
    BY <1>1, <1>5, <1>10, <1>13, <2>1, <2>2 DEF ReplayInv
  <2>4. Grows
    BY <1>1, <1>5, <1>10, <2>1, <2>2 DEF Grows
  <2> QED
    BY <2>3, <2>4
<1>15. TailInv'
  <2>1. n \in Nat /\ Known \subseteq Nat
    BY <1>1, <1>10, Positions
  <2>2. \A m \in Known' : m <= n
    BY <1>10, <1>12, <2>1
  <2> QED
    BY <1>1, <1>5, <1>12, <2>2 DEF TailInv, TailIsNewest, TailCursor, Known
<1>16. Shows(n, {n})
  BY <1>1, <1>4 DEF Shows, Quarantined
<1> QED
  BY <1>6, <1>8, <1>9, <1>14, <1>15, <1>16

(* Any other rumor of a member is stored, and leaves the members alone. *)
LEMMA GroupStores ==
    ASSUME GroupInv, NEW n, NEW intake, Comes(n, intake), NEW active, NEW cursor,
           StoreOrdinary(n, intake, active, cursor)
    PROVE  GroupInv' /\ Grows /\ \E S : Shows(n, S) /\ Notify(S, n, intake)
<1> USE DEF GroupInv
<1> DEFINE finalized == {m \in {n} : Finalized(m, intake, cursor)}
           g == [group EXCEPT !.name = NameWith(@, {n}, finalized)]
           named == NameWith(group.name, {n}, finalized)
<1>1. /\ n \in Position /\ n \in 0..Last /\ n # 0 /\ group.boot # 0 /\ ~ IsMembership(n)
      /\ n \notin stored /\ group \in GroupRow
      /\ rumor' = rumor /\ building' \subseteq building /\ reading' = reading
  BY Positions DEF Comes, StoreOrdinary, TypeInv
<1>2. /\ stored' = stored \union {n} /\ group' = Refreshed(g, n, active, stored')
      /\ late' = late \union finalized /\ Notify({n}, n, intake)
      /\ UNCHANGED <<formal, pending>>
  BY Zenon DEF StoreOrdinary, Insert
<1>3. finalized \subseteq {n}
  OBVIOUS
<1> HIDE DEF finalized
<1>4. named \in 0..Last
  BY <1>1, NewNameType
<1>5. /\ g \in GroupRow /\ g.exists = group.exists /\ g.boot = group.boot
      /\ g.ours = group.ours /\ g.name = named /\ g.members = group.members
      /\ g.tail = group.tail
  <2>1. g = [group EXCEPT !.name = named]
    BY <1>1 DEF GroupRow
  <2> HIDE DEF named, g
  <2> QED
    BY <1>1, <1>4, <2>1 DEF GroupRow
<1> HIDE DEF g
<1>6. stored' \in SUBSET Position /\ late' \in SUBSET Position
  BY <1>1, <1>2, <1>3 DEF TypeInv
<1>7. group' \in GroupRow /\ SameGroup(g, group') /\ Counted(group', stored')
  BY <1>1, <1>2, <1>5, <1>6, RefreshedShape
<1>8. /\ group'.exists = group.exists /\ group'.boot = group.boot
      /\ group'.ours = group.ours /\ group'.name = named
      /\ group'.members = group.members /\ group'.tail = group.tail
  BY <1>5, <1>7 DEF SameGroup
<1>9. TypeInv'
  BY <1>1, <1>2, <1>6, <1>7, Zenon DEF TypeInv
<1>10. Quarantined' = Quarantined /\ Candidates' = Candidates /\ n \notin Quarantined
  BY <1>1, <1>2 DEF Quarantined, Candidates, IsMembership, WaitingInv
<1>11. UnknownInv' /\ RowInv' /\ WaitingInv'
  BY <1>1, <1>2, <1>3, <1>8, <1>10 DEF UnknownInv, RowInv, WaitingInv
<1>12. NameInv'
  BY <1>1, <1>2, <1>3, <1>8, NamedAnew DEF WaitingInv
<1>13. Known' = Known
  BY <1>2, <1>10 DEF Known
<1>14. ReplayInv'
  BY <1>1, <1>2, <1>8, <1>13 DEF ReplayInv, BootstrapMembers
<1>15. TailInv'
  BY <1>2, <1>8, <1>10 DEF TailInv, TailIsNewest, TailCursor
<1>16. Shows(n, {n})
  BY <1>1, <1>2, <1>7, <1>10 DEF Shows, Quarantined
<1>17. Grows
  BY <1>1, <1>2, <1>8 DEF Grows
<1> QED
  BY <1>17, <1>2, <1>9, <1>11, <1>12, <1>14, <1>15, <1>16

(* A late action is replayed with all the others, and promotes some. *)
LEMMA GroupReplays ==
    ASSUME GroupInv, NEW n, NEW intake, Comes(n, intake), NEW active,
           ReplayAll(n, intake, active)
    PROVE  GroupInv' /\ Grows /\ (Kept \/ \E S : Shows(n, S) /\ Notify(S, n, intake))
<1> USE DEF GroupInv
<1> DEFINE rows == QuarantinedWith(n, intake)
           base == BootstrapMembers(group.boot)
           waiting == {m \in Position : rows[m] # None /\ IsMembership(m)}
           records == formal \union {m \in Position : rows[m] # None /\ IsMembership(m)}
           due == AppliedActions(rumor, base, group.boot, records)
           promoted == due \ formal
           members == ReplayedMembers(rumor, base, group.boot, records)
           tail == ReplayTail(group.boot, records)
           named == NameWith(group.name, promoted, {})
           g == [group EXCEPT
                   !.members = ReplayedMembers(rumor, base, group.boot, records),
                   !.tail = ReplayTail(group.boot, records),
                   !.name = NameWith(@, promoted, {})]
<1>1. /\ n \in Position /\ n \in 0..Last /\ n # 0 /\ group.boot # 0 /\ IsMembership(n)
      /\ n \notin stored /\ n \notin formal /\ n \notin Quarantined /\ group \in GroupRow
      /\ rumor' = rumor /\ building' \subseteq building /\ reading' = reading
      /\ intake \in Intake /\ group.boot \in Position /\ group.boot \in 0..Last
  BY Positions DEF Comes, ReplayAll, UnknownAction, TypeInv, GroupRow, Position
<1>2. /\ stored' = stored \union promoted /\ formal' = formal \union promoted
      /\ pending' = [m \in Position |-> IF m \in promoted THEN None ELSE rows[m]]
      /\ group' = IF promoted = {} THEN g ELSE Refreshed(g, n, active, stored')
      /\ Notify(promoted, n, intake) /\ UNCHANGED late
  BY Zenon DEF ReplayAll, Insert
<1>3. /\ rows \in [Position -> Intake \union {None}]
      /\ \A m \in Position : rows[m] # None => m = n \/ m \in Quarantined
  BY <1>1, QuarantineShape
<1>4. g = [group EXCEPT !.members = members, !.tail = tail, !.name = named]
  BY <1>1 DEF GroupRow
<1> HIDE DEF rows
<1>5. waiting \subseteq Candidates \union {n} /\ waiting \subseteq Position
  BY <1>3 DEF Candidates
<1>6. records = formal \union waiting /\ records \in SUBSET Position
  BY <1>5 DEF TypeInv
<1>7. due \subseteq records
  BY DEF AppliedActions
<1>8. base \in SUBSET Person
  BY <1>1, RumorFacts
<1>9. /\ members = ReplayedMembers(rumor, base, group.boot, records)
      /\ due = AppliedActions(rumor, base, group.boot, records)
      /\ tail = ReplayTail(group.boot, records)
      /\ base = BootstrapMembers(group.boot)
      /\ waiting = {m \in Position : rows[m] # None /\ IsMembership(m)}
  OBVIOUS
<1> HIDE DEF base, records, g, waiting
<1>10. members \in SUBSET Person
  BY <1>1, <1>8, RosterType, RumorFacts
<1>11. tail \in 0..Last /\ (tail # 0 => tail > group.boot)
       /\ \A m \in records : m <= IF tail = 0 THEN group.boot ELSE tail
  BY <1>1, <1>6, TailShape
<1> HIDE DEF members, tail, due
<1>12. promoted \in SUBSET Position /\ promoted \subseteq waiting
  BY <1>6, <1>7
<1>13. /\ promoted \cap stored = {}
       /\ \A m \in promoted : m = n \/ m \in Quarantined
  BY <1>1, <1>5, <1>12 DEF WaitingInv, Candidates
<1>14. records = formal \union promoted \union (waiting \ promoted)
       /\ due \subseteq formal \union promoted
  BY <1>6, <1>12
<1> HIDE DEF promoted
<1>15. named \in 0..Last
  BY <1>12, NewNameType
<1> HIDE DEF named
<1>16. KnownRow(g, members, tail, named)
  BY <1>4 DEF KnownRow
<1>17. /\ g \in GroupRow /\ g.exists = group.exists /\ g.boot = group.boot
       /\ g.ours = group.ours /\ g.name = named /\ g.members = members /\ g.tail = tail
       /\ g.read = group.read /\ g.unread = group.unread /\ g.deleted = group.deleted
  BY <1>1, <1>10, <1>11, <1>15, <1>16, KnownRowShape
<1>18. stored' \in SUBSET Position /\ formal' \in SUBSET Position
  BY <1>2, <1>12 DEF TypeInv
<1>19. /\ group' \in GroupRow /\ SameGroup(g, group')
       /\ promoted # {} => Counted(group', stored')
       /\ promoted = {} => group' = g
  <2>1. CASE promoted = {}
    BY <1>2, <1>17, <2>1 DEF SameGroup
  <2>2. CASE promoted # {}
    <3>1. group' = Refreshed(g, n, active, stored')
      BY <1>2, <2>2
    <3> QED
      BY <1>1, <1>17, <1>18, <2>2, <3>1, RefreshedShape
  <2> QED
    BY <2>1, <2>2
<1>20. /\ group'.exists = group.exists /\ group'.boot = group.boot
       /\ group'.ours = group.ours /\ group'.name = named
       /\ group'.members = members /\ group'.tail = tail
  BY <1>17, <1>19 DEF SameGroup
<1>21. /\ Candidates' = waiting \ promoted
       /\ Quarantined' \subseteq (Quarantined \union {n}) \ promoted
       /\ Quarantined' \subseteq Candidates'
  <2>1. pending' \in [Position -> Intake \union {None}]
    BY <1>2, <1>3
  <2>2. Quarantined' = {m \in Position : rows[m] # None} \ promoted
    BY <1>2 DEF Quarantined
  <2>3. \A m \in Position : IsMembership(m)' <=> IsMembership(m)
    BY <1>1 DEF IsMembership
  <2>4. Candidates' = {m \in Quarantined' : IsMembership(m)}
    BY <2>2, <2>3 DEF Candidates
  <2>5. {m \in Position : rows[m] # None} \subseteq Quarantined \union {n}
    BY <1>3
  <2>6. Quarantined \subseteq Candidates
    BY <1>1 DEF WaitingInv
  <2>7. Quarantined' \subseteq Candidates'
    BY <1>1, <2>2, <2>4, <2>5, <2>6 DEF Candidates
  <2>8. Candidates' = waiting \ promoted
    BY <1>9, <2>2, <2>4
  <2> QED
    BY <2>2, <2>5, <2>7, <2>8
<1>22. TypeInv'
  <2>1. pending' \in [Position -> Intake \union {None}]
    BY <1>2, <1>3
  <2> QED
    BY <1>1, <1>2, <1>18, <1>19, <2>1, Zenon DEF TypeInv
<1>23. UnknownInv' /\ RowInv'
  BY <1>1, <1>20 DEF UnknownInv, RowInv
<1>24. WaitingInv'
  BY <1>1, <1>2, <1>21 DEF WaitingInv
<1>25. NameInv'
  BY <1>1, <1>2, <1>12, <1>13, <1>20, NamedAnew DEF WaitingInv, named
<1>26. Known' = records
  BY <1>2, <1>14, <1>21 DEF Known
<1>27. ReplayInv' /\ Grows
  <2>1. BootstrapMembers(group.boot)' = base /\ BootstrapMembers(group'.boot) = base
    BY <1>1, <1>9, <1>20 DEF BootstrapMembers
  <2>2. ReplayInv'
    BY <1>1, <1>2, <1>9, <1>14, <1>20, <1>26, <2>1 DEF ReplayInv
  <2>3. promoted \subseteq due
    BY DEF promoted
  <2>4. Grows
    BY <1>1, <1>2, <1>9, <1>20, <1>26, <2>1, <2>3 DEF Grows
  <2> QED
    BY <2>2, <2>4
<1>28. TailInv'
  BY <1>1, <1>11, <1>20, <1>26 DEF TailInv, TailIsNewest, TailCursor, Known
<1>29. CASE promoted = {}
  <2>1. notified' = notified
    BY <1>2, <1>29 DEF Notify
  <2>2. Kept
    BY <1>2, <1>17, <1>19, <1>29, <2>1 DEF Kept
  <2> QED
    BY <1>22, <1>23, <1>24, <1>25, <1>27, <1>28, <2>2
<1>30. CASE promoted # {}
  <2>1. Shows(n, promoted)
    BY <1>1, <1>2, <1>13, <1>19, <1>30 DEF Shows, Quarantined
  <2> QED
    BY <1>2, <1>22, <1>23, <1>24, <1>25, <1>27, <1>28, <2>1
<1> QED
  BY <1>29, <1>30

-----------------------------------------------------------------------------
(* What receive() does, and what it shows and announces.                   *)

Shown(n, intake) ==
    \/ Kept
    \/ \E S : Shows(n, S) /\ (Notify(S, n, intake) \/ UNCHANGED notified)

(* Whatever receive() does with a rumor keeps the invariant. *)
LEMMA GroupReceives ==
    ASSUME GroupInv, NEW n, NEW intake, Comes(n, intake), NEW active, NEW cursor,
           Receive(n, intake, active, cursor)
    PROVE  GroupInv' /\ Grows /\ Shown(n, intake)
<1>1. ASSUME GroupInv', formal' = formal, group.boot # 0 => group'.boot = group.boot PROVE Grows
  BY <1>1 DEF Grows
<1>2. CASE Bootstrap(n, intake, active, cursor)
  BY <1>2, GroupBootstrap DEF Shown
<1>3. CASE WaitForBootstrap(n, intake)
  <2>1. GroupInv' /\ Kept
    BY <1>3, GroupWaitsForBootstrap
  <2> QED
    BY <1>1, <1>3, <2>1 DEF WaitForBootstrap, Shown
<1>4. CASE EstablishDraft(n, intake)
  <2>1. GroupInv' /\ \E S : Shows(n, S) /\ UNCHANGED notified
    BY <1>4, GroupEstablishes
  <2> QED
    BY <1>1, <1>4, <2>1, Zenon DEF EstablishDraft, Shown
<1>5. CASE ApplyNewest(n, intake, active)
  <2>1. CASE rumor[n].author \in group.members
    <3> DEFINE g == [group EXCEPT !.tail = n, !.members = Effect(rumor[n], @),
                                 !.name = NameWith(@, {n}, {})]
    <3>1. /\ UnknownAction(n) /\ n > TailCursor
          /\ formal' = formal \union {n} /\ stored' = stored \union {n}
          /\ group' = Refreshed(g, n, active, stored')
          /\ Notify({n}, n, intake) /\ UNCHANGED <<pending, late>>
      BY <1>5, <2>1, Zenon DEF ApplyNewest, Insert
    <3>2. KnownRow(g, Effect(rumor[n], group.members), n, NameWith(group.name, {n}, {}))
      BY DEF KnownRow, GroupInv, TypeInv, GroupRow
    <3> HIDE DEF g
    <3>3. GroupInv' /\ Grows /\ Shows(n, {n})
      BY <2>1, <3>1, <3>2, GroupApplies
    <3> QED
      BY <3>1, <3>3 DEF Shown
  <2>2. CASE rumor[n].author \notin group.members
    <3>1. /\ UnknownAction(n) /\ n > TailCursor
          /\ pending' = QuarantinedWith(n, intake) /\ group' = [group EXCEPT !.tail = n]
          /\ UNCHANGED <<stored, formal, inForce, jobs, notified, late>>
      BY <1>5, <2>2, Zenon DEF ApplyNewest
    <3>2. GroupInv' /\ Kept
      BY <2>2, <3>1, GroupWaits
    <3>3. group'.boot = group.boot
      BY <3>1 DEF GroupInv, TypeInv, GroupRow
    <3> QED
      BY <1>1, <3>1, <3>2, <3>3 DEF Shown
  <2> QED
    BY <2>1, <2>2
<1>6. CASE ReplayAll(n, intake, active)
  BY <1>6, GroupReplays DEF Shown
<1>7. CASE StoreOrdinary(n, intake, active, cursor)
  BY <1>7, GroupStores DEF Shown
<1> QED
  BY <1>2, <1>3, <1>4, <1>5, <1>6, <1>7 DEF Receive

-----------------------------------------------------------------------------
(* The other steps keep the rumors and the actions that had an effect.     *)

LEMMA GroupUnchanged ==
    ASSUME GroupInv, UNCHANGED <<rumor, group, stored, formal, pending, late>>,
           building' \subseteq building, reading' \in 0..Last
    PROVE  GroupInv' /\ Grows
<1> USE DEF GroupInv
<1>1. TypeInv'
  BY DEF TypeInv
<1>2. Quarantined' = Quarantined /\ Candidates' = Candidates /\ Known' = Known
  BY DEF Quarantined, Candidates, IsMembership, Known
<1>3. UnknownInv' /\ RowInv' /\ WaitingInv'
  BY <1>2 DEF UnknownInv, CanBootstrap, RowInv, WaitingInv
<1>4. ReplayInv' /\ TailInv' /\ NameInv'
  BY <1>2 DEF ReplayInv, BootstrapMembers, TailInv, TailIsNewest, TailCursor, NameInv, Named,
              HasSubject
<1> QED
  BY <1>1, <1>3, <1>4 DEF Grows

(* A group not known yet is edited, or a known one read or hidden.         *)
LEMMA GroupEdited ==
    ASSUME GroupInv, UNCHANGED <<rumor, stored, formal, pending, building, late>>,
           group' \in GroupRow, reading' \in 0..Last,
           group'.boot = group.boot, group'.tail = group.tail, group'.name = group.name,
           group.boot # 0 => group'.members = group.members /\ group'.exists = group.exists,
           group.boot = 0 => \/ Quarantined = {} /\ group'.ours
                             \/ group'.exists = group.exists /\ group'.ours = group.ours
    PROVE  GroupInv' /\ Grows
<1> USE DEF GroupInv
<1>1. TypeInv'
  BY DEF TypeInv
<1>2. Quarantined' = Quarantined /\ Candidates' = Candidates /\ Known' = Known
  BY DEF Quarantined, Candidates, IsMembership, Known
<1>3. UnknownInv' /\ RowInv' /\ WaitingInv'
  BY <1>2 DEF UnknownInv, CanBootstrap, RowInv, WaitingInv
<1>4. ReplayInv' /\ TailInv' /\ NameInv'
  BY <1>2 DEF ReplayInv, BootstrapMembers, TailInv, TailIsNewest, TailCursor, NameInv, Named,
              HasSubject
<1> QED
  BY <1>1, <1>3, <1>4 DEF Grows

(* A message is composed. *)
LEMMA GroupBuilds ==
    ASSUME GroupInv, NEW n \in Position, BuildSend(n) PROVE GroupInv' /\ Grows /\ Kept
<1> USE DEF GroupInv
<1>1. /\ UNCHANGED <<rumor, group, stored, formal, pending, late, reading, notified>>
      /\ building' = building \union {n} /\ (group.boot = 0 => rumor[n].kind = "content")
  BY DEF BuildSend
<1>2. TypeInv'
  BY <1>1 DEF TypeInv
<1>3. Quarantined' = Quarantined /\ Candidates' = Candidates /\ Known' = Known
  BY <1>1 DEF Quarantined, Candidates, IsMembership, Known
<1>4. UnknownInv' /\ RowInv' /\ WaitingInv'
  BY <1>1, <1>3 DEF UnknownInv, CanBootstrap, RowInv, WaitingInv
<1>5. ReplayInv' /\ TailInv' /\ NameInv'
  BY <1>1, <1>3 DEF ReplayInv, BootstrapMembers, TailInv, TailIsNewest, TailCursor, NameInv,
                    Named, HasSubject
<1> QED
  BY <1>1, <1>2, <1>4, <1>5 DEF Grows, Kept

(* What had no effect on a covered part of the history is forgotten. *)
LEMMA GroupFinalizes ==
    ASSUME GroupInv, FinalizeCoveredHistory PROVE GroupInv' /\ Grows /\ Kept
<1> USE DEF GroupInv
<1>1. PICK c \in covered + 1 .. Last :
        pending' = [m \in Position |->
          IF m <= c /\ pending[m] # "archive" THEN None ELSE pending[m]]
  BY DEF FinalizeCoveredHistory
<1>2. UNCHANGED <<rumor, group, stored, formal, building, late, reading, notified>>
  BY DEF FinalizeCoveredHistory
<1>3. TypeInv'
  BY <1>1, <1>2 DEF TypeInv
<1>4. Quarantined' \subseteq Quarantined /\ Candidates' \subseteq Candidates
      /\ (Quarantined \subseteq Candidates => Quarantined' \subseteq Candidates')
  BY <1>1, <1>2 DEF Quarantined, Candidates, IsMembership
<1>5. UnknownInv' /\ RowInv' /\ WaitingInv'
  BY <1>2, <1>4 DEF UnknownInv, CanBootstrap, RowInv, WaitingInv
<1>6. NameInv' /\ TailInv'
  BY <1>2, <1>4 DEF NameInv, Named, HasSubject, TailInv, TailIsNewest, TailCursor
<1>7. Known \in SUBSET Position /\ Known' \in SUBSET Position /\ Known' \subseteq Known
  BY <1>2, <1>4 DEF Known, Candidates, Quarantined, TypeInv
<1>8. ReplayInv'
  <2>1. CASE group.boot = 0
    BY <1>2, <2>1 DEF ReplayInv
  <2>2. CASE group.boot # 0
    BY <1>2, <1>7, <2>2, IneffectiveKept
  <2> QED
    BY <2>1, <2>2
<1> QED
  BY <1>2, <1>3, <1>5, <1>6, <1>8 DEF Grows, Kept

(* What the sends and the arrivals bring to receive(). *)
LEMMA GroupArrives ==
    ASSUME GroupInv, NEW n \in Position, Arrive(n)
    PROVE  GroupInv' /\ Grows /\ \E intake \in Intake : Shown(n, intake)
<1>1. PICK intake \in Intake : \E active, cursor : Receive(n, intake, active, cursor)
  BY Zenon DEF Arrive, Intake, Network
<1>2. Comes(n, intake)
  BY <1>1 DEF Arrive, Elsewhere, Comes
<1> QED
  BY <1>1, <1>2, GroupReceives

(* A composed message comes back as if received. *)
LEMMA GroupCommits ==
    ASSUME GroupInv, NEW n \in Position, CommitSend(n)
    PROVE  GroupInv' /\ Grows /\ \E intake \in Intake : Shown(n, intake)
<1>1. rumor' = rumor /\ building' \subseteq building /\ reading' = reading /\ "local" \in Intake
  BY DEF CommitSend, Intake
<1>2. CASE Receive(n, "local", TRUE, 0)
  <2>1. Comes(n, "local")
    BY <1>1 DEF CommitSend, Comes, GroupInv, UnknownInv, CanBootstrap
  <2> QED
    BY <1>1, <1>2, <2>1, GroupReceives
<1>3. CASE Refused(n) /\ UNCHANGED <<group, stored, formal, inForce, pending, jobs, notified, late>>
  BY <1>1, <1>3, GroupUnchanged DEF Shown, Kept, GroupInv, TypeInv
<1> QED
  BY <1>2, <1>3 DEF CommitSend

(* What a step leaves of the unread count when nothing is received. *)
Recounts ==
    \/ Kept
    \/ UNCHANGED <<stored, notified>> /\ group'.deleted # 0
    \/ UNCHANGED <<stored, notified>> /\ group'.unread = 0
       /\ \A m \in stored : ~ (Visible(m) /\ m > group'.read)
    \/ UNCHANGED <<stored, notified>> /\ MarkUnread
    \/ UNCHANGED <<stored, notified>> /\ reading # 0 /\ reading' = 0
       /\ group'.read = reading /\ group'.unread = 0

(* A draft, a deletion and a mark-as-read. *)
LEMMA GroupLocal ==
    ASSUME GroupInv,
           \/ CreateLocalGroup \/ UpdateLocalRoster \/ AbandonLocalGroup
           \/ DeleteConversation \/ ReadNewest \/ MarkRead
           \/ MarkRequestsRead \/ MarkUnread
    PROVE  rumor' = rumor /\ GroupInv' /\ Grows /\ Recounts
<1> USE DEF GroupInv
<1>1. /\ group \in GroupRow /\ NoGroup \in GroupRow
      /\ reading \in 0..Last /\ stored \in SUBSET Position
  BY Positions DEF TypeInv, GroupRow, NoGroup
<1>2. group.boot = 0 => group.tail = 0 /\ group.name = 0 /\ stored = {}
  <2>1. ASSUME group.boot = 0 PROVE group.name = 0
    <3>1. Named = {}
      BY <2>1 DEF Named, UnknownInv
    <3> QED
      BY <3>1, NewestIsMaximal DEF NameInv
  <2> QED
    BY <2>1 DEF TailInv, UnknownInv
<1>3. CASE CreateLocalGroup
  <2>1. /\ group = NoGroup /\ Quarantined = {}
        /\ group' = [NoGroup EXCEPT !.exists = TRUE, !.ours = TRUE, !.members = Person]
        /\ UNCHANGED <<rumor, stored, formal, pending, building, late, reading, notified>>
    BY <1>3 DEF CreateLocalGroup
  <2>2. /\ group' \in GroupRow /\ group'.boot = 0 /\ group'.tail = 0 /\ group'.name = 0
        /\ group'.ours /\ group'.unread = 0 /\ group.boot = 0
    BY <1>1, <2>1 DEF GroupRow, NoGroup
  <2> QED
    BY <1>1, <1>2, <2>1, <2>2, GroupEdited DEF Recounts
<1>4. CASE UpdateLocalRoster
  <2>1. PICK p \in Person \ {Me} :
          group' = [group EXCEPT !.members = IF p \in @ THEN @ \ {p} ELSE @ \union {p}]
    BY <1>4 DEF UpdateLocalRoster
  <2>2. /\ group.exists /\ group.boot = 0
        /\ UNCHANGED <<rumor, stored, formal, pending, building, late, reading, notified>>
    BY <1>4 DEF UpdateLocalRoster
  <2>3. /\ group' \in GroupRow /\ group'.boot = group.boot /\ group'.tail = group.tail
        /\ group'.name = group.name /\ group'.ours = group.ours /\ group'.read = group.read
        /\ group'.unread = group.unread /\ group'.deleted = group.deleted
    BY <1>1, <2>1 DEF GroupRow
  <2> QED
    BY <1>1, <2>2, <2>3, GroupEdited DEF Recounts, Kept, RowInv, UnknownInv
<1>5. CASE AbandonLocalGroup
  <2>1. /\ group.exists /\ group.boot = 0 /\ group' = [NoGroup EXCEPT !.ours = TRUE]
        /\ UNCHANGED <<rumor, stored, formal, pending, building, late, reading, notified>>
    BY <1>5 DEF AbandonLocalGroup
  <2>2. group' \in GroupRow
    BY <1>1, <2>1 DEF GroupRow
  <2>3. /\ group'.boot = 0 /\ group'.tail = 0 /\ group'.name = 0
        /\ group'.ours /\ group'.unread = 0
    BY <2>1 DEF NoGroup
  <2> QED
    BY <1>1, <1>2, <2>1, <2>2, <2>3, GroupEdited DEF Recounts, RowInv, UnknownInv
<1>6. CASE DeleteConversation
  <2>1. PICK d \in Position : group' = [group EXCEPT !.deleted = d, !.unread = 0]
    BY <1>6, Zenon DEF DeleteConversation
  <2>2. /\ group.boot # 0
        /\ UNCHANGED <<rumor, stored, formal, pending, building, late, reading, notified>>
    BY <1>6, Zenon DEF DeleteConversation
  <2>3. d \in 0..Last /\ d # 0
    BY Positions
  <2>4. /\ group' \in GroupRow /\ group'.boot = group.boot /\ group'.tail = group.tail
        /\ group'.name = group.name /\ group'.members = group.members
        /\ group'.exists = group.exists /\ group'.deleted # 0
    BY <1>1, <2>1, <2>3 DEF GroupRow
  <2> QED
    BY <1>1, <2>2, <2>4, GroupEdited DEF Recounts
<1>7. CASE ReadNewest
  <2>1. {m \in stored : Visible(m)} \in SUBSET (0..Last)
    BY <1>1, Positions
  <2>2. /\ reading' \in 0..Last
        /\ UNCHANGED <<rumor, group, stored, formal, pending, building, late, notified>>
    BY <1>7, <2>1, NewestIsMaximal DEF ReadNewest
  <2> QED
    BY <2>2, GroupUnchanged DEF Recounts, Kept
<1>8. CASE MarkRead
  <2>1. /\ reading # 0 /\ reading' = 0 /\ 0 \in 0..Last
        /\ group' = [group EXCEPT !.read = reading, !.unread = 0]
        /\ UNCHANGED <<rumor, stored, formal, pending, building, late, notified>>
    BY <1>8, Positions DEF MarkRead
  <2>2. /\ group' \in GroupRow /\ group'.boot = group.boot /\ group'.tail = group.tail
        /\ group'.name = group.name /\ group'.members = group.members
        /\ group'.exists = group.exists /\ group'.ours = group.ours
        /\ group'.read = reading /\ group'.unread = 0
    BY <1>1, <2>1 DEF GroupRow
  <2> QED
    BY <1>1, <2>1, <2>2, GroupEdited DEF Recounts
<1>9. CASE MarkRequestsRead
  <2>1. /\ group' = [group EXCEPT !.read = Newest({m \in stored : Visible(m)}), !.unread = 0]
        /\ UNCHANGED <<rumor, stored, formal, pending, building, late, notified, reading>>
    BY <1>9 DEF MarkRequestsRead
  <2>2. {m \in stored : Visible(m)} \in SUBSET (0..Last)
    BY <1>1, Positions
  <2>3. PICK k : k = Newest({m \in stored : Visible(m)})
    OBVIOUS
  <2>4. k \in 0..Last /\ \A m \in {o \in stored : Visible(o)} : m <= k
    BY <2>2, <2>3, NewestIsMaximal
  <2>5. \A m \in stored : ~ (Visible(m) /\ m > k)
    BY <1>1, <2>4, Positions
  <2>6. group' = [group EXCEPT !.read = k, !.unread = 0]
    BY <2>1, <2>3
  <2>7. /\ group' \in GroupRow /\ group'.boot = group.boot /\ group'.tail = group.tail
        /\ group'.name = group.name /\ group'.members = group.members
        /\ group'.exists = group.exists /\ group'.ours = group.ours
        /\ group'.read = k /\ group'.unread = 0
    BY <1>1, <2>4, <2>6 DEF GroupRow
  <2>8. Recounts
    BY <2>1, <2>5, <2>7 DEF Recounts
  <2> QED
    BY <1>1, <2>1, <2>7, <2>8, GroupEdited
<1>10. CASE MarkUnread
  <2>1. /\ group' = [group EXCEPT !.unread = 1]
        /\ UNCHANGED <<rumor, stored, formal, pending, building, late, notified, reading>>
    BY <1>10 DEF MarkUnread
  <2>2. /\ group' \in GroupRow /\ group'.boot = group.boot /\ group'.tail = group.tail
        /\ group'.name = group.name /\ group'.members = group.members
        /\ group'.exists = group.exists /\ group'.ours = group.ours
    BY <1>1, <2>1 DEF GroupRow
  <2>3. Recounts
    BY <1>10, <2>1 DEF Recounts
  <2> QED
    BY <1>1, <2>1, <2>2, <2>3, GroupEdited
<1> QED
  BY <1>3, <1>4, <1>5, <1>6, <1>7, <1>8, <1>9, <1>10

LEMMA GroupNext ==
    ASSUME GroupInv, Next
    PROVE  /\ rumor' = rumor /\ GroupInv' /\ Grows
           /\ Recounts \/ \E n \in Position, intake \in Intake : Shown(n, intake)
<1>1. ASSUME NEW n \in Position, Arrive(n) \/ CommitSend(n)
      PROVE  /\ rumor' = rumor /\ GroupInv' /\ Grows
             /\ \E intake \in Intake : Shown(n, intake)
  <2>1. rumor' = rumor
    BY <1>1, Zenon DEF Arrive, Elsewhere, CommitSend
  <2> QED
    BY <1>1, <2>1, GroupArrives, GroupCommits
<1>2. ASSUME NEW n \in Position, BuildSend(n)
      PROVE  rumor' = rumor /\ GroupInv' /\ Grows /\ Recounts
  BY <1>2, GroupBuilds DEF BuildSend, Recounts
<1>3. CASE FinalizeCoveredHistory
  BY <1>3, GroupFinalizes DEF FinalizeCoveredHistory, Recounts
<1>4. CASE \/ CreateLocalGroup \/ UpdateLocalRoster \/ AbandonLocalGroup
           \/ DeleteConversation \/ ReadNewest \/ MarkRead
           \/ MarkRequestsRead \/ MarkUnread
  BY <1>4, GroupLocal
<1> QED
  BY <1>1, <1>2, <1>3, <1>4 DEF Next

LEMMA GroupStep == GroupInv /\ [Next]_vars => GroupInv'
<1>1. ASSUME GroupInv, UNCHANGED vars PROVE GroupInv'
  BY <1>1, GroupUnchanged DEF vars, GroupInv, TypeInv
<1> QED
  BY <1>1, GroupNext

LEMMA GroupAlways == Spec => []GroupInv
  BY GroupInit, GroupStep, PTL DEF Spec

-----------------------------------------------------------------------------
(* No known action is newer than the tail cursor, so that the incremental  *)
(* path of replayKnownMembership never applies one out of order, whatever  *)
(* waited, was promoted, evicted or finalized before.                      *)
THEOREM TailStaysNewest == Spec => []TailIsNewest
<1>1. GroupInv => TailIsNewest
  BY DEF GroupInv, TailInv
<1> QED
  BY <1>1, GroupAlways, PTL

(* The name of a known group is that of the newest subject stored before   *)
(* its time was covered, in whatever order updateNameState came to see the *)
(* subjects.                                                               *)
THEOREM NamesAreNewest == Spec => []NewestNameWins
<1>1. GroupInv => NewestNameWins
  BY DEF GroupInv, NameInv, Named, NewestNameWins
<1> QED
  BY <1>1, GroupAlways, PTL

(* What UnreadStaysExact and AnnouncedWhenShown say of one step. *)
StaysExact == UnreadIsExact \/ CountedAnew => UnreadIsExact' \/ MarkReadTooLate \/ MarkUnread
AnnouncesShown == \A m \in notified' \ notified :
    m \in stored' \ stored /\ pending[m] \notin {"history", "archive"}

(* Only the second half of a mark-as-read ends one. *)
LEMMA ReadingEnds ==
    ASSUME GroupInv, Next, reading # 0, reading' = 0
    PROVE  UNCHANGED stored /\ group'.unread = 0 /\ group'.read = reading
<1>1. CASE MarkRead
  BY <1>1 DEF MarkRead, GroupInv, TypeInv, GroupRow
<1>2. ~ MarkRead => reading' = reading \/ reading = 0
  BY Zenon DEF Next, Arrive, Elsewhere, BuildSend, CommitSend, CreateLocalGroup, UpdateLocalRoster,
     AbandonLocalGroup, FinalizeCoveredHistory, DeleteConversation, ReadNewest, MarkRequestsRead,
     MarkUnread
<1> QED
  BY <1>1, <1>2

(* A step either recounts, shows and counts, or touches no count. *)
LEMMA StepStaysExact ==
    ASSUME GroupInv, Next PROVE StaysExact
<1> SUFFICES ASSUME UnreadIsExact \/ CountedAnew, ~ MarkReadTooLate, ~ MarkUnread
             PROVE  UnreadIsExact'
  BY DEF StaysExact
<1>1. /\ rumor' = rumor
      /\ Recounts \/ \E n \in Position, intake \in Intake : Shown(n, intake)
  BY GroupNext
<1>3. CASE Kept /\ UnreadIsExact
  BY <1>1, <1>3 DEF Kept, UnreadIsExact, Unread, Visible
<1>4. CASE group'.deleted # 0
  BY <1>4 DEF UnreadIsExact
<1>5. CASE /\ UNCHANGED stored /\ group'.unread = 0
           /\ \A m \in stored : ~ (Visible(m) /\ m > group'.read)
  <2>1. {m \in stored' : Visible(m)' /\ m > group'.read} = {}
    BY <1>1, <1>5 DEF Visible
  <2>2. Cardinality({m \in stored' : Visible(m)' /\ m > group'.read}) = 0
    BY <2>1, FS_EmptySet
  <2> QED
    BY <1>5, <2>2, GroupConstants DEF UnreadIsExact, Unread
<1>6. CASE Counted(group', stored')
  BY <1>1, <1>6 DEF Counted, UnreadIsExact, Unread, Visible
<1>7. CASE reading # 0 /\ reading' = 0
  BY <1>5, <1>7, ReadingEnds DEF MarkReadTooLate
<1>8. CASE stored' # stored
  BY <1>1, <1>6, <1>8 DEF Recounts, Kept, Shown, Shows
<1>9. CASE UnreadIsExact
  BY <1>1, <1>3, <1>4, <1>5, <1>6, <1>9 DEF Recounts, Shown, Shows, MarkReadTooLate
<1> QED
  BY <1>7, <1>8, <1>9 DEF CountedAnew

(* A step announces at most what it shows. *)
LEMMA StepAnnouncesShown ==
    ASSUME GroupInv, Next PROVE AnnouncesShown
<1>1. Recounts \/ \E n \in Position, intake \in Intake : Shown(n, intake)
  BY GroupNext
<1>2. CASE UNCHANGED notified
  BY <1>2 DEF AnnouncesShown
<1>3. ASSUME NEW n, NEW intake, NEW S, Shows(n, S), Notify(S, n, intake) PROVE AnnouncesShown
  BY <1>3 DEF AnnouncesShown, Shows, Notify, None
<1> QED
  BY <1>1, <1>2, <1>3 DEF Recounts, Kept, Shown

(* The unread count stays the number of visible messages after the read    *)
(* cursor through bootstraps, replays that promote several actions, late   *)
(* arrivals, deletions and edits of a draft, but for a mark-as-read that   *)
(* has not seen the newest message and a mark-as-unread, and it is exact   *)
(* again with the next message or mark-as-read in time.                    *)
THEOREM UnreadStays == Spec => UnreadStaysExact
<1>1. GroupInv /\ [Next]_vars => [StaysExact]_vars
  BY StepStaysExact
<1>2. Spec => [][StaysExact]_vars
  BY <1>1, GroupAlways, PTL DEF Spec
<1> QED
  BY <1>2 DEF UnreadStaysExact, StaysExact

(* A rumor is recorded as a notification in the step that stores it, once, *)
(* and not when a history or archive import had brought it.                *)
THEOREM AnnouncedAsShown == Spec => AnnouncedWhenShown
<1>1. GroupInv /\ [Next]_vars => [AnnouncesShown]_vars
  BY StepAnnouncesShown
<1>2. Spec => [][AnnouncesShown]_vars
  BY <1>1, GroupAlways, PTL DEF Spec
<1> QED
  BY <1>2 DEF AnnouncedWhenShown, AnnouncesShown

-----------------------------------------------------------------------------
(* The steps of the group as steps of the ledger.                          *)

LEMMA LedgerReplays ==
    ASSUME NEW log, NEW baseline, NEW cursor, NEW actions
    PROVE  /\ Ledger!ReplayedMembers(log, baseline, cursor, actions)
                = ReplayedMembers(log, baseline, cursor, actions)
           /\ Ledger!AppliedActions(log, baseline, cursor, actions)
                = AppliedActions(log, baseline, cursor, actions)
<1>1. Ledger!Rosters(log, baseline, cursor, actions) = Rosters(log, baseline, cursor, actions)
  BY DEF Ledger!Rosters, Rosters, Ledger!Effect, Effect
<1> QED
  BY <1>1 DEF Ledger!ReplayedMembers, ReplayedMembers, Ledger!AppliedActions, AppliedActions

LEMMA LedgerInit == Init => Ledger!Init
<1> SUFFICES ASSUME Init PROVE Ledger!Init
  OBVIOUS
<1>1. formal = {} /\ Candidates = {} /\ group.boot = 0 /\ rumor \in Histories
  BY DEF Init, Candidates, Quarantined, NoGroup
<1> QED
  BY <1>1 DEF Ledger!Init

LEMMA LedgerStep ==
    ASSUME GroupInv, Next PROVE Ledger!Next
<1>1. rumor' = rumor /\ GroupInv' /\ Grows
  BY GroupNext
<1>2. /\ group.boot \in 0..Last /\ group'.boot \in 0..Last
      /\ group.boot # 0 => group'.boot = group.boot
  BY <1>1 DEF GroupInv, TypeInv, GroupRow, Grows
<1> DEFINE baseline == IF group.boot = 0 THEN {} ELSE BootstrapMembers(group.boot)
           members == IF group.boot = 0 THEN {} ELSE group.members
<1>3. baseline = {} <=> group.boot = 0
  BY <1>2, RumorFacts, LastIsPositive DEF GroupInv, Position
<1>4. baseline' = {} <=> group'.boot = 0
  <2>1. group'.boot # 0 => group'.boot \in Position
    BY <1>2, LastIsPositive DEF Position
  <2>2. group'.boot # 0 => BootstrapMembers(group'.boot) # {}
    BY <2>1, RumorFacts DEF GroupInv
  <2> QED
    BY <1>1, <2>2 DEF BootstrapMembers
<1>5. Ledger!Establish \/ UNCHANGED <<baseline, group.boot>>
  <2>1. CASE group.boot = 0 /\ group'.boot # 0
    BY <1>2, <1>3, <1>4, <2>1, LastIsPositive DEF Ledger!Establish, Ledger!Position
  <2>2. CASE group'.boot = group.boot
    BY <1>1, <2>2 DEF BootstrapMembers
  <2> QED
    BY <1>2, <2>1, <2>2
<1>6. formal \subseteq Known'
  BY <1>1 DEF Grows, Known
<1>7. CASE group'.boot = 0
  <2>1. members' = {} /\ members = {} /\ formal' = formal
    BY <1>1, <1>2, <1>7 DEF Grows
  <2> QED
    BY <1>1, <1>4, <1>5, <1>6, <1>7, <2>1 DEF Ledger!Next, Ledger!Revise, Known
<1>8. CASE group'.boot # 0
  <2> DEFINE base == BootstrapMembers(group'.boot)
  <2>1. baseline' = base /\ BootstrapMembers(group.boot)' = base
    BY <1>1, <1>8 DEF BootstrapMembers
  <2>2. /\ group'.members = ReplayedMembers(rumor, base, group'.boot, Known')
        /\ AppliedActions(rumor, base, group'.boot, Known') \subseteq formal'
    BY <1>1, <1>8, <2>1 DEF GroupInv, ReplayInv
  <2>3. formal' = formal \union AppliedActions(rumor, base, group'.boot, Known')
    BY <1>1, <1>8, <2>2 DEF Grows
  <2> HIDE DEF base
  <2>4. /\ members' = Ledger!ReplayedMembers(rumor, base, group'.boot, Known')
        /\ formal' = formal \union Ledger!AppliedActions(rumor, base, group'.boot, Known')
    BY <1>8, <2>2, <2>3, LedgerReplays
  <2> QED
    BY <1>1, <1>4, <1>5, <1>6, <1>8, <2>1, <2>4 DEF Ledger!Next, Ledger!Revise, Known
<1> QED
  BY <1>7, <1>8

(* The incremental path, the quarantine and its eviction, finality and the *)
(* promotions implement MembershipLedger: after every step the members are *)
(* those the replay of the known actions gives, in whatever order they     *)
(* came, and an action that ever had an effect is kept.                    *)
THEOREM MembersAreReplayed == Spec => MembershipIsReplay
<1>1. GroupInv /\ [Next]_vars => [Ledger!Next]_(Ledger!vars)
  <2>1. ASSUME UNCHANGED vars PROVE UNCHANGED Ledger!vars
    BY <2>1 DEF vars, Ledger!vars, BootstrapMembers, Candidates, Quarantined, IsMembership
  <2> QED
    BY <2>1, LedgerStep
<1> QED
  BY <1>1, LedgerInit, GroupAlways, PTL DEF Spec, MembershipIsReplay, Ledger!Spec
=============================================================================
