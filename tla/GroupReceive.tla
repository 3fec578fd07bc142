---------------------------- MODULE GroupReceive ----------------------------
(***************************************************************************)
(* One group of one account: group/group-receive.service.ts, the sends of  *)
(* dm.service that pass through it, and group/group.service.ts.            *)
(*                                                                         *)
(* receive() is one transaction, so one action here.  What it read before: *)
(* the coverage of an envelope first seen earlier, the roster a message    *)
(* was built for.  An early return that changes nothing is no action.      *)
(***************************************************************************)
EXTENDS GroupMembership

CONSTANTS
  Me,         \* the account
  Person,     \* everybody
  Histories,  \* what may have been said in the group
  GroupCap,   \* bound: GROUP_PENDING_CAP
  UnreadCap   \* UNREAD_CAP: the count goes no further

ASSUME GroupConstants ==
  /\ Me \in Person
  /\ Histories \subseteq
       [Position -> [kind: {"content", "reaction", "invite", "remove", "rename"},
                     author: Person, target: Person, audience: SUBSET Person]]
  /\ GroupCap \in Nat /\ UnreadCap \in Nat \ {0}

VARIABLES
  rumor,      \* the rumors of the group, by position; drawn once
  group,      \* its row in conversations
  stored,     \* messages
  formal,     \* group_member_actions
  inForce,    \* those of them flagged applied
  pending,    \* pending_group_rumors: the intake of each row
  jobs,       \* messages ever given a relay job
  covered,    \* history is complete up to here (0: not complete)
  building,   \* own rumors built from a roster read, not yet received
  built,      \* own rumors ever built on this device
  notified,   \* rumors ever recorded as notification events
  late,       \* stored rumors whose time was covered when they came
  reading     \* the newest message a mark-as-read has seen (0: none runs)

vars == <<rumor, group, stored, formal, inForce, pending, jobs, covered,
          building, built, notified, late, reading>>

None == "none"
Network == {"live", "history"}      \* recovery counts as live

NoGroup == [exists |-> FALSE, ours |-> FALSE, boot |-> 0, members |-> {}, tail |-> 0,
            name |-> 0, read |-> 0, unread |-> 0, deleted |-> 0]

-----------------------------------------------------------------------------
(* What a rumor is. *)
IsMembership(n) == rumor[n].kind \in {"invite", "remove"}
IsAction(n) == IsMembership(n) \/ rumor[n].kind = "rename"
HasSubject(n) == rumor[n].kind \in {"content", "invite", "rename"}
Visible(n) == rumor[n].kind # "reaction"
CanBootstrap(n) == rumor[n].kind \in {"content", "invite"}

BootstrapMembers(n) == rumor[n].audience \union {rumor[n].author}

(* receive() drops what is not for the account or is malformed. *)
Addressed(n) ==
  /\ Me \in BootstrapMembers(n)
  /\ rumor[n].kind = "invite" => rumor[n].target \in rumor[n].audience
  /\ rumor[n].kind = "remove" =>
       rumor[n].target \in BootstrapMembers(n)

(* Covered by the history that was complete when the envelope was seen.    *)
(* Archives and local sends bring no cursor.                               *)
Finalized(n, intake, cursor) == intake \in Network /\ n <= cursor

Quarantined == {n \in Position : pending[n] # None}
Candidates == {n \in Quarantined : IsMembership(n)}

(***************************************************************************)
(* quarantine: the row, then the oldest beyond the cap, ordinary ones      *)
(* first, go.                                                              *)
(***************************************************************************)
QuarantinedWith(n, intake) ==
  LET rows == Quarantined \union {n}
      Before(m, k) == IF IsAction(m) = IsAction(k) THEN m > k ELSE IsAction(m)
      kept == {k \in rows : Cardinality({m \in rows : Before(m, k)}) < GroupCap}
  IN  [m \in Position |-> IF m \notin kept THEN None
                          ELSE IF m = n THEN intake ELSE pending[m]]

(* insertGroupMessage of several rumors; a local one brings its relay job. *)
Insert(S, n, intake) ==
  /\ stored' = stored \union S
  /\ jobs' = IF intake = "local" /\ n \in S THEN jobs \union {n} ELSE jobs

(* Mutant: the rumors just inserted decide, whatever the name's age.        *)
NameOfArrival(name, S, finalized) ==
  LET named == {m \in S \ finalized : HasSubject(m)}
  IN  IF named = {} THEN name ELSE Newest(named)

(* updateNameState over the rumors inserted: the newest subject wins,      *)
(* finalized ones do not count.                                            *)
NameWith(name, S, finalized) ==
  Newest({name} \union {m \in S \ finalized : HasSubject(m)})

(* countUnread: the visible messages after the read cursor, up to the cap. *)
Unread(rows, read) ==
  LET count == Cardinality({m \in rows : Visible(m) /\ m > read})
  IN  IF count < UnreadCap THEN count ELSE UnreadCap

(* Mutant: the count is advanced by the rumor received.                     *)
RefreshedByOne(g, n, active, rows) ==
  IF g.deleted # 0 /\ n <= g.deleted THEN g
  ELSE LET read == IF rumor[n].author = Me \/ active
                   THEN Newest({g.read, n}) ELSE g.read
       IN  [g EXCEPT !.deleted = 0, !.read = read,
              !.unread = IF n <= read \/ ~Visible(n) THEN IF read # g.read THEN 0 ELSE @
                         ELSE IF @ < UnreadCap THEN @ + 1 ELSE @]

(***************************************************************************)
(* refreshConversationMessageState, for the rumor n being received: the    *)
(* unread count is counted again, and a rumor newer than the deletion      *)
(* brings the conversation back.                                           *)
(***************************************************************************)
Refreshed(g, n, active, rows) ==
  IF g.deleted # 0 /\ n <= g.deleted THEN g
  ELSE LET read == IF rumor[n].author = Me \/ active
                   THEN Newest({g.read, n}) ELSE g.read
       IN  [g EXCEPT !.deleted = 0, !.read = read, !.unread = Unread(rows, read)]

(* Mutant: what waited is announced however it had arrived.                 *)
NotifyAll(S, n, intake) ==
  notified' = IF intake # "live" THEN notified
              ELSE notified \union {m \in S : rumor[m].author # Me}

(* recordNotificationEvent for what became visible.  The rumor received is *)
(* eligible, a promoted one if it was when it arrived.                     *)
Notify(S, n, intake) ==
  notified' = IF intake # "live" THEN notified
              ELSE notified \union
                   {m \in S : /\ rumor[m].author # Me
                              /\ m = n \/ pending[m] = "live"}

(* What only receive() through the network leaves alone. *)
Elsewhere == UNCHANGED <<rumor, covered, building, built, reading>>
-----------------------------------------------------------------------------
(***************************************************************************)
(* The first rumor that can initialize the group does.  Quarantined        *)
(* actions are replayed from its roster, those that apply are promoted;    *)
(* other rumors are promoted if their author is in it, else discarded.     *)
(***************************************************************************)
Bootstrap(n, intake, active, cursor) ==
  /\ ~group.exists /\ CanBootstrap(n)
  /\ LET base == BootstrapMembers(n)
         due == AppliedActions(rumor, base, n, Candidates)
         accepted == {m \in Quarantined \ Candidates : rumor[m].author \in base}
         promoted == due \union accepted
         finalized == {m \in promoted : /\ intake \in Network
                                        /\ pending[m] # "archive"
                                        /\ m <= cursor}
         named == NameWith(n, promoted, finalized)
     IN /\ Insert({n} \union promoted, n, intake)
        /\ formal' = formal \union due /\ inForce' = due
        /\ pending' = [m \in Position |-> IF m \in Candidates \ due
                                          THEN pending[m] ELSE None]
        /\ group' = Refreshed(
             [NoGroup EXCEPT !.exists = TRUE, !.boot = n, !.name = named,
                !.members = ReplayedMembers(rumor, base, n, Candidates),
                !.tail = ReplayTail(n, Candidates)],
             n, active, stored')
        /\ Notify({n} \union promoted, n, intake)
        /\ late' = late \union finalized

(* Nothing else can: it waits in quarantine. *)
WaitForBootstrap(n, intake) ==
  /\ ~group.exists /\ ~CanBootstrap(n)
  /\ n \notin Quarantined
  /\ pending' = QuarantinedWith(n, intake)
  /\ UNCHANGED <<group, stored, formal, inForce, jobs, notified, late>>

(* The first content of a group created here establishes it, if the        *)
(* roster is still the one it was built for.                               *)
EstablishDraft(n, intake) ==
  /\ group.exists /\ group.boot = 0
  /\ intake = "local" /\ rumor[n].kind = "content"
  /\ group.members = BootstrapMembers(n)
  /\ Insert({n}, n, intake)
  /\ group' = Refreshed([group EXCEPT !.boot = n,
                           !.name = NameWith(@, {n}, {})],
                        n, TRUE, stored')
  /\ UNCHANGED <<formal, inForce, pending, notified, late>>
-----------------------------------------------------------------------------
(* replayKnownMembership: an action that is not known yet. *)
UnknownAction(n) ==
  /\ group.boot # 0 /\ IsMembership(n)
  /\ n \notin stored \union formal \union Quarantined

TailCursor == IF group.tail = 0 THEN group.boot ELSE group.tail

(* Mutants: the incremental path taken for any action; an action that waits *)
(* does not move the tail.                                                  *)
ApplyIncrementally(n, intake, active) ==
  /\ UnknownAction(n)
  /\ rumor[n].author \in group.members
  /\ formal' = formal \union {n} /\ inForce' = inForce \union {n}
  /\ Insert({n}, n, intake)
  /\ group' = Refreshed([group EXCEPT !.tail = Newest({@, n}),
                           !.members = Effect(rumor[n], @),
                           !.name = NameWith(@, {n}, {})],
                        n, active, stored')
  /\ Notify({n}, n, intake)
  /\ UNCHANGED <<pending, late>>
WaitKeepingTail(n, intake, active) ==
  /\ UnknownAction(n) /\ n > TailCursor
  /\ rumor[n].author \notin group.members
  /\ pending' = QuarantinedWith(n, intake)
  /\ UNCHANGED <<group, stored, formal, inForce, jobs, notified, late>>

(* The usual case: newer than every action seen, it is applied to the      *)
(* current members, or waits when its author is none of them.              *)
ApplyNewest(n, intake, active) ==
  /\ UnknownAction(n) /\ n > TailCursor
  /\ \/ /\ rumor[n].author \in group.members
        /\ formal' = formal \union {n} /\ inForce' = inForce \union {n}
        /\ Insert({n}, n, intake)
        /\ group' = Refreshed([group EXCEPT !.tail = n,
                                 !.members = Effect(rumor[n], @),
                                 !.name = NameWith(@, {n}, {})],
                              n, active, stored')
        /\ Notify({n}, n, intake)
        /\ UNCHANGED <<pending, late>>
     \/ /\ rumor[n].author \notin group.members
        /\ pending' = QuarantinedWith(n, intake)
        /\ group' = [group EXCEPT !.tail = n]
        /\ UNCHANGED <<stored, formal, inForce, jobs, notified, late>>

(***************************************************************************)
(* An older one joins the quarantine and everything known is replayed from *)
(* the bootstrap roster.  What applies for the first time is promoted; the *)
(* others only have their flag set.                                        *)
(***************************************************************************)
ReplayAll(n, intake, active) ==
  /\ UnknownAction(n) /\ n <= TailCursor
  /\ LET rows == QuarantinedWith(n, intake)
         base == BootstrapMembers(group.boot)
         records == formal \union {m \in Position : rows[m] # None /\ IsMembership(m)}
         due == AppliedActions(rumor, base, group.boot, records)
         promoted == due \ formal
         replayed == [group EXCEPT
                        !.members = ReplayedMembers(rumor, base, group.boot, records),
                        !.tail = ReplayTail(group.boot, records),
                        !.name = NameWith(@, promoted, {})]
     IN /\ formal' = formal \union promoted
        /\ inForce' = due
        /\ pending' = [m \in Position |-> IF m \in promoted THEN None ELSE rows[m]]
        /\ Insert(promoted, n, intake)
        /\ group' = IF promoted = {} THEN replayed
                    ELSE Refreshed(replayed, n, active, stored')
        /\ Notify(promoted, n, intake)
        /\ UNCHANGED late

(* Anything else is stored when its author is a member now. *)
StoreOrdinary(n, intake, active, cursor) ==
  /\ group.boot # 0 /\ ~IsMembership(n)
  /\ n \notin stored
  /\ rumor[n].author \in group.members
  /\ LET finalized == {m \in {n} : Finalized(m, intake, cursor)}
     IN /\ Insert({n}, n, intake)
        /\ group' = Refreshed([group EXCEPT !.name = NameWith(@, {n}, finalized)],
                              n, active, stored')
        /\ late' = late \union finalized
  /\ Notify({n}, n, intake)
  /\ UNCHANGED <<formal, inForce, pending>>

Receive(n, intake, active, cursor) ==
  /\ Addressed(n)
  /\ ~(Finalized(n, intake, cursor) /\ IsAction(n))
  /\ \/ Bootstrap(n, intake, active, cursor)
     \/ WaitForBootstrap(n, intake)
     \/ EstablishDraft(n, intake)
     \/ ApplyNewest(n, intake, active)
     \/ ReplayAll(n, intake, active)
     \/ StoreOrdinary(n, intake, active, cursor)
-----------------------------------------------------------------------------
(***************************************************************************)
(* A wrap or an archived rumor arrives, once or again.  The cursor is the  *)
(* coverage of an earlier moment.  A rumor built here comes back only      *)
(* after a relay job took it away.  Nobody writes to a draft.              *)
(***************************************************************************)
Arrive(n) ==
  /\ n \in built => n \in jobs
  /\ group.ours => group.boot # 0
  /\ \E cursor \in 0..covered :
       \/ \E active \in BOOLEAN :
            /\ active => group.exists
            /\ Receive(n, "live", active, cursor)
       \/ \E intake \in {"history", "archive"} :
            Receive(n, intake, FALSE, cursor)
  /\ Elsewhere

(* sendGroupMessage, sendGroupReaction, sendGroupAction: the rumor is      *)
(* built for the roster read, after loadWritableGroup let it pass.         *)
BuildSend(n) ==
  LET r == rumor[n] IN
  /\ r.author = Me /\ n \notin built \union stored \union Quarantined
  /\ group.exists /\ Me \in group.members
  /\ r.kind # "content" => group.boot # 0
  /\ r.kind = "invite" => r.target \notin group.members
  /\ r.kind = "remove" => r.target \in group.members
  /\ r.audience = (IF r.kind = "invite" THEN group.members \union {r.target}
                                        ELSE group.members) \ {Me}
  /\ building' = building \union {n}
  /\ built' = built \union {n}
  /\ UNCHANGED <<rumor, group, stored, formal, inForce, pending, jobs, covered,
                 notified, late, reading>>

(* The roster of a draft was edited, or the account removed, in between. *)
Refused(n) ==
  /\ group.exists
  /\ IF group.boot = 0 THEN group.members # BootstrapMembers(n)
     ELSE ~IsMembership(n) /\ Me \notin group.members

CommitSend(n) ==
  /\ n \in building
  /\ building' = building \ {n}
  /\ \/ Receive(n, "local", TRUE, 0)
     \/ /\ Refused(n)
        /\ UNCHANGED <<group, stored, formal, inForce, pending, jobs, notified, late>>
  /\ UNCHANGED <<rumor, covered, built, reading>>
-----------------------------------------------------------------------------
(* createLocalGroup, under a new identity; updateLocalRoster;              *)
(* abandonLocalGroup.  Only a group without a bootstrap is edited.         *)
CreateLocalGroup ==
  /\ group = NoGroup /\ Quarantined = {}
  /\ group' = [NoGroup EXCEPT !.exists = TRUE, !.ours = TRUE,
                              !.members = Person]
  /\ UNCHANGED <<rumor, stored, formal, inForce, pending, jobs, covered,
                 building, built, notified, late, reading>>

UpdateLocalRoster ==
  /\ group.exists /\ group.boot = 0
  /\ \E p \in Person \ {Me} :
       group' = [group EXCEPT !.members = IF p \in @ THEN @ \ {p}
                                                     ELSE @ \union {p}]
  /\ UNCHANGED <<rumor, stored, formal, inForce, pending, jobs, covered,
                 building, built, notified, late, reading>>

AbandonLocalGroup ==
  /\ group.exists /\ group.boot = 0
  /\ group' = [NoGroup EXCEPT !.ours = TRUE]
  /\ UNCHANGED <<rumor, stored, formal, inForce, pending, jobs, covered,
                 building, built, notified, late, reading>>

(* finalizeCoveredHistory, when every relay has been read to its end. *)
FinalizeCoveredHistory ==
  /\ \E c \in covered + 1 .. Last :
       /\ covered' = c
       /\ pending' = [m \in Position |->
            IF m <= c /\ pending[m] # "archive" THEN None ELSE pending[m]]
  /\ UNCHANGED <<rumor, group, stored, formal, inForce, jobs,
                 building, built, notified, late, reading>>

(* deleteConversation hides an established group; d is the local clock's   *)
(* place among the rumors.                                                 *)
DeleteConversation ==
  /\ group.boot # 0 /\ group.deleted = 0
  /\ \E d \in Position :
       group' = [group EXCEPT !.deleted = d, !.unread = 0]
  /\ UNCHANGED <<rumor, stored, formal, inForce, pending, jobs, covered,
                 building, built, notified, late, reading>>

(* markConversationAsRead: the newest message is read, then the cursor and *)
(* the count are written, in two statements.                               *)
ReadNewest ==
  /\ group.boot # 0 /\ group.deleted = 0 /\ reading = 0
  /\ reading' = Newest({m \in stored : Visible(m)})
  /\ UNCHANGED <<rumor, group, stored, formal, inForce, pending, jobs, covered,
                 building, built, notified, late>>

MarkRead ==
  /\ reading # 0 /\ reading' = 0
  /\ group' = [group EXCEPT !.read = reading, !.unread = 0]
  /\ UNCHANGED <<rumor, stored, formal, inForce, pending, jobs, covered,
                 building, built, notified, late>>

(* markAllRequestConversationsAsRead does both in one; which groups are    *)
(* requests (hasReplied) is left open.                                     *)
MarkRequestsRead ==
  /\ group.boot # 0 /\ group.deleted = 0 /\ group.unread > 0
  /\ group' = [group EXCEPT !.read = Newest({m \in stored : Visible(m)}), !.unread = 0]
  /\ UNCHANGED <<rumor, stored, formal, inForce, pending, jobs, covered,
                 building, built, notified, late, reading>>

(* markConversationAsUnread, a reminder.  The list offers it for a count   *)
(* of zero, which may be an older one.                                     *)
MarkUnread ==
  /\ group.exists
  /\ group' = [group EXCEPT !.unread = 1]
  /\ UNCHANGED <<rumor, stored, formal, inForce, pending, jobs, covered,
                 building, built, notified, late, reading>>
-----------------------------------------------------------------------------
Init ==
  /\ rumor \in Histories
  /\ group = NoGroup
  /\ stored = {} /\ formal = {} /\ inForce = {}
  /\ pending = [n \in Position |-> None]
  /\ jobs = {} /\ covered = 0
  /\ building = {} /\ built = {} /\ notified = {} /\ late = {}
  /\ reading = 0

Next ==
  \/ \E n \in Position : Arrive(n) \/ BuildSend(n) \/ CommitSend(n)
  \/ CreateLocalGroup
  \/ UpdateLocalRoster
  \/ AbandonLocalGroup
  \/ FinalizeCoveredHistory
  \/ DeleteConversation
  \/ ReadNewest
  \/ MarkRead
  \/ MarkRequestsRead
  \/ MarkUnread

Spec == Init /\ [][Next]_vars
-----------------------------------------------------------------------------
Ledger == INSTANCE MembershipLedger WITH
  log <- rumor,
  baseline <- IF group.boot = 0 THEN {} ELSE BootstrapMembers(group.boot),
  cursor <- group.boot,
  known <- formal \union Candidates,
  applied <- formal,
  members <- IF group.boot = 0 THEN {} ELSE group.members

(* The incremental path, the quarantine and its eviction, finality and the *)
(* promotions implement the ledger: the members are those the replay of    *)
(* the known actions gives, in whatever order they came, and an action     *)
(* that ever had an effect is kept.                                        *)
MembershipIsReplay == Ledger!Spec

(* The tail cursor is not older than any action known, else the            *)
(* incremental path would apply an action out of order.                    *)
TailIsNewest ==
  group.boot # 0 => \A m \in formal \union Candidates : m <= TailCursor

(* The name is that of the newest subject accepted before its time was     *)
(* covered, however promotions and late content interleave.                *)
NewestNameWins ==
  group.boot # 0 => group.name = Newest({m \in stored \ late : HasSubject(m)})

(* The unread count stays that of the visible messages after the read      *)
(* cursor, promotions and late arrivals included, but for a mark-as-read   *)
(* that has not seen the newest message and a mark-as-unread; whatever of  *)
(* these made it inexact, the next message stored, or a mark-as-read in    *)
(* time, makes it exact again.                                             *)
UnreadIsExact == group.deleted = 0 => group.unread = Unread(stored, group.read)

MarkReadTooLate ==
  reading # 0 /\ reading' = 0 /\ \E m \in stored : Visible(m) /\ m > reading

CountedAnew == stored' # stored \/ (reading # 0 /\ reading' = 0)

UnreadStaysExact ==
  [][UnreadIsExact \/ CountedAnew
       => UnreadIsExact' \/ MarkReadTooLate \/ MarkUnread]_vars

(* A rumor is announced in the step that shows it, and not when it waited  *)
(* there since a history or archive import.                                *)
AnnouncedWhenShown ==
  [][\A m \in notified' \ notified :
       m \in stored' \ stored /\ pending[m] \notin {"history", "archive"}]_vars
=============================================================================
