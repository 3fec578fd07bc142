---------------------------- MODULE ConfigPublish ----------------------------
(***************************************************************************)
(* services/relay/configuration-publish.service.ts with                    *)
(* private-list-sync.service.ts: how signed replaceable events (profiles,  *)
(* relay lists, private lists) of the active account reach a majority of   *)
(* the account's relays, through the durable outbox or by a publication    *)
(* the user waits for, while other devices publish newer ones.             *)
(*                                                                         *)
(* The events of one coordinate are ordered by time and id and identified  *)
(* here by their rank in that order; NoEvent ranks below all.  A step is   *)
(* one synchronous stretch and the statement or transaction it issues.     *)
(* Deadlines are abstracted to being due; the batch limit is not reached.  *)
(***************************************************************************)
EXTENDS Integers, FiniteSets

CONSTANTS
    Slot,           \* replaceable coordinates (account, kind, d tag)
    Private,        \* contacts, mute and block lists: kind 30000
    Manual,         \* kinds 10002, 10050 and 10063, edited by hand
    Merged,         \* kind 10002: an edit is merged with the declaration
    Repaired,       \* kinds 10044 and 10050: queued again if relays lack them
    Relay,
    MaxRank,        \* bound: events of one coordinate
    MaxEdits,       \* bound: edits by this device's user
    MaxEvents       \* bound: session, network, app state, routing, crashes

ASSUME ConfigConstants ==
    /\ Private \subseteq Slot /\ Manual \subseteq Slot \ Private
    /\ Merged \subseteq Manual /\ Repaired \subseteq Slot \ (Private \cup Merged)
    /\ Relay # {} /\ IsFiniteSet(Relay)
    /\ MaxRank \in Nat /\ MaxEdits \in Nat /\ MaxEvents \in Nat

VARIABLES
    (* The database. *)
    cached,         \* replaceable_events: the newest known event
    pending,        \* configuration_outbox
    content,        \* the local tables the coordinate is about
    list,           \* private_list_sync_state
    routes,         \* the relays the local configuration routes to
    (* ConfigurationPublisher. *)
    session,        \* a session is set
    online, foreground,
    waking,         \* wake(true) has advanced the deadlines, not yet woken
    requested, timer,
    flushing,       \* "no", "deliver", or "close" after the last query
    flushCurrent,   \* the session flush captured is still the session
    more,           \* what that query found
    delivery,       \* deliver(), per row of the batch
    (* The jobs that sign. *)
    edit,           \* publishConfiguration and publishConfigurationAndWait
    signedAt,       \* confirmedSignedAt
    job,            \* queuePrivateListPublication
    reconcile,      \* the remote event being decrypted to be applied
    (* Observation and bounds. *)
    made,           \* what each event carries; Unsigned if nobody signed it
    ackedBy,        \* relays that acknowledged the event
    reached,        \* events a majority of the routing targets had
    confirmed,      \* events of waited publications with a majority
    handed,         \* events of waited publications of this process life
    edits, events

bounds    == <<edits, events>>
rows      == <<cached, pending, content, list>>
publisher == <<session, online, foreground, waking, requested, timer>>
loop      == <<flushing, flushCurrent, more>>
flush     == <<loop, delivery>>
signing   == <<edit, signedAt, job, reconcile>>
observed  == <<made, ackedBy, reached, confirmed, handed>>
outside   == <<rows, routes, publisher, flush>>     \* of the jobs that sign
vars      == <<rows, routes, publisher, flush, signing, observed, bounds>>

(* What an event or a local table says: nothing, an edit of this device,   *)
(* or what the event of that rank says that another device signed.         *)
Nothing  == <<"nothing", 0>>
Unsigned == <<"unsigned", 0>>
Own      == {"own"} \X (1..MaxEdits)
Other    == {"other"} \X (1..MaxRank)

NoEvent == 0
Event   == 1..MaxRank
Ranks   == 0..MaxRank

NoRow      == [event |-> NoEvent, acks |-> {}, due |-> FALSE]
NoDelivery == [stage |-> "none", event |-> NoEvent, acks |-> {}, targets |-> {}]
NoEdit     == [stage |-> "none", text |-> Nothing, wait |-> FALSE, base |-> NoEvent,
               after |-> NoEvent, event |-> NoEvent, targets |-> {}]
NoJobHere  == [stage |-> "none", again |-> FALSE, revision |-> 0,
               text |-> Nothing, previous |-> NoEvent]

Init ==
    /\ cached = [s \in Slot |-> NoEvent] /\ pending = [s \in Slot |-> NoRow]
    /\ content = [s \in Slot |-> Nothing]
    /\ list = [s \in Slot |-> [revision |-> 0, dirty |-> FALSE, event |-> NoEvent]]
    /\ routes \in SUBSET Relay \ {{}}
    /\ session = FALSE /\ online = TRUE /\ foreground = TRUE
    /\ waking = FALSE /\ requested = FALSE /\ timer = FALSE
    /\ flushing = "no" /\ flushCurrent = FALSE /\ more = FALSE
    /\ delivery = [s \in Slot |-> NoDelivery]
    /\ edit = [s \in Slot |-> NoEdit] /\ signedAt = [s \in Slot |-> NoEvent]
    /\ job = [s \in Slot |-> NoJobHere] /\ reconcile = [s \in Slot |-> NoEvent]
    /\ made = [s \in Slot |-> [e \in Event |-> Unsigned]]
    /\ ackedBy = [s \in Slot |-> [e \in Event |-> {}]]
    /\ reached = [s \in Slot |-> {}] /\ confirmed = [s \in Slot |-> {}]
    /\ handed = [s \in Slot |-> {}]
    /\ edits = 0 /\ events = 0

-----------------------------------------------------------------------------
Newest(a, b) == IF a > b THEN a ELSE b

(* configurationPublishQuorum: a strict majority of the targets.           *)
Quorum(targets, acks) ==
    Cardinality(targets \cap acks) >= Cardinality(targets) \div 2 + 1

Unmade(s) == {e \in Event : made[s][e] = Unsigned}

CanRun == session /\ online /\ foreground

(* wake(): remembered while a flush runs, scheduled otherwise.             *)
Wake ==
    IF session
    THEN /\ requested' = TRUE
         /\ timer' = (timer \/ (CanRun /\ flushing = "no"))
    ELSE UNCHANGED <<requested, timer>>

(* A relay's acknowledgements, and which events have a majority with them. *)
Acknowledge(s, e, oks) ==
    /\ ackedBy' = [ackedBy EXCEPT ![s][e] = @ \cup oks]
    /\ reached' = [t \in Slot |-> reached[t] \cup
                      {f \in Event : Quorum(routes, ackedBy'[t][f])}]

-----------------------------------------------------------------------------
(* enqueueConfigurationEvent: one transaction. *)

(* Mutation: a newer event in the cache is not looked at.                  *)
AcceptsIfNewerThanPending(s, e) == e > pending[s].event

(* Whether the signed event may replace what is pending and cached.        *)
Accepts(s, e) == e > pending[s].event /\ e >= cached[s]

Enqueue(s, e) ==
    /\ pending' = [pending EXCEPT ![s] = [event |-> e, acks |-> {}, due |-> TRUE]]
    /\ cached' = [cached EXCEPT ![s] = e]
    /\ Wake
    /\ UNCHANGED <<session, online, foreground, waking>>

(* messaging-metadata: a declaration that relays lack is queued again.     *)
Requeue(s) ==
    /\ s \in Repaired /\ cached[s] # NoEvent
    /\ events < MaxEvents /\ events' = events + 1
    /\ \/ /\ Accepts(s, cached[s])
          /\ Enqueue(s, cached[s])
       \/ /\ pending[s].event = cached[s]      \* it waits already: wake only
          /\ Wake
          /\ UNCHANGED <<cached, pending, session, online, foreground, waking>>
    /\ UNCHANGED <<content, list, routes, flush, signing, observed, edits>>

-----------------------------------------------------------------------------
(* publishConfiguration and publishConfigurationAndWait. *)

(* The jobs of a coordinate are serialized.  A relay list (kind 10002) is  *)
(* queued by the setup of an account that has none, and by nothing else.   *)
StartEdit(s, wait) ==
    /\ s \notin Private /\ edits < MaxEdits /\ edit[s].stage = "none"
    /\ IF wait THEN s \in Manual ELSE s \in Merged => cached[s] = NoEvent
    /\ edits' = edits + 1
    /\ edit' = [edit EXCEPT ![s] = [NoEdit EXCEPT
           !.stage = "read", !.text = <<"own", edits'>>, !.wait = wait, !.base = cached[s]]]
    /\ UNCHANGED <<outside, signedAt, job, reconcile, observed, events>>

(* Mutation: an earlier attempt of this session is forgotten.              *)
ReadPendingAndCached(s) ==
    /\ edit[s].stage = "read"
    /\ edit' = [edit EXCEPT ![s].stage = "sign",
                            ![s].after = Newest(cached[s], pending[s].event)]
    /\ UNCHANGED <<outside, signedAt, job, reconcile, observed, bounds>>

(* The timestamps the next event has to exceed.                            *)
ReadLatest(s) ==
    LET latest == Newest(cached[s], pending[s].event)
    IN  /\ edit[s].stage = "read"
        /\ edit' = [edit EXCEPT ![s].stage = "sign",
               ![s].after = IF edit[s].wait THEN Newest(latest, signedAt[s]) ELSE latest]
        /\ UNCHANGED <<outside, signedAt, job, reconcile, observed, bounds>>

(* expectedPreviousEventId, as the outbox compares it.                     *)
BaseIsCached(s) == s \in Merged => cached[s] = edit[s].base

SignAndQueue(s) ==
    /\ edit[s].stage = "sign" /\ ~ edit[s].wait
    /\ \E e \in Unmade(s) :
           /\ e > edit[s].after
           /\ made' = [made EXCEPT ![s][e] = edit[s].text]
           /\ IF BaseIsCached(s) /\ Accepts(s, e)
              THEN /\ Enqueue(s, e)
                   /\ content' = [content EXCEPT ![s] = edit[s].text]
              ELSE UNCHANGED <<cached, pending, content, publisher>>
    /\ edit' = [edit EXCEPT ![s] = NoEdit]
    /\ UNCHANGED <<list, routes, flush, signedAt, job, reconcile, ackedBy, reached>>
    /\ UNCHANGED <<confirmed, handed, bounds>>

(* Mutation: only a newer event counts as a change of the base.            *)
BaseIsOlder(s, e) == cached[s] <= e /\ pending[s].event <= e

(* checkBase of a waited publication; an echo of the event is accepted.    *)
BaseHolds(s, e) ==
    /\ cached[s] <= e /\ pending[s].event <= e
    /\ s \in Merged => cached[s] \in {edit[s].base, e}

SignAndCheck(s) ==
    /\ edit[s].stage = "sign" /\ edit[s].wait
    /\ \E e \in Unmade(s) :
           /\ e > edit[s].after
           /\ made' = [made EXCEPT ![s][e] = edit[s].text]
           /\ signedAt' = [signedAt EXCEPT ![s] = e]
           /\ edit' = [edit EXCEPT ![s] =
                  IF BaseHolds(s, e) THEN [@ EXCEPT !.stage = "route", !.event = e] ELSE NoEdit]
    /\ UNCHANGED <<outside, job, reconcile, ackedBy, reached, confirmed, handed, bounds>>

EditRoute(s) ==
    /\ edit[s].stage = "route"
    /\ edit' = [edit EXCEPT ![s].stage = "publish", ![s].targets = routes]
    /\ handed' = [handed EXCEPT ![s] = @ \cup {edit[s].event}]
    /\ UNCHANGED <<outside, signedAt, job, reconcile, made, ackedBy, reached>>
    /\ UNCHANGED <<confirmed, bounds>>

EditAnswers(s, oks) ==
    /\ edit[s].stage = "publish" /\ oks \subseteq edit[s].targets
    /\ Acknowledge(s, edit[s].event, oks)
    /\ IF Quorum(edit[s].targets, oks)
       THEN /\ edit' = [edit EXCEPT ![s].stage = "commit"]
            /\ confirmed' = [confirmed EXCEPT ![s] = @ \cup {edit[s].event}]
       ELSE /\ edit' = [edit EXCEPT ![s] = NoEdit]
            /\ UNCHANGED confirmed
    /\ UNCHANGED <<outside, signedAt, job, reconcile, made, handed, bounds>>

(* The local rows, the cache and the outbox are written only now, in one   *)
(* transaction that checks the base once more.                             *)
EditCommit(s) ==
    /\ edit[s].stage = "commit"
    /\ IF BaseHolds(s, edit[s].event)
       THEN /\ cached' = [cached EXCEPT ![s] = edit[s].event]
            /\ content' = [content EXCEPT ![s] = edit[s].text]
            /\ pending' = [pending EXCEPT ![s] = NoRow]
       ELSE UNCHANGED <<cached, content, pending>>
    /\ edit' = [edit EXCEPT ![s] = NoEdit]
    /\ UNCHANGED <<list, routes, publisher, flush, signedAt, job, reconcile, observed>>
    /\ UNCHANGED bounds

(* Signing is refused, or the editor cancels. *)
EditFails(s) ==
    /\ edit[s].stage # "none"
    /\ edit' = [edit EXCEPT ![s] = NoEdit]
    /\ UNCHANGED <<outside, signedAt, job, reconcile, observed, bounds>>

-----------------------------------------------------------------------------
(* Private lists: plaintext first, then a job that signs in background. *)

(* markPrivateListDirty with the edit, then queuePrivateListPublication.   *)
EditPrivateList(s) ==
    /\ s \in Private /\ edits < MaxEdits
    /\ edits' = edits + 1
    /\ content' = [content EXCEPT ![s] = <<"own", edits'>>]
    /\ list' = [list EXCEPT ![s].revision = @ + 1, ![s].dirty = TRUE]
    /\ job' = [job EXCEPT ![s] = IF @.stage = "none"
                                 THEN [NoJobHere EXCEPT !.stage = "queued"]
                                 ELSE [@ EXCEPT !.again = TRUE]]
    /\ UNCHANGED <<cached, pending, routes, publisher, flush, edit, signedAt>>
    /\ UNCHANGED <<reconcile, observed, events>>

(* The loop of the job: once more if an edit came meanwhile. *)
NextRound(s) ==
    job' = [job EXCEPT ![s] = IF @.again THEN [NoJobHere EXCEPT !.stage = "queued"]
                              ELSE NoJobHere]

StartRound(s) ==
    /\ job[s].stage = "queued"
    /\ job' = [job EXCEPT ![s].stage = "start", ![s].again = FALSE]
    /\ UNCHANGED <<outside, edit, signedAt, reconcile, observed, bounds>>

ReadPlaintext(s) ==
    /\ job[s].stage = "start"
    /\ IF list[s].dirty
       THEN job' = [job EXCEPT ![s].stage = "previous",
                               ![s].revision = list[s].revision, ![s].text = content[s]]
       ELSE NextRound(s)
    /\ UNCHANGED <<outside, edit, signedAt, reconcile, observed, bounds>>

ReadPrevious(s) ==
    /\ job[s].stage = "previous"
    /\ job' = [job EXCEPT ![s].stage = "commit", ![s].previous = cached[s]]
    /\ UNCHANGED <<outside, edit, signedAt, reconcile, observed, bounds>>

(* Mutation: the revision is not compared.                                 *)
AnySnapshot(s) == TRUE

(* The commit callback: the plaintext is still what was encrypted.         *)
SnapshotIsCurrent(s) == list[s].revision = job[s].revision

CommitPrivateList(s) ==
    /\ job[s].stage = "commit"
    /\ \E e \in Unmade(s) :
           /\ e > job[s].previous
           /\ made' = [made EXCEPT ![s][e] = job[s].text]
           /\ IF cached[s] = job[s].previous /\ Accepts(s, e) /\ SnapshotIsCurrent(s)
              THEN /\ Enqueue(s, e)
                   /\ list' = [list EXCEPT ![s].dirty = FALSE, ![s].event = e]
              ELSE UNCHANGED <<cached, pending, list, publisher>>
    /\ NextRound(s)
    /\ UNCHANGED <<content, routes, flush, edit, signedAt, reconcile, ackedBy, reached>>
    /\ UNCHANGED <<confirmed, handed, bounds>>

(* Encryption or signing fails: the list stays dirty. *)
PrivateListFails(s) ==
    /\ job[s].stage \in {"start", "previous", "commit"}
    /\ NextRound(s)
    /\ UNCHANGED <<outside, edit, signedAt, reconcile, observed, bounds>>

-----------------------------------------------------------------------------
(* Other devices. *)

(* storeReplaceableEvent: the newest event wins.                           *)
Store(s, e) == cached' = [cached EXCEPT ![s] = Newest(@, e)]

OtherDevice(s) ==
    /\ \E e \in Unmade(s) : made' = [made EXCEPT ![s][e] = <<"other", e>>] /\ Store(s, e)
    /\ UNCHANGED <<pending, content, list, routes, publisher, flush, signing, ackedBy>>
    /\ UNCHANGED <<reached, confirmed, handed, bounds>>

(* A relay returns an event that this device published. *)
Echo(s) ==
    /\ \E e \in Event : ackedBy[s][e] # {} /\ e > cached[s] /\ Store(s, e)
    /\ UNCHANGED <<pending, content, list, routes, publisher, flush, signing, observed>>
    /\ UNCHANGED bounds

(* Mutation: a pending publication is not looked at.                       *)
CanApplyUnlessDirty(s, e) ==
    /\ ~ list[s].dirty /\ ~ edit[s].wait
    /\ cached[s] <= e

(* canApplyConfigurationEvent.  Waited edits run as a preparation job.     *)
CanApply(s, e) ==
    /\ ~ list[s].dirty /\ ~ edit[s].wait
    /\ pending[s].event = NoEvent
    /\ cached[s] <= e

ReconcileStart(s) ==
    /\ reconcile[s] = NoEvent /\ cached[s] # NoEvent /\ CanApply(s, cached[s])
    /\ made[s][cached[s]] # content[s]
    /\ reconcile' = [reconcile EXCEPT ![s] = cached[s]]
    /\ UNCHANGED <<outside, edit, signedAt, job, observed, bounds>>

(* Checked again in the transaction, after decryption. *)
ReconcileCommit(s) ==
    /\ reconcile[s] # NoEvent
    /\ content' = IF CanApply(s, reconcile[s])
                  THEN [content EXCEPT ![s] = made[s][reconcile[s]]] ELSE content
    /\ reconcile' = [reconcile EXCEPT ![s] = NoEvent]
    /\ UNCHANGED <<cached, pending, list, routes, publisher, flush, edit, signedAt>>
    /\ UNCHANGED <<job, observed, bounds>>

-----------------------------------------------------------------------------
(* ConfigurationPublisher: session, network, app state. *)

Happens == events < MaxEvents /\ events' = events + 1

(* wake(true): every deadline of the account becomes now, then wake().     *)
RetryNow ==
    /\ pending' = [s \in Slot |-> [pending[s] EXCEPT !.due = pending[s].event # NoEvent]]
    /\ waking' = TRUE

Start ==
    /\ IF session THEN Happens ELSE UNCHANGED events
    /\ session' = TRUE /\ RetryNow /\ timer' = FALSE /\ flushCurrent' = FALSE
    /\ UNCHANGED <<cached, content, list, routes, online, foreground, requested>>
    /\ UNCHANGED <<flushing, more, delivery, signing, observed, edits>>

Stop ==
    /\ Happens /\ session
    /\ session' = FALSE /\ waking' = FALSE /\ timer' = FALSE /\ flushCurrent' = FALSE
    /\ UNCHANGED <<rows, routes, online, foreground, requested, flushing, more>>
    /\ UNCHANGED <<delivery, signing, observed, edits>>

Pause ==
    /\ Happens
    /\ \/ online /\ online' = FALSE /\ UNCHANGED foreground
       \/ foreground /\ foreground' = FALSE /\ UNCHANGED online
    /\ timer' = FALSE
    /\ UNCHANGED <<rows, routes, session, waking, requested, flush, signing, observed>>
    /\ UNCHANGED <<edits>>

Resume ==
    /\ Happens
    /\ \/ ~ online /\ online' = TRUE /\ UNCHANGED foreground
       \/ ~ foreground /\ foreground' = TRUE /\ UNCHANGED online
    /\ IF session THEN RetryNow ELSE UNCHANGED <<pending, waking>>
    /\ UNCHANGED <<cached, content, list, routes, session, requested, timer, flush>>
    /\ UNCHANGED <<signing, observed, edits>>

(* The process dies: the database survives, whatever was under way is lost.*)
Crash ==
    /\ Happens
    /\ session' = FALSE /\ online' = TRUE /\ foreground' = TRUE
    /\ waking' = FALSE /\ requested' = FALSE /\ timer' = FALSE
    /\ flushing' = "no" /\ flushCurrent' = FALSE /\ more' = FALSE
    /\ delivery' = [s \in Slot |-> NoDelivery]
    /\ edit' = [s \in Slot |-> NoEdit] /\ signedAt' = [s \in Slot |-> NoEvent]
    /\ job' = [s \in Slot |-> NoJobHere] /\ reconcile' = [s \in Slot |-> NoEvent]
    /\ handed' = [s \in Slot |-> {}]
    /\ UNCHANGED <<rows, routes, made, ackedBy, reached, confirmed, edits>>

Reroute(relays) ==
    /\ Happens
    /\ routes' = relays
    /\ reached' = [t \in Slot |-> reached[t] \cup
                      {f \in Event : Quorum(relays, ackedBy[t][f])}]
    /\ UNCHANGED <<rows, publisher, flush, signing, made, ackedBy, confirmed, handed>>
    /\ UNCHANGED <<edits>>

(* Another relay list takes effect; discovery relays are always among them.*)
ChangeRoutes == \E relays \in SUBSET Relay \ {{}, routes} : Reroute(relays)

-----------------------------------------------------------------------------
(* ConfigurationPublisher: flush() and deliver(). *)

Deadline(s) ==
    /\ pending[s].event # NoEvent /\ ~ pending[s].due
    /\ pending' = [pending EXCEPT ![s].due = TRUE]
    /\ UNCHANGED <<cached, content, list, routes, publisher, flush, signing, observed>>
    /\ UNCHANGED bounds

Woken ==
    /\ waking /\ waking' = FALSE
    /\ Wake
    /\ UNCHANGED <<rows, routes, session, online, foreground, flush, signing, observed>>
    /\ UNCHANGED bounds

(* The timer fires; flush returns at once if one runs or it must not run.  *)
StartFlush ==
    /\ timer /\ timer' = FALSE
    /\ IF flushing = "no" /\ CanRun
       THEN /\ flushing' = "deliver" /\ flushCurrent' = TRUE /\ requested' = FALSE
            /\ delivery' = [s \in Slot |->
                   IF pending[s].event # NoEvent /\ pending[s].due
                   THEN [NoDelivery EXCEPT !.stage = "route", !.event = pending[s].event,
                                           !.acks = pending[s].acks]
                   ELSE NoDelivery]
       ELSE UNCHANGED <<flushing, flushCurrent, requested, delivery>>
    /\ UNCHANGED <<rows, routes, session, online, foreground, waking, more, signing>>
    /\ UNCHANGED <<observed, bounds>>

DeliveryEnds(s) == delivery' = [delivery EXCEPT ![s] = NoDelivery]

DeliverRoute(s) ==
    /\ delivery[s].stage = "route"
    /\ IF flushCurrent
       THEN delivery' = [delivery EXCEPT ![s].stage = "check", ![s].targets = routes]
       ELSE DeliveryEnds(s)
    /\ UNCHANGED <<rows, routes, publisher, loop, signing, observed, bounds>>

(* A replacement may have landed meanwhile; receipts may suffice already.  *)
DeliverCheck(s) ==
    LET d == delivery[s]
    IN  /\ d.stage = "check"
        /\ IF ~ flushCurrent \/ pending[s].event # d.event THEN DeliveryEnds(s)
           ELSE delivery' = [delivery EXCEPT ![s].stage =
                    IF Quorum(d.targets, d.acks) \/ d.targets \subseteq d.acks
                    THEN "recheck" ELSE "publish"]
        /\ UNCHANGED <<rows, routes, publisher, loop, signing, observed, bounds>>

DeliverAnswers(s, oks) ==
    LET d == delivery[s]
    IN  /\ d.stage = "publish" /\ oks \subseteq d.targets \ d.acks
        /\ Acknowledge(s, d.event, oks)
        /\ IF flushCurrent
           THEN delivery' = [delivery EXCEPT ![s].stage = "recheck", ![s].acks = @ \cup oks]
           ELSE DeliveryEnds(s)
        /\ UNCHANGED <<rows, routes, publisher, loop, signing, made, confirmed, handed>>
        /\ UNCHANGED bounds

(* Mutation: the targets of the publish are taken for the current ones.    *)
KeepTargets(s) ==
    /\ delivery[s].stage = "recheck"
    /\ delivery' = [delivery EXCEPT ![s].stage = "settle"]
    /\ UNCHANGED <<rows, routes, publisher, loop, signing, observed, bounds>>

(* Settings can change while a publish awaits acknowledgements.            *)
RecheckTargets(s) ==
    /\ delivery[s].stage = "recheck"
    /\ delivery' = [delivery EXCEPT ![s].stage = "settle", ![s].targets = routes]
    /\ UNCHANGED <<rows, routes, publisher, loop, signing, observed, bounds>>

(* Mutation: the row is found by its coordinate alone.                     *)
AnyRow(s) == pending[s].event # NoEvent

(* exact(row): the row still holds the event that was delivered.           *)
ExactRow(s) == pending[s].event = delivery[s].event

DeleteRow(s) == pending' = IF ExactRow(s) THEN [pending EXCEPT ![s] = NoRow] ELSE pending

(* A private list is rebuilt from plaintext at the next edit, so that its  *)
(* failed event is dropped and the list is dirty again.                    *)
Retire(s) ==
    /\ DeleteRow(s)
    /\ list' = IF ExactRow(s) /\ list[s].event = delivery[s].event
               THEN [list EXCEPT ![s].dirty = TRUE] ELSE list

BackOff(s) ==
    /\ pending' = IF ExactRow(s)
                  THEN [pending EXCEPT ![s].acks = delivery[s].acks, ![s].due = FALSE]
                  ELSE pending
    /\ UNCHANGED list

DeliverySettles(s) ==
    /\ delivery[s].stage = "settle"
    /\ IF ~ flushCurrent THEN UNCHANGED <<pending, list>>
       ELSE IF Quorum(delivery[s].targets, delivery[s].acks) THEN DeleteRow(s) /\ UNCHANGED list
       ELSE IF s \in Private THEN Retire(s) ELSE BackOff(s)
    /\ DeliveryEnds(s)
    /\ UNCHANGED <<cached, content, routes, publisher, loop, signing, observed, bounds>>

(* An error while routing or publishing counts as a failed attempt.        *)
DeliveryFails(s) ==
    /\ delivery[s].stage \in {"route", "check", "publish", "recheck"}
    /\ Happens
    /\ IF ~ flushCurrent THEN UNCHANGED <<pending, list>>
       ELSE IF s \in Private THEN Retire(s) ELSE BackOff(s)
    /\ DeliveryEnds(s)
    /\ UNCHANGED <<cached, content, routes, publisher, loop, signing, observed, edits>>

(* The query for the next deadline, after the batch. *)
QueryNext ==
    /\ flushing = "deliver" /\ \A s \in Slot : delivery[s].stage = "none"
    /\ more' = (\E s \in Slot : pending[s].event # NoEvent)
    /\ flushing' = "close"
    /\ UNCHANGED <<rows, routes, publisher, flushCurrent, delivery, signing, observed>>
    /\ UNCHANGED bounds

(* Mutation: a wake during the flush is forgotten.                         *)
EndFlushForgetting ==
    /\ flushing = "close" /\ flushing' = "no"
    /\ timer' = IF more /\ flushCurrent THEN CanRun ELSE timer
    /\ flushCurrent' = FALSE /\ more' = FALSE
    /\ UNCHANGED <<rows, routes, session, online, foreground, waking, requested>>
    /\ UNCHANGED <<delivery, signing, observed, bounds>>

(* finally: what was requested meanwhile, or the next deadline.            *)
EndFlush ==
    /\ flushing = "close" /\ flushing' = "no"
    /\ timer' = IF requested \/ (more /\ flushCurrent) THEN CanRun ELSE timer
    /\ flushCurrent' = FALSE /\ more' = FALSE
    /\ UNCHANGED <<rows, routes, session, online, foreground, waking, requested>>
    /\ UNCHANGED <<delivery, signing, observed, bounds>>

-----------------------------------------------------------------------------
Editors == \E s \in Slot :
    \/ \E wait \in BOOLEAN : StartEdit(s, wait)
    \/ ReadLatest(s) \/ SignAndQueue(s) \/ SignAndCheck(s) \/ EditRoute(s)
    \/ (\E oks \in SUBSET Relay : EditAnswers(s, oks)) \/ EditCommit(s) \/ EditFails(s)
    \/ Requeue(s)

PrivateLists == \E s \in Slot :
    \/ EditPrivateList(s) \/ StartRound(s) \/ ReadPlaintext(s) \/ ReadPrevious(s) \/ CommitPrivateList(s)
    \/ PrivateListFails(s)

Remote == \E s \in Slot :
    OtherDevice(s) \/ Echo(s) \/ ReconcileStart(s) \/ ReconcileCommit(s)

Environment == Start \/ Stop \/ Pause \/ Resume \/ Crash \/ ChangeRoutes

Publisher ==
    \/ Woken \/ StartFlush \/ QueryNext \/ EndFlush
    \/ \E s \in Slot :
           \/ Deadline(s) \/ DeliverRoute(s) \/ DeliverCheck(s)
           \/ (\E oks \in SUBSET Relay : DeliverAnswers(s, oks))
           \/ RecheckTargets(s) \/ DeliverySettles(s)

DeliveryErrors == \E s \in Slot : DeliveryFails(s)

Next == Editors \/ PrivateLists \/ Remote \/ Environment \/ Publisher \/ DeliveryErrors

Spec == Init /\ [][Next]_vars

Accepted(s) == DeliverAnswers(s, delivery[s].targets \ delivery[s].acks)

(* Timers fire, awaits return, and relays that are asked again and again   *)
(* accept at last.                                                         *)
FairSpec ==
    /\ Spec
    /\ WF_vars(Woken) /\ WF_vars(StartFlush) /\ WF_vars(QueryNext) /\ WF_vars(EndFlush)
    /\ \A s \in Slot :
           /\ WF_vars(Deadline(s)) /\ WF_vars(DeliverRoute(s)) /\ WF_vars(DeliverCheck(s))
           /\ WF_vars(\E oks \in SUBSET Relay : DeliverAnswers(s, oks))
           /\ WF_vars(RecheckTargets(s)) /\ WF_vars(DeliverySettles(s))
           /\ SF_vars(Accepted(s))
-----------------------------------------------------------------------------
(* What the publisher promises. *)

(* The cache never goes back to an older event, whoever writes it: the     *)
(* outbox, a waited publication or a relay's answer.                       *)
CacheNeverRegresses == [][\A s \in Slot : cached'[s] >= cached[s]]_vars

(* A receipt in the outbox is for the event in the outbox: a late answer   *)
(* for an event that was replaced is not credited to its replacement.      *)
ReceiptsAreForTheEvent ==
    \A s \in Slot : pending[s].event # NoEvent =>
        pending[s].acks \subseteq ackedBy[s][pending[s].event]

(* A row leaves the outbox only when a majority of the relays routed to    *)
(* has its event, when a newer event takes over, or, for a private list,   *)
(* with the list dirty again.                                              *)
LeavesWhenDone ==
    [][\A s \in Slot :
          LET e == pending[s].event
          IN  e # NoEvent /\ pending'[s].event # e =>
                 \/ e \in reached[s] \cup confirmed[s]
                 \/ pending'[s].event > e \/ cached'[s] > e
                 \/ s \in Private /\ list'[s].dirty]_vars

(* What the user wrote in a private list is dirty, waits in the outbox, or *)
(* was published; it is never taken for synchronized while nothing         *)
(* carries it.                                                             *)
Carried(s, text) ==
    \E e \in Event : made[s][e] = text /\ (e \in reached[s] \/ e = pending[s].event)
UnsyncedIsDirty ==
    \A s \in Private :
        content[s] \in Own => list[s].dirty \/ Carried(s, content[s])

(* A remote event never replaces an edit of a private list that no         *)
(* majority of the relays has.                                             *)
RemoteKeepsLocalEdits ==
    [][\A s \in Private :
          /\ content[s] \in Own
          /\ content'[s] \in Other
          => \E e \in Event : made[s][e] = content[s] /\ e \in reached[s]]_vars

(* An edit merged with one declaration does not overwrite another: what a  *)
(* waited publication commits replaces the declaration it was based on, or *)
(* its own echo.                                                           *)
MergedEditsKeepTheirBase ==
    [][\A s \in Slot :
          edit[s].stage = "commit" /\ s \in Merged /\ content'[s] # content[s]
          => cached[s] \in {edit[s].base, edit[s].event}]_vars

(* Within a session a later waited edit is newer than every earlier one    *)
(* that was handed to relays, whether or not it was confirmed, so that a   *)
(* partially published one cannot win over it.                             *)
LaterEditsWin ==
    \A s \in Slot : edit[s].stage = "route" =>
        \A e \in handed[s] : e < edit[s].event

(* With session, network and app state finally left alone, the outbox is   *)
(* emptied: no wake is lost and no row is forgotten.                       *)
OutboxDrains == <>[]CanRun => <>[](\A s \in Slot : pending[s].event = NoEvent)
=============================================================================
