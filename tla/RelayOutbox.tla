----------------------------- MODULE RelayOutbox -----------------------------
(***************************************************************************)
(* services/dm/relay-message-outbox.ts: the durable, account-scoped FIFO   *)
(* that delivers a stored message to the relays of every recipient.  The   *)
(* database is the queue and the crash-recovery boundary; the class owns   *)
(* one worker ("drain"), whose awaits are the worker's steps here.  The    *)
(* database executor runs statements and transactions in the order they    *)
(* are issued, so a step is one synchronous stretch of the code together   *)
(* with the statement or transaction it issues.                            *)
(*                                                                         *)
(* Relay URLs are already normalized; rumors, gift wraps, keys and error   *)
(* strings are abstracted to their presence.  The legacy job scope         *)
(* selected_targets, which no code creates any more, is left out.          *)
(***************************************************************************)
EXTENDS DeliveryStatus

CONSTANTS
    Account,        \* accounts of this device
    Person,         \* recipients of messages, the accounts among them
    Relay,          \* normalized relay URLs
    Message,        \* rumors authored by the device's accounts
    Owner,          \* [Message -> Account]
    Participants,   \* [Message -> SUBSET Person]: p-tags and the author
    Durable,        \* the messages of kind 14 and 15 (isDurableDelivery)
    RelayLists,     \* relay sets a recipient may resolve to; {} is an error
    NoSession,      \* the outbox has no active session
    NoJob,          \* the worker holds no job
    MaxJobs,        \* bound: jobs ever enqueued
    MaxEvents,      \* bound: session, network and app state changes, crashes
    MaxFaults,      \* bound: statements the database rejects
    SettleFaults    \* whether it may reject settlements of targets too

ASSUME OutboxConstants ==
    /\ Account \subseteq Person
    /\ Owner \in [Message -> Account]
    /\ Participants \in [Message -> SUBSET Person]
    /\ \A m \in Message : Owner[m] \in Participants[m]
    /\ Durable \subseteq Message
    /\ RelayLists \subseteq SUBSET Relay
    /\ NoSession \notin Account
    /\ MaxJobs \in Nat /\ MaxEvents \in Nat /\ MaxFaults \in Nat
    /\ SettleFaults \in BOOLEAN

VARIABLES
    (* The database. *)
    status,         \* messages.deliveryStatus; "absent": no message row
    deliveryError,  \* messages.deliveryError is not null
    copies,         \* message_delivery_copies
    jobs,           \* relay_outbox_jobs
    nextId,         \* the autoincrement id of the next job
    targets,        \* relay_outbox_job_targets
    payloads,       \* relay_outbox_payloads: the stored gift wraps
    (* The process around the worker. *)
    session,        \* RelayMessageOutbox.session's account
    online,
    foreground,     \* platform.appState is 'active'
    wakeRequested,
    removal,        \* progress of removeAccount, per account
    (* The worker: drainTask and the locals of drain and processJob. *)
    pc,             \* "idle": drainTask is null
    serving,        \* the account of the session drain captured
    current,        \* isCurrent: that session has not been replaced since
    job,            \* the job being processed
    local,          \* processJob's targets
    skipping,       \* skipSuccessfulTargets: targets still to remove
    unready,        \* ensurePayloads: recipients still to wrap
    inflight,       \* targets whose publish has not answered
    aborted,        \* currentPublishAbort has been aborted
    writes,         \* settlements accepted and not yet committed
    writeFailed,    \* one settlement of this publish was rejected
    (* Observation: what relays and the worker did, read by properties. *)
    acked,          \* <<message, person, relay>> a relay answered OK
    refused,        \* <<message, person, relay>> reported as a failure
    published,      \* [job, to] whose gift wrap was handed to a relay
    prepared,       \* jobs that were given targets
    (* Bounds. *)
    events, faults

database == <<status, deliveryError, copies, jobs, nextId, targets, payloads>>
process  == <<session, online, foreground, removal>>
wakeup   == <<wakeRequested, pc, serving, current>>
locals   == <<job, local, skipping, unready>>
publish  == <<inflight, aborted, writes, writeFailed>>
observed == <<acked, refused, published, prepared>>
bounds   == <<events, faults>>
vars     == <<database, process, wakeup, locals, publish, observed, bounds>>

Scope == {"all_recipient_relays", "selected_copy", "resend_all"}

JobRow  == [id : 1..MaxJobs, msg : Message, scope : Scope, to : SUBSET Person]
Target  == [job : 1..MaxJobs, to : Person, relay : Relay]
Payload == [job : 1..MaxJobs, to : Person]
Copy    == [row : BOOLEAN, relays : [Relay -> Entry], error : BOOLEAN]
NoCopy  == [row |-> FALSE, relays |-> [r \in Relay |-> "none"], error |-> FALSE]

Status == {"absent", "none", "queued", "sent", "partial", "failed"}

RemovalStage ==
    {"no", "waiting", "messages", "copies", "jobs", "done", "interrupted"}

PC == {"idle", "loop", "load", "resolve", "finish", "check", "skip", "wrap",
       "seal", "mark", "send", "publish", "abandon", "abandonStrip", "ending"}

TypeOK ==
    /\ status \in [Message -> Status]
    /\ deliveryError \in [Message -> BOOLEAN]
    /\ copies \in [Message -> [Person -> Copy]]
    /\ jobs \subseteq JobRow
    /\ nextId \in 1..(MaxJobs + 1)
    /\ targets \subseteq Target
    /\ payloads \subseteq Payload
    /\ session \in Account \cup {NoSession}
    /\ online \in BOOLEAN /\ foreground \in BOOLEAN /\ wakeRequested \in BOOLEAN
    /\ removal \in [Account -> RemovalStage]
    /\ pc \in PC
    /\ serving \in Account \cup {NoSession}
    /\ current \in BOOLEAN
    /\ job \in JobRow \cup {NoJob}
    /\ local \subseteq Target /\ skipping \subseteq Target /\ inflight \subseteq Target
    /\ unready \subseteq Person
    /\ aborted \in BOOLEAN /\ writeFailed \in BOOLEAN
    /\ writes \subseteq [target : Target, msg : Message, ok : BOOLEAN]
    /\ acked \subseteq Message \X Person \X Relay
    /\ refused \subseteq Message \X Person \X Relay
    /\ published \subseteq Payload
    /\ prepared \subseteq 1..MaxJobs
    /\ events \in 0..MaxEvents /\ faults \in 0..MaxFaults

Init ==
    /\ status = [m \in Message |-> "absent"]
    /\ deliveryError = [m \in Message |-> FALSE]
    /\ copies = [m \in Message |-> [p \in Person |-> NoCopy]]
    /\ jobs = {} /\ nextId = 1 /\ targets = {} /\ payloads = {}
    /\ session = NoSession /\ online = TRUE /\ foreground = TRUE
    /\ wakeRequested = FALSE
    /\ removal = [a \in Account |-> "no"]
    /\ pc = "idle" /\ serving = NoSession /\ current = FALSE
    /\ job = NoJob /\ local = {} /\ skipping = {} /\ unready = {}
    /\ inflight = {} /\ aborted = FALSE /\ writes = {} /\ writeFailed = FALSE
    /\ acked = {} /\ refused = {} /\ published = {} /\ prepared = {}
    /\ events = 0 /\ faults = 0

-----------------------------------------------------------------------------
(* Reading the database. *)

JobTargets(id)   == {t \in targets : t.job = id}
HasJob(m, rows)  == \E j \in rows : j.msg = m
CopyRows(copy)   == {c \in {copy[p] : p \in Person} : c.row}
IsDurable        == job.msg \in Durable
AccountJobs(a)   == {j \in jobs : Owner[j.msg] = a}

(* recomputeMessageStatus, given the copies and jobs the transaction leaves. *)
RecomputedStatus(m, newCopies, newJobs) ==
    IF status[m] \in {"absent", "sent"} THEN status[m]
    ELSE MessageDeliveryVerdict(CopyRows(newCopies[m]), HasJob(m, newJobs))

RecomputeMessageStatus(m) ==
    /\ status' = [status EXCEPT ![m] = RecomputedStatus(m, copies', jobs')]
    /\ deliveryError' = [deliveryError EXCEPT
           ![m] = @ /\ (status[m] \in {"absent", "sent"} \/ CopyRows(copies'[m]) = {})]

(* serializeMessageWrite: a write of the worker waits for the settlements  *)
(* of the same message accepted before it.  (prepareAllTargets does not.)  *)
Serialized == \A w \in writes : w.msg # job.msg

(* Deleting a job row cascades to its targets and payloads. *)
DeleteJobRows(ids) ==
    /\ jobs' = {j \in jobs : j.id \notin ids}
    /\ targets' = {t \in targets : t.job \notin ids}
    /\ payloads' = {w \in payloads : w.job \notin ids}

(* Mutation: a recipient's wrap is kept until the job is done.             *)
RemoveTargetKeepingWraps(t) ==
    LET left      == targets \ {t}
        lastOfJob == ~ \E u \in left : u.job = t.job
    IN  /\ targets' = left
        /\ jobs' = IF lastOfJob THEN {j \in jobs : j.id # t.job} ELSE jobs
        /\ payloads' = IF lastOfJob THEN {w \in payloads : w.job # t.job} ELSE payloads

(* Mutation: the wraps of every recipient go with one recipient's target.  *)
RemoveTargetAndAllWraps(t) ==
    LET left      == targets \ {t}
        lastOfJob == ~ \E u \in left : u.job = t.job
        lastOfTo  == ~ \E u \in left : u.job = t.job /\ u.to = t.to
    IN  /\ targets' = left
        /\ jobs' = IF lastOfJob THEN {j \in jobs : j.id # t.job} ELSE jobs
        /\ payloads' = {w \in payloads : ~ (w.job = t.job /\ lastOfTo)}

(* removeTargetInTransaction, before it recomputes the status. *)
RemoveTargetRow(t) ==
    LET left      == targets \ {t}
        lastOfJob == ~ \E u \in left : u.job = t.job
        lastOfTo  == ~ \E u \in left : u.job = t.job /\ u.to = t.to
    IN  /\ targets' = left
        /\ jobs' = IF lastOfJob THEN {j \in jobs : j.id # t.job} ELSE jobs
        /\ payloads' = {w \in payloads :
               ~ (w.job = t.job /\ (lastOfJob \/ (lastOfTo /\ w.to = t.to)))}

-----------------------------------------------------------------------------
(* Waking the worker. *)

(* The synchronous head of drain(): capture the session, or return early.  *)
StartDrain ==
    /\ wakeRequested' = FALSE
    /\ serving' = session'
    /\ current' = (session' # NoSession)
    /\ pc' = IF session' # NoSession /\ online' /\ foreground' THEN "loop" ELSE "ending"

Wake ==
    IF pc = "idle" THEN StartDrain
    ELSE wakeRequested' = TRUE /\ UNCHANGED <<pc, serving, current>>

WakeFor(a) == IF session = a THEN Wake ELSE UNCHANGED wakeup

CanRun == current /\ online

-----------------------------------------------------------------------------
(* The user's operations: one transaction, then wake(account). *)

(* storeRumor of dm.service and its group counterpart: the message and its *)
(* unsigned job are committed together.  Without enqueueRelay the message  *)
(* is an own rumor received from another device.                           *)
StoreRumor(m, enqueueRelay) ==
    /\ status[m] = "absent" /\ removal[Owner[m]] = "no"
    /\ UNCHANGED <<process, locals, publish, observed, bounds>>
    /\ status' = [status EXCEPT
           ![m] = IF enqueueRelay /\ m \in Durable THEN "queued" ELSE "none"]
    /\ IF enqueueRelay
       THEN /\ nextId <= MaxJobs
            /\ jobs' = jobs \cup {[id |-> nextId, msg |-> m,
                                   scope |-> "all_recipient_relays", to |-> {}]}
            /\ nextId' = nextId + 1
            /\ WakeFor(Owner[m])
       ELSE UNCHANGED <<jobs, nextId, wakeup>>
    /\ UNCHANGED <<deliveryError, copies, targets, payloads>>

MarkQueued(m) ==
    /\ status' = [status EXCEPT ![m] = "queued"]
    /\ deliveryError' = [deliveryError EXCEPT ![m] = FALSE]

(* enqueueRetryAll and enqueueResend.  The timeline that offers them shows *)
(* durable messages only.                                                  *)
EnqueueAll(m, scope) ==
    /\ m \in Durable /\ status[m] # "absent"
    /\ UNCHANGED <<process, locals, publish, observed, bounds>>
    /\ IF \E j \in jobs : j.msg = m /\ j.scope = scope
       THEN UNCHANGED database
       ELSE /\ nextId <= MaxJobs
            /\ jobs' = jobs \cup {[id |-> nextId, msg |-> m, scope |-> scope, to |-> {}]}
            /\ nextId' = nextId + 1
            /\ IF status[m] # "sent" THEN MarkQueued(m) ELSE UNCHANGED <<status, deliveryError>>
            /\ UNCHANGED <<copies, targets, payloads>>
    /\ WakeFor(Owner[m])

(* enqueueRetryTargets: only relays recorded as failed become targets; a   *)
(* copy that failed as a whole gets a job without targets, to prepare.     *)
EnqueueRetryTargets(m, p, requested) ==
    LET copy    == copies[m][p]
        retried == WithEntry(copy.relays, "failed") \cap requested
    IN  /\ copy.row
        /\ IF retried = {} /\ ~ copy.error
           THEN UNCHANGED <<database, prepared>>
           ELSE /\ nextId <= MaxJobs
                /\ jobs' = jobs \cup {[id |-> nextId, msg |-> m,
                                       scope |-> "selected_copy", to |-> {p}]}
                /\ nextId' = nextId + 1
                /\ targets' = targets \cup
                       {[job |-> nextId, to |-> p, relay |-> r] : r \in retried}
                /\ prepared' = IF retried # {} THEN prepared \cup {nextId} ELSE prepared
                /\ IF /\ status[m] \notin {"absent", "sent"}
                      /\ DeliveryCopyVerdict(copy.relays) # "delivered"
                   THEN MarkQueued(m)
                   ELSE UNCHANGED <<status, deliveryError>>
                /\ UNCHANGED <<copies, payloads>>
        /\ UNCHANGED <<process, locals, publish, acked, refused, published, bounds>>
        /\ WakeFor(Owner[m])

-----------------------------------------------------------------------------
(* The session, the network, the app state, crashes. *)

Event == events < MaxEvents /\ events' = events + 1

Activate(a) ==
    /\ Event /\ removal[a] \in {"no", "interrupted"}
    /\ session' = a
    /\ aborted' = (aborted \/ pc = "publish")
    /\ UNCHANGED <<online, foreground, removal, inflight, writes, writeFailed>>
    /\ IF pc = "idle" THEN StartDrain
       ELSE wakeRequested' = TRUE /\ current' = FALSE /\ UNCHANGED <<pc, serving>>
    /\ UNCHANGED <<database, locals, observed, faults>>

(* deactivate(): replacing the session aborts a running publish. *)
EndSession ==
    /\ session' = NoSession
    /\ current' = FALSE
    /\ aborted' = (aborted \/ pc = "publish")
    /\ UNCHANGED <<wakeRequested, pc, serving, inflight, writes, writeFailed>>

Deactivate ==
    /\ Event /\ session # NoSession
    /\ EndSession
    /\ UNCHANGED <<online, foreground, removal, database, locals, observed, faults>>

GoOffline ==
    /\ Event /\ online
    /\ online' = FALSE
    /\ aborted' = (aborted \/ pc = "publish")
    /\ UNCHANGED <<session, foreground, removal, inflight, writes, writeFailed>>
    /\ UNCHANGED <<database, wakeup, locals, observed, faults>>

GoOnline ==
    /\ Event /\ ~ online
    /\ online' = TRUE
    /\ UNCHANGED <<session, foreground, removal>>
    /\ Wake
    /\ UNCHANGED <<database, locals, publish, observed, faults>>

EnterBackground ==
    /\ Event /\ foreground
    /\ foreground' = FALSE
    /\ UNCHANGED <<session, online, removal>>
    /\ UNCHANGED <<database, wakeup, locals, publish, observed, faults>>

(* The listener of a live receive session wakes the outbox. *)
EnterForeground ==
    /\ Event /\ ~ foreground
    /\ foreground' = TRUE
    /\ UNCHANGED <<session, online, removal>>
    /\ IF session # NoSession THEN Wake ELSE UNCHANGED wakeup
    /\ UNCHANGED <<database, locals, publish, observed, faults>>

(* The process dies and starts again: only the database survives.  An      *)
(* account whose removal was cut short is still there to be entered.       *)
Crash ==
    /\ Event
    /\ session' = NoSession /\ online' = TRUE /\ foreground' = TRUE
    /\ removal' = [a \in Account |->
           IF removal[a] \in {"no", "done"} THEN removal[a] ELSE "interrupted"]
    /\ wakeRequested' = FALSE /\ pc' = "idle" /\ serving' = NoSession /\ current' = FALSE
    /\ job' = NoJob /\ local' = {} /\ skipping' = {} /\ unready' = {}
    /\ inflight' = {} /\ aborted' = FALSE /\ writes' = {} /\ writeFailed' = FALSE
    /\ UNCHANGED <<database, observed, faults>>

(* removeAccount: an active account ends its session and waits for the     *)
(* worker and the accepted settlements; the tables are then emptied one    *)
(* after the other, messages first, jobs (and by cascade the rest) last.   *)
RemoveAccount(a) ==
    /\ Event /\ removal[a] \in {"no", "interrupted"}
    /\ IF session = a
       THEN EndSession /\ removal' = [removal EXCEPT ![a] = "waiting"]
       ELSE /\ removal' = [removal EXCEPT ![a] = "messages"]
            /\ UNCHANGED <<session, wakeup, publish>>
    /\ UNCHANGED <<online, foreground, database, locals, observed, faults>>

WaitForIdle(a) ==
    /\ removal[a] = "waiting" /\ pc = "idle" /\ writes = {}
    /\ removal' = [removal EXCEPT ![a] = "messages"]
    /\ UNCHANGED <<session, online, foreground>>
    /\ UNCHANGED <<database, wakeup, locals, publish, observed, bounds>>

DeleteAccountData(a) ==
    /\ \/ /\ removal[a] = "messages"
          /\ removal' = [removal EXCEPT ![a] = "copies"]
          /\ status' = [m \in Message |-> IF Owner[m] = a THEN "absent" ELSE status[m]]
          /\ deliveryError' = [m \in Message |-> Owner[m] # a /\ deliveryError[m]]
          /\ UNCHANGED <<copies, jobs, targets, payloads>>
       \/ /\ removal[a] = "copies"
          /\ removal' = [removal EXCEPT ![a] = "jobs"]
          /\ copies' = [m \in Message |->
                 IF Owner[m] = a THEN [p \in Person |-> NoCopy] ELSE copies[m]]
          /\ UNCHANGED <<status, deliveryError, jobs, targets, payloads>>
       \/ /\ removal[a] = "jobs"
          /\ removal' = [removal EXCEPT ![a] = "done"]
          /\ DeleteJobRows({j.id : j \in AccountJobs(a)})
          /\ UNCHANGED <<status, deliveryError, copies>>
    /\ UNCHANGED <<nextId, session, online, foreground>>
    /\ UNCHANGED <<wakeup, locals, publish, observed, bounds>>

-----------------------------------------------------------------------------
(* The worker: drain(). *)

Goto(label) == pc' = label /\ UNCHANGED <<wakeRequested, serving, current>>

(* Mutation: the newest job first. *)
NewestJob ==
    /\ pc = "loop"
    /\ IF CanRun /\ foreground /\ AccountJobs(serving) # {}
       THEN /\ job' = CHOOSE j \in AccountJobs(serving) :
                          \A k \in AccountJobs(serving) : j.id >= k.id
            /\ Goto("load")
       ELSE job' = NoJob /\ Goto("ending")
    /\ local' = {} /\ skipping' = {} /\ unready' = {}
    /\ UNCHANGED <<database, process, publish, observed, bounds>>

(* The loop condition and the query for the oldest job of the account.     *)
NextJob ==
    /\ pc = "loop"
    /\ IF CanRun /\ foreground /\ AccountJobs(serving) # {}
       THEN /\ job' = CHOOSE j \in AccountJobs(serving) :
                          \A k \in AccountJobs(serving) : j.id <= k.id
            /\ Goto("load")
       ELSE job' = NoJob /\ Goto("ending")
    /\ local' = {} /\ skipping' = {} /\ unready' = {}
    /\ UNCHANGED <<database, process, publish, observed, bounds>>

(* Mutation: a wake during the drain is forgotten. *)
DrainEndedForgetting ==
    /\ pc = "ending"
    /\ UNCHANGED process
    /\ wakeRequested' = FALSE /\ pc' = "idle" /\ UNCHANGED <<serving, current>>
    /\ job' = NoJob /\ local' = {} /\ skipping' = {} /\ unready' = {}
    /\ UNCHANGED <<database, publish, observed, bounds>>

(* drain's finally: a wake that came meanwhile starts the worker again.    *)
DrainEnded ==
    /\ pc = "ending"
    /\ UNCHANGED process
    /\ IF wakeRequested THEN StartDrain ELSE Goto("idle")
    /\ job' = NoJob /\ local' = {} /\ skipping' = {} /\ unready' = {}
    /\ UNCHANGED <<database, publish, observed, bounds>>

-----------------------------------------------------------------------------
(* The worker: processJob(). *)

(* An orphaned job (its message row is gone) is deleted; otherwise its     *)
(* targets are loaded, or prepared if it has none.                         *)
LoadJob ==
    /\ pc = "load"
    /\ IF status[job.msg] = "absent"
       THEN /\ DeleteJobRows({job.id})
            /\ UNCHANGED <<local>> /\ Goto("loop")
       ELSE /\ local' = JobTargets(job.id)
            /\ Goto(IF local' = {} THEN "resolve" ELSE "check")
            /\ UNCHANGED <<jobs, targets, payloads>>
    /\ UNCHANGED <<status, deliveryError, copies, nextId, job, skipping, unready>>
    /\ UNCHANGED <<process, publish, observed, bounds>>

Recipients ==
    IF job.scope = "selected_copy" THEN Participants[job.msg] \cap job.to
    ELSE Participants[job.msg]

(* The transaction of prepareAllTargets: resolved[p] is the relay list the *)
(* recipient resolved to; an empty one is recorded as the copy's error.    *)
CommitTargets(resolved) ==
    LET rows == {[job |-> job.id, to |-> p, relay |-> r] : p \in Recipients, r \in Relay}
        freshCopy(p) == [row   |-> TRUE,
                        relays |-> BeginRelayTargets(copies[job.msg][p].relays, resolved[p]),
                        error  |-> resolved[p] = {}]
    IN  /\ targets' = targets \cup {t \in rows : t.relay \in resolved[t.to]}
        /\ UNCHANGED jobs
        /\ IF IsDurable
           THEN /\ copies' = [copies EXCEPT ![job.msg] =
                       [p \in Person |-> IF p \in Recipients THEN freshCopy(p) ELSE @[p]]]
                /\ status' = [status EXCEPT
                       ![job.msg] = RecomputedStatus(job.msg, copies', jobs)]
                /\ deliveryError' = [deliveryError EXCEPT ![job.msg] = FALSE]
           ELSE UNCHANGED <<copies, status, deliveryError>>
        /\ local' = {t \in targets' : t.job = job.id}
        /\ prepared' = IF local' = {} THEN prepared ELSE prepared \cup {job.id}
        /\ Goto(IF local' = {} THEN "finish" ELSE "check")

(* Mutation: the session is not checked after the recipients resolved.     *)
PrepareUnchecked ==
    /\ pc = "resolve"
    /\ \E resolved \in [Recipients -> RelayLists] :
           /\ job \in jobs \/ \A p \in Recipients : resolved[p] = {}
           /\ CommitTargets(resolved)
    /\ UNCHANGED <<nextId, payloads, job, skipping, unready>>
    /\ UNCHANGED <<process, publish, acked, refused, published, bounds>>

(* prepareAllTargets.  A session or network change while the recipients    *)
(* resolve makes it throw, and processJob then leaves the job as it is.    *)
(* The job's foreign key rejects targets of a job that is gone.            *)
PrepareAllTargets ==
    /\ pc = "resolve"
    /\ IF CanRun
       THEN \E resolved \in [Recipients -> RelayLists] :
                \/ /\ job \in jobs \/ \A p \in Recipients : resolved[p] = {}
                   /\ CommitTargets(resolved)
                \/ /\ job \notin jobs /\ \E p \in Recipients : resolved[p] # {}
                   /\ Goto("abandon")
                   /\ UNCHANGED <<targets, jobs, copies, status, deliveryError, local, prepared>>
       ELSE /\ Goto("ending")
            /\ UNCHANGED <<targets, jobs, copies, status, deliveryError, local, prepared>>
    /\ UNCHANGED <<nextId, payloads, job, skipping, unready>>
    /\ UNCHANGED <<process, publish, acked, refused, published, bounds>>

(* Mutation: the status is not recomputed when an empty job goes.          *)
FinishSilently ==
    /\ pc = "finish" /\ Serialized
    /\ DeleteJobRows({job.id})
    /\ UNCHANGED <<copies, status, deliveryError>>
    /\ Goto("loop")
    /\ UNCHANGED <<nextId, locals, process, publish, observed, bounds>>

(* finishEmptyJob: preparation or wrapping left the job no target.         *)
FinishEmptyJob ==
    /\ pc = "finish" /\ Serialized
    /\ DeleteJobRows({job.id})
    /\ UNCHANGED copies
    /\ IF IsDurable THEN RecomputeMessageStatus(job.msg) ELSE UNCHANGED <<status, deliveryError>>
    /\ Goto("loop")
    /\ UNCHANGED <<nextId, locals, process, publish, observed, bounds>>

(* Mutation: acknowledged targets are not looked up.                       *)
FindNothing ==
    /\ pc = "check"
    /\ skipping' = {}
    /\ Goto(IF CanRun THEN "skip" ELSE "ending")
    /\ UNCHANGED <<local, database, job, unready, process, publish, observed, bounds>>

(* The check after loading, and the snapshot of skipSuccessfulTargets.     *)
FindSuccessful ==
    LET isOk(t) == copies[job.msg][t.to].relays[t.relay] = "ok"
        found   == IF IsDurable /\ job.scope # "resend_all"
                   THEN {t \in local : isOk(t)} ELSE {}
    IN  /\ pc = "check"
        /\ IF CanRun
           THEN /\ skipping' = found /\ local' = local \ found /\ Goto("skip")
           ELSE Goto("ending") /\ UNCHANGED <<skipping, local>>
        /\ UNCHANGED <<database, job, unready, process, publish, observed, bounds>>

SkipTarget(t) ==
    /\ pc = "skip" /\ t \in skipping /\ Serialized
    /\ RemoveTargetRow(t)
    /\ UNCHANGED copies
    /\ RecomputeMessageStatus(job.msg)
    /\ skipping' = skipping \ {t}
    /\ UNCHANGED <<nextId, wakeup, job, local, unready, process, publish, observed, bounds>>

(* ensurePayloads starts with the recipients that have no stored wrap.     *)
SkipDone ==
    /\ pc = "skip" /\ skipping = {}
    /\ unready' = {t.to : t \in {u \in local : [job |-> u.job, to |-> u.to] \notin payloads}}
    /\ Goto(IF local = {} THEN "loop" ELSE "wrap")
    /\ UNCHANGED <<database, job, local, skipping, process, publish, observed, bounds>>

(* The checks before a recipient's wrap is made. *)
StartWrap ==
    /\ pc = "wrap" /\ unready # {}
    /\ Goto(IF CanRun THEN "seal" ELSE "ending")
    /\ UNCHANGED <<database, locals, process, publish, observed, bounds>>

(* The wrap is signed and stored; no check follows the signing.  The job's *)
(* foreign key rejects the row if the account's jobs were deleted.         *)
StorePayload(p) ==
    /\ pc = "seal" /\ p \in unready /\ job \in jobs
    /\ payloads' = payloads \cup {[job |-> job.id, to |-> p]}
    /\ unready' = unready \ {p}
    /\ Goto("wrap")
    /\ UNCHANGED <<status, deliveryError, copies, jobs, nextId, targets>>
    /\ UNCHANGED <<job, local, skipping, process, publish, observed, bounds>>

(* failRecipientBeforePublish, or a pause if the session or the network    *)
(* went away: the recipient loses its targets, the job stays.              *)
FailRecipient(p) ==
    LET mine   == {t \in JobTargets(job.id) : t.to = p}
        copy   == copies[job.msg][p]
        failed == [copy EXCEPT !.relays = DropPending(@, {t.relay : t \in mine}),
                               !.error = TRUE]
    IN  /\ pc = "seal" /\ p \in unready
        /\ IF CanRun
           THEN /\ Serialized
                /\ targets' = targets \ mine
                /\ payloads' = payloads \ {[job |-> job.id, to |-> p]}
                /\ UNCHANGED jobs
                /\ IF IsDurable
                   THEN /\ copies' = [copies EXCEPT ![job.msg][p] =
                               IF copy.row THEN failed ELSE copy]
                        /\ RecomputeMessageStatus(job.msg)
                   ELSE UNCHANGED <<copies, status, deliveryError>>
                /\ unready' = unready \ {p}
                /\ Goto("wrap")
           ELSE /\ Goto("ending")
                /\ UNCHANGED <<status, deliveryError, copies, jobs, targets, payloads, unready>>
        /\ UNCHANGED <<nextId, job, local, skipping, process, publish, observed, bounds>>

(* Mutation: the targets are not loaded again.                             *)
WrapDoneStale ==
    /\ pc = "wrap" /\ unready = {}
    /\ Goto(IF CanRun THEN "mark" ELSE "ending")
    /\ UNCHANGED <<database, locals, process, publish, observed, bounds>>

(* After ensurePayloads: the check, and the second load of the targets.    *)
WrapDone ==
    /\ pc = "wrap" /\ unready = {}
    /\ IF CanRun
       THEN /\ local' = JobTargets(job.id)
            /\ Goto(IF local' = {} THEN "finish" ELSE "mark")
       ELSE Goto("ending") /\ UNCHANGED local
    /\ UNCHANGED <<database, job, skipping, unready, process, publish, observed, bounds>>

(* markTargetsPending writes the copies and leaves the message status.     *)
MarkTargetsPending ==
    LET mine(p)   == {t.relay : t \in {u \in local : u.to = p}}
        marked(p) == [copies[job.msg][p] EXCEPT !.relays = BeginRelayTargets(@, mine(p)),
                                                !.error = FALSE]
    IN  /\ pc = "mark" /\ (IsDurable => Serialized)
        /\ copies' = IF IsDurable
                     THEN [copies EXCEPT ![job.msg] =
                              [p \in Person |-> IF @[p].row /\ mine(p) # {} THEN marked(p) ELSE @[p]]]
                     ELSE copies
        /\ Goto("send")
        /\ UNCHANGED <<status, deliveryError, jobs, nextId, targets, payloads>>
        /\ UNCHANGED <<locals, process, publish, observed, bounds>>

(* A fresh AbortController, and one publish per recipient to its relays.   *)
(* Nothing is rechecked here: a session or network change since WrapDone   *)
(* found no controller to abort.                                           *)
StartPublish ==
    /\ pc = "send"
    /\ inflight' = local /\ aborted' = FALSE /\ writeFailed' = FALSE
    /\ published' = published \cup {[job |-> t.job, to |-> t.to] : t \in local}
    /\ Goto("publish")
    /\ UNCHANGED <<database, locals, process, writes, acked, refused, prepared, bounds>>

(* Mutation: a cancelled publish still reports.                            *)
AnswerAfterAbort(t, ok) ==
    LET place == <<job.msg, t.to, t.relay>>
    IN  /\ pc = "publish" /\ t \in inflight
        /\ inflight' = inflight \ {t}
        /\ writes' = IF current
                     THEN writes \cup {[target |-> t, msg |-> job.msg, ok |-> ok]}
                     ELSE writes
        /\ acked' = IF ok THEN acked \cup {place} ELSE acked
        /\ refused' = IF ~ ok /\ ~ aborted THEN refused \cup {place} ELSE refused
        /\ UNCHANGED <<database, wakeup, locals, process, aborted, writeFailed>>
        /\ UNCHANGED <<published, prepared, bounds>>

(* A relay's outcome reaches onRelay, which accepts it only from an        *)
(* unaborted publish of the current session.                               *)
RelayAnswers(t, ok) ==
    LET place == <<job.msg, t.to, t.relay>>
    IN  /\ pc = "publish" /\ t \in inflight
        /\ inflight' = inflight \ {t}
        /\ writes' = IF ~ aborted /\ current
                     THEN writes \cup {[target |-> t, msg |-> job.msg, ok |-> ok]}
                     ELSE writes
        /\ acked' = IF ok THEN acked \cup {place} ELSE acked
        /\ refused' = IF ~ ok /\ ~ aborted THEN refused \cup {place} ELSE refused
        /\ UNCHANGED <<database, wakeup, locals, process, aborted, writeFailed>>
        /\ UNCHANGED <<published, prepared, bounds>>

(* Mutation: the status is not recomputed.                                 *)
SettleSilently(w) ==
    LET t       == w.target
        copy    == copies[w.msg][t.to]
        settled == [copy EXCEPT !.relays = SettleRelayTarget(@, t.relay, w.ok)]
    IN  /\ w \in writes
        /\ writes' = writes \ {w}
        /\ IF t \in targets
           THEN /\ copies' = IF w.msg \in Durable /\ copy.row
                             THEN [copies EXCEPT ![w.msg][t.to] = settled]
                             ELSE copies
                /\ RemoveTargetRow(t)
           ELSE UNCHANGED <<copies, jobs, targets, payloads>>
        /\ UNCHANGED <<status, deliveryError, nextId, wakeup, locals, process>>
        /\ UNCHANGED <<inflight, aborted, writeFailed, observed, bounds>>

(* settleTarget: the outcome enters the copy and the target goes, in one   *)
(* transaction.  A message's settlements are serialized; they concern      *)
(* different targets, so that their order is left open.                    *)
SettleTarget(w) ==
    LET t       == w.target
        copy    == copies[w.msg][t.to]
        settled == [copy EXCEPT !.relays = SettleRelayTarget(@, t.relay, w.ok)]
    IN  /\ w \in writes
        /\ writes' = writes \ {w}
        /\ IF t \in targets
           THEN /\ copies' = IF w.msg \in Durable /\ copy.row
                             THEN [copies EXCEPT ![w.msg][t.to] = settled]
                             ELSE copies
                /\ RemoveTargetRow(t)
                /\ IF w.msg \in Durable THEN RecomputeMessageStatus(w.msg)
                   ELSE UNCHANGED <<status, deliveryError>>
           ELSE UNCHANGED <<status, deliveryError, copies, jobs, targets, payloads>>
        /\ UNCHANGED <<nextId, wakeup, locals, process, inflight, aborted, writeFailed>>
        /\ UNCHANGED <<observed, bounds>>

(* processJob returns !aborted once every publish and settlement is done;  *)
(* a rejected settlement makes it throw as soon as the publishes are done. *)
PublishDone ==
    /\ pc = "publish" /\ inflight = {}
    /\ writes = {} \/ writeFailed
    /\ Goto(IF aborted \/ writeFailed THEN "ending" ELSE "loop")
    /\ aborted' = FALSE /\ writeFailed' = FALSE
    /\ UNCHANGED <<database, locals, process, inflight, writes, observed, bounds>>

-----------------------------------------------------------------------------
(* Statements the database rejects. *)

Fault == faults < MaxFaults /\ faults' = faults + 1 /\ UNCHANGED events

(* processJob catches a failure of prepareAllTargets and of                *)
(* ensurePayloads, and fails the job unless it has to pause.               *)
StepFails ==
    /\ Fault
    /\ \/ pc = "resolve" /\ Goto(IF CanRun THEN "abandon" ELSE "ending")
       \/ pc \in {"wrap", "seal"} /\ Goto(IF CanRun THEN "abandonStrip" ELSE "ending")
    /\ UNCHANGED <<database, locals, process, publish, observed>>

(* A copy as failBeforePublish(removePendingTargets) leaves it: without    *)
(* the pending relays of the job, and deleted if it lists none any more.   *)
AbandonedCopy(p) ==
    LET copy     == copies[job.msg][p]
        mine     == {t.relay : t \in {u \in JobTargets(job.id) : u.to = p}}
        stripped == DropPending(copy.relays, mine)
    IN  IF ~ copy.row \/ mine = {} THEN copy
        ELSE IF Listed(stripped) = {} THEN NoCopy
        ELSE [copy EXCEPT !.relays = stripped]

(* failBeforePublish: the message fails unless another job of it remains.  *)
AbandonJob ==
    /\ pc \in {"abandon", "abandonStrip"} /\ Serialized
    /\ copies' = IF IsDurable /\ pc = "abandonStrip"
                 THEN [copies EXCEPT ![job.msg] = [p \in Person |-> AbandonedCopy(p)]]
                 ELSE copies
    /\ DeleteJobRows({job.id})
    /\ IF IsDurable /\ status[job.msg] \notin {"absent", "sent"}
       THEN /\ status' = [status EXCEPT
                   ![job.msg] = IF HasJob(job.msg, jobs') THEN "queued" ELSE "failed"]
            /\ deliveryError' = [deliveryError EXCEPT ![job.msg] = TRUE]
       ELSE UNCHANGED <<status, deliveryError>>
    /\ Goto("loop")
    /\ UNCHANGED <<nextId, locals, process, publish, observed, bounds>>

(* Any other failure is caught by drain, which stops.                      *)
WorkerFails ==
    /\ Fault
    /\ pc \in {"loop", "load", "finish", "check", "skip", "mark", "send",
               "abandon", "abandonStrip"}
    /\ Goto("ending")
    /\ UNCHANGED <<database, locals, process, publish, observed>>

(* A rejected settlement.  Those accepted after it are committed later,    *)
(* possibly beside a worker that has started again.                        *)
WriteFails(w) ==
    /\ Fault /\ SettleFaults
    /\ w \in writes
    /\ writes' = writes \ {w}
    /\ writeFailed' = (writeFailed \/ pc = "publish")
    /\ UNCHANGED <<database, wakeup, locals, process, inflight, aborted, observed>>

-----------------------------------------------------------------------------
User ==
    \/ \E m \in Message, enqueueRelay \in BOOLEAN : StoreRumor(m, enqueueRelay)
    \/ \E m \in Message, scope \in {"all_recipient_relays", "resend_all"} : EnqueueAll(m, scope)
    \/ \E m \in Message, p \in Person, requested \in SUBSET Relay :
           EnqueueRetryTargets(m, p, requested)

Environment ==
    \/ \E a \in Account : Activate(a) \/ RemoveAccount(a)
    \/ Deactivate \/ GoOffline \/ GoOnline \/ EnterBackground \/ EnterForeground \/ Crash

Removal == \E a \in Account : WaitForIdle(a) \/ DeleteAccountData(a)

Worker ==
    \/ NextJob \/ DrainEnded
    \/ LoadJob \/ PrepareAllTargets \/ FinishEmptyJob \/ FindSuccessful
    \/ (\E t \in skipping : SkipTarget(t)) \/ SkipDone
    \/ StartWrap \/ (\E p \in unready : StorePayload(p) \/ FailRecipient(p)) \/ WrapDone
    \/ MarkTargetsPending \/ StartPublish
    \/ (\E t \in inflight, ok \in BOOLEAN : RelayAnswers(t, ok))
    \/ (\E w \in writes : SettleTarget(w))
    \/ PublishDone \/ AbandonJob

Faults == StepFails \/ WorkerFails \/ \E w \in writes : WriteFails(w)

Next == User \/ Environment \/ Removal \/ Worker \/ Faults

Spec == Init /\ [][Next]_vars

(* The event loop runs what is scheduled, a publish answers within its     *)
(* timeout, and a removal under way goes on.  Users, the network and the   *)
(* platform owe nothing.                                                   *)
FairSpec == Spec /\ WF_vars(Worker) /\ WF_vars(Removal)
-----------------------------------------------------------------------------
(* What the outbox promises. *)

(* A pending relay of a recipient copy is the unfinished target of a job.  *)
(* Manual retry is not offered while a relay is pending, so an orphaned    *)
(* one could never be delivered nor retried (prepareAllTargets,            *)
(* markTargetsPending and the three paths that remove targets).            *)
PendingHasTarget ==
    \A m \in Message, p \in Person, r \in Relay :
        copies[m][p].relays[r] = "pending" /\ status[m] # "absent" =>
            \E j \in jobs : j.msg = m /\ [job |-> j.id, to |-> p, relay |-> r] \in targets

(* A message shown as queued has a job in the queue: no path that deletes  *)
(* the last job leaves the message waiting for a delivery nobody owes.     *)
QueuedHasJob ==
    \A m \in Message : status[m] = "queued" => HasJob(m, jobs)

(* An answer that waits to be recorded settles an entry the user reads as  *)
(* pending, or finds it acknowledged: a relay whose entry was dropped when *)
(* an earlier job of the message gave up is listed again before it is      *)
(* published to (prepareAllTargets, markTargetsPending).  Not so a copy    *)
(* that failBeforePublish deleted; a queued retry then settles in no copy. *)
AnswerIsAwaited ==
    \A w \in writes :
        LET t == w.target  copy == copies[w.msg][t.to] IN
        t \in targets /\ w.msg \in Durable /\ copy.row =>
            copy.relays[t.relay] \in {"pending", "ok"}

(* The rows of copies, jobs, targets and messages tell the same story, all *)
(* of them written by different transactions between which anything goes.  *)
RowsAgree == PendingHasTarget /\ QueuedHasJob /\ AnswerIsAwaited

(* A stored gift wrap belongs to a recipient with unfinished targets of    *)
(* the same job: wraps are deleted with their last target.                 *)
PayloadHasTarget ==
    \A w \in payloads : \E t \in targets : t.job = w.job /\ t.to = w.to

(* Publishing never misses a wrap: processJob's "payload is missing" is    *)
(* unreachable.                                                            *)
PublishHasPayload ==
    pc = "send" /\ job \in jobs =>
        \A t \in local : [job |-> t.job, to |-> t.to] \in payloads

(* A wrap lives exactly as long as a target may still need it.             *)
WrapsMatchTargets == PayloadHasTarget /\ PublishHasPayload

(* Once no job of a message remains, what the user reads is the verdict of *)
(* its copies, unless it is sent already or failed as a whole.             *)
QuiescentStatus ==
    \A m \in Durable :
        /\ ~ HasJob(m, jobs) /\ ~ deliveryError[m]
        /\ status[m] \notin {"absent", "none", "sent"}
        => status[m] = MessageDeliveryVerdict(CopyRows(copies[m]), FALSE)

(* A recorded acknowledgement was given by the relay for that recipient;   *)
(* a recorded failure was reported by a publish nobody had cancelled: the  *)
(* end of a session or a loss of network is not turned into a failure.     *)
OutcomesAreReal ==
    \A m \in Message, p \in Person, r \in Relay :
        /\ copies[m][p].relays[r] = "ok" => <<m, p, r>> \in acked
        /\ copies[m][p].relays[r] = "failed" => <<m, p, r>> \in refused

(* Once an account's rows are deleted, work of a session that was still    *)
(* running does not recreate any of them.                                  *)
NoResurrection ==
    \A a \in Account : removal[a] = "done" =>
        /\ \A m \in Message : Owner[m] = a =>
               status[m] = "absent" /\ CopyRows(copies[m]) = {} /\ ~ HasJob(m, jobs)
        /\ \A t \in targets : \E j \in jobs : j.id = t.job
        /\ \A w \in payloads : \E j \in jobs : j.id = w.job

(* A job seals one gift wrap per recipient: after any relay was given the  *)
(* wrap, no other is ever made for that job, through restarts and pauses.  *)
WrapIsReused ==
    [][\A w \in payloads' \ payloads : w \notin published]_vars

(* Only a resend republishes to a relay that has acknowledged the copy.    *)
SkipsAcknowledged ==
    [][pc = "send" /\ pc' = "publish" /\ IsDurable /\ job.scope # "resend_all" =>
           \A t \in local : copies[job.msg][t.to].relays[t.relay] # "ok"]_vars

(* Jobs of an account finish in the order they were enqueued, also across  *)
(* sessions, restarts and retries; only an account's removal drops more.   *)
JobsFinishInOrder ==
    [][(\A a \in Account : removal[a] # "jobs") =>
           \A j \in jobs \ jobs', k \in jobs' :
               Owner[j.msg] = Owner[k.msg] => j.id < k.id]_vars

(* The delivery records obey the ledger's contract.                        *)
Ledger == INSTANCE DeliveryLedger
LedgerSpec == Ledger!Spec

(* "Each job owns a fixed set of recipient/relay targets once preparation  *)
(* succeeds": no target is added to a job that was given its targets.      *)
(* (relay-message-delivery.md; processJob prepares a job without targets,  *)
(* also one that lost them when its recipients could not be wrapped.)      *)
TargetsAreFixed ==
    [][\A t \in targets' \ targets : t.job \notin prepared]_vars

(* "A copy that has not met its threshold and still has work keeps the     *)
(* message queued" (relay-message-delivery.md; messageDeliveryVerdict).    *)
UnfinishedCopyIsQueued ==
    \A m \in Durable, t \in targets :
        /\ status[m] \notin {"absent", "none", "sent"}
        /\ \E j \in jobs : j.id = t.job /\ j.msg = m
        /\ DeliveryCopyVerdict(copies[m][t.to].relays) # "delivered"
        => status[m] = "queued"

(* With the session, the network and the app state finally left alone,     *)
(* every job of the active account is finished: no wake is lost.  A        *)
(* statement that is rejected stops the drain until the next wake.         *)
Stable(a) == session = a /\ online /\ foreground
JobsSettle ==
    \A a \in Account : <>[]Stable(a) /\ [](faults = 0) => <>[](AccountJobs(a) = {})
=============================================================================
