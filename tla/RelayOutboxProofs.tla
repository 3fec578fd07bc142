-------------------------- MODULE RelayOutboxProofs --------------------------
(***************************************************************************)
(* Theorems of RelayOutbox for every value of its constants: any number of *)
(* accounts, recipients, relays, messages, jobs, interruptions and         *)
(* rejected statements, and whichever relays recipients resolve to.        *)
(***************************************************************************)
EXTENDS RelayOutbox, TLAPS, WellFoundedInduction

-----------------------------------------------------------------------------
(* The operators the actions are built from. *)

(* A recomputed verdict is a status a message can have. *)
LEMMA VerdictType ==
    ASSUME NEW rows, NEW hasUnfinishedJob
    PROVE  MessageDeliveryVerdict(rows, hasUnfinishedJob)
               \in {"queued", "sent", "partial", "failed"}
  BY DEF MessageDeliveryVerdict

(* The three updates of a copy's relay list yield a relay list. *)
LEMMA RelayListType ==
    ASSUME NEW relays \in [Relay -> Entry], NEW some, NEW relay, NEW ok
    PROVE  /\ BeginRelayTargets(relays, some) \in [Relay -> Entry]
           /\ SettleRelayTarget(relays, relay, ok) \in [Relay -> Entry]
           /\ DropPending(relays, some) \in [Relay -> Entry]
  BY DEF Entry, BeginRelayTargets, SettleRelayTarget, DropPending

(* The query of drain finds the oldest of some jobs. *)
LEMMA OldestJob ==
    ASSUME NEW rows, rows \subseteq JobRow, rows # {}
    PROVE  LET oldest == CHOOSE j \in rows : \A k \in rows : j.id <= k.id
           IN  oldest \in rows /\ \A k \in rows : oldest.id <= k.id
<1> USE OutboxConstants
<1> DEFINE ids == {j.id : j \in rows}
<1>1. ids \subseteq Nat /\ ids # {}
  BY DEF JobRow, OutboxConstants
<1> DEFINE less == OpToRel(<, Nat)
<1>2. PICK least \in ids : \A id \in ids : ~ (<<id, least>> \in less)
  <2>1. IsWellFoundedOn(less, Nat)
    BY NatLessThanWellFounded
  <2> HIDE DEF less, ids
  <2> QED
    BY <1>1, <2>1, WFMin
<1>3. ASSUME NEW id \in ids PROVE least <= id
  <2>1. less = {p \in Nat \X Nat : p[1] < p[2]}
    BY DEF OpToRel
  <2>2. id < least => <<id, least>> \in less
    BY <1>1, <2>1
  <2>3. id \in Nat /\ least \in Nat
    BY <1>1
  <2> HIDE DEF less, ids
  <2> QED
    BY <1>2, <1>3, <2>2, <2>3
<1>4. \E j \in rows : \A k \in rows : j.id <= k.id
  BY <1>3
<1> QED
  BY <1>4

-----------------------------------------------------------------------------
(* Type correctness, one conjunct per group of variables. *)

DatabaseType ==
    /\ status \in [Message -> Status]
    /\ deliveryError \in [Message -> BOOLEAN]
    /\ copies \in [Message -> [Person -> Copy]]
    /\ jobs \subseteq JobRow
    /\ nextId \in 1..(MaxJobs + 1)
    /\ targets \subseteq Target
    /\ payloads \subseteq Payload
ProcessType ==
    /\ session \in Account \cup {NoSession}
    /\ online \in BOOLEAN /\ foreground \in BOOLEAN
    /\ removal \in [Account -> RemovalStage]
WakeupType ==
    /\ wakeRequested \in BOOLEAN
    /\ pc \in PC
    /\ serving \in Account \cup {NoSession}
    /\ current \in BOOLEAN
LocalsType ==
    /\ job \in JobRow \cup {NoJob}
    /\ local \subseteq Target /\ skipping \subseteq Target
    /\ unready \subseteq Person
PublishType ==
    /\ inflight \subseteq Target
    /\ aborted \in BOOLEAN /\ writeFailed \in BOOLEAN
    /\ writes \subseteq [target : Target, msg : Message, ok : BOOLEAN]
ObservedType ==
    /\ acked \subseteq Message \X Person \X Relay
    /\ refused \subseteq Message \X Person \X Relay
    /\ published \subseteq Payload
    /\ prepared \subseteq 1..MaxJobs
BoundsType == events \in 0..MaxEvents /\ faults \in 0..MaxFaults

(* The worker holds a job wherever it works on one. *)
JobHeld == pc \notin {"idle", "loop", "ending"} => job \in JobRow

TypeInv ==
    /\ DatabaseType /\ ProcessType /\ WakeupType /\ LocalsType
    /\ PublishType /\ ObservedType /\ BoundsType
    /\ JobHeld

LEMMA TypeParts == TypeInv => TypeOK
  BY DEF TypeInv, TypeOK, DatabaseType, ProcessType, WakeupType, LocalsType,
         PublishType, ObservedType, BoundsType

(* A group of variables that a step leaves alone keeps its type. *)
LEMMA Frame ==
    ASSUME TypeInv
    PROVE  /\ UNCHANGED database => DatabaseType'
           /\ UNCHANGED process => ProcessType'
           /\ UNCHANGED wakeup => WakeupType'
           /\ UNCHANGED locals => LocalsType'
           /\ UNCHANGED publish => PublishType'
           /\ UNCHANGED observed => ObservedType'
           /\ UNCHANGED bounds => BoundsType'
           /\ pc' = pc /\ job' = job => JobHeld'
  BY DEF TypeInv, DatabaseType, ProcessType, WakeupType, LocalsType,
         PublishType, ObservedType, BoundsType, JobHeld,
         database, process, wakeup, locals, publish, observed, bounds

(* Waking the worker. *)
LEMMA WakeType ==
    ASSUME TypeInv, Wake \/ UNCHANGED wakeup,
           session' \in Account \cup {NoSession}, job' = job
    PROVE  WakeupType' /\ JobHeld'
  BY DEF TypeInv, WakeupType, JobHeld, Wake, StartDrain, PC, wakeup

LEMMA TypeInit == Init => TypeInv
<1> SUFFICES ASSUME Init PROVE TypeInv
  OBVIOUS
<1> USE OutboxConstants DEF OutboxConstants, Init
<1>1. DatabaseType
  <2>1. NoCopy \in Copy
    BY DEF NoCopy, Copy, Entry
  <2> QED
    BY <2>1 DEF DatabaseType, Status
<1>2. ProcessType /\ WakeupType /\ LocalsType /\ PublishType /\ JobHeld
  BY DEF ProcessType, WakeupType, LocalsType, PublishType, JobHeld, RemovalStage, PC
<1>3. ObservedType /\ BoundsType
  BY DEF ObservedType, BoundsType
<1> QED
  BY <1>1, <1>2, <1>3 DEF TypeInv

LEMMA QueuedType ==
    ASSUME TypeInv, NEW m \in Message, MarkQueued(m) \/ UNCHANGED <<status, deliveryError>>
    PROVE  status' \in [Message -> Status] /\ deliveryError' \in [Message -> BOOLEAN]
  BY DEF TypeInv, DatabaseType, MarkQueued, Status

LEMMA TypeUser ==
    ASSUME TypeInv, User PROVE TypeInv'
<1> USE OutboxConstants DEF OutboxConstants
<1>1. ASSUME NEW m \in Message, NEW enqueueRelay \in BOOLEAN, StoreRumor(m, enqueueRelay)
      PROVE  TypeInv'
  <2>1. DatabaseType'
    BY <1>1 DEF StoreRumor, TypeInv, DatabaseType, Status, JobRow, Scope
  <2>2. WakeupType' /\ JobHeld'
    BY <1>1, WakeType
       DEF StoreRumor, WakeFor, TypeInv, ProcessType, process, locals
  <2> QED
    BY <1>1, <2>1, <2>2, Frame DEF StoreRumor, TypeInv
<1>2. ASSUME NEW m \in Message, NEW scope \in {"all_recipient_relays", "resend_all"},
             EnqueueAll(m, scope)
      PROVE  TypeInv'
  <2>1. DatabaseType'
    <3>1. CASE UNCHANGED database
      BY <3>1, Frame
    <3>2. CASE ~ UNCHANGED database
      <4>1. [id |-> nextId, msg |-> m, scope |-> scope, to |-> {}] \in JobRow
        BY <1>2, <3>2 DEF EnqueueAll, TypeInv, DatabaseType, JobRow, Scope
      <4>2. status' \in [Message -> Status] /\ deliveryError' \in [Message -> BOOLEAN]
        BY <1>2, <3>2, QueuedType DEF EnqueueAll
      <4>3. /\ jobs' = jobs \cup {[id |-> nextId, msg |-> m, scope |-> scope, to |-> {}]}
            /\ nextId <= MaxJobs /\ nextId' = nextId + 1
            /\ UNCHANGED <<copies, targets, payloads>>
        BY <1>2, <3>2 DEF EnqueueAll
      <4>4. nextId' \in 1..(MaxJobs + 1)
        BY <4>3 DEF TypeInv, DatabaseType
      <4>5. jobs' \subseteq JobRow
        BY <4>1, <4>3 DEF TypeInv, DatabaseType
      <4> QED
        BY <4>2, <4>3, <4>4, <4>5 DEF TypeInv, DatabaseType
    <3> QED
      BY <3>1, <3>2
  <2>2. WakeupType' /\ JobHeld'
    BY <1>2, WakeType
       DEF EnqueueAll, WakeFor, TypeInv, ProcessType, process, locals
  <2> QED
    BY <1>2, <2>1, <2>2, Frame DEF EnqueueAll, TypeInv
<1>3. ASSUME NEW m \in Message, NEW p \in Person, NEW requested \in SUBSET Relay,
             EnqueueRetryTargets(m, p, requested)
      PROVE  TypeInv'
  <2> DEFINE retried == WithEntry(copies[m][p].relays, "failed") \cap requested
             idle == retried = {} /\ ~ copies[m][p].error
  <2>0. idle => UNCHANGED <<database, prepared>>
    BY <1>3 DEF EnqueueRetryTargets
  <2>1. DatabaseType'
    <3> SUFFICES ASSUME ~ idle PROVE DatabaseType'
      BY <2>0, Frame
    <3>1. {[job |-> nextId, to |-> p, relay |-> r] : r \in retried} \subseteq Target
      BY <1>3 DEF EnqueueRetryTargets, TypeInv, DatabaseType, Target
    <3>2. [id |-> nextId, msg |-> m, scope |-> "selected_copy", to |-> {p}] \in JobRow
      BY <1>3 DEF EnqueueRetryTargets, TypeInv, DatabaseType, JobRow, Scope
    <3>3. status' \in [Message -> Status] /\ deliveryError' \in [Message -> BOOLEAN]
      BY <1>3, QueuedType DEF EnqueueRetryTargets
    <3>4. /\ jobs' = jobs \cup
               {[id |-> nextId, msg |-> m, scope |-> "selected_copy", to |-> {p}]}
          /\ targets' = targets \cup
               {[job |-> nextId, to |-> p, relay |-> r] : r \in retried}
          /\ nextId <= MaxJobs /\ nextId' = nextId + 1
          /\ UNCHANGED <<copies, payloads>>
      BY <1>3 DEF EnqueueRetryTargets
    <3>5. nextId' \in 1..(MaxJobs + 1)
      BY <3>4 DEF TypeInv, DatabaseType
    <3>6. jobs' \subseteq JobRow
      BY <3>2, <3>4 DEF TypeInv, DatabaseType
    <3>7. targets' \subseteq Target
      BY <3>1, <3>4 DEF TypeInv, DatabaseType
    <3> QED
      BY <3>3, <3>4, <3>5, <3>6, <3>7 DEF TypeInv, DatabaseType
  <2>2. WakeupType' /\ JobHeld'
    BY <1>3, WakeType
       DEF EnqueueRetryTargets, WakeFor, TypeInv, ProcessType, process, locals
  <2>3. ObservedType'
    <3> SUFFICES ASSUME ~ idle PROVE ObservedType'
      BY <1>3, <2>0 DEF EnqueueRetryTargets, TypeInv, ObservedType
    <3>1. acked' = acked /\ refused' = refused /\ published' = published
      BY <1>3 DEF EnqueueRetryTargets
    <3>2. prepared' \subseteq prepared \cup {nextId} /\ nextId \in 1..MaxJobs
      BY <1>3 DEF EnqueueRetryTargets, TypeInv, DatabaseType
    <3> QED
      BY <3>1, <3>2 DEF TypeInv, ObservedType
  <2> QED
    BY <1>3, <2>1, <2>2, <2>3, Frame DEF EnqueueRetryTargets, TypeInv
<1> QED
  BY <1>1, <1>2, <1>3 DEF User

LEMMA TypeEnvironment ==
    ASSUME TypeInv, Environment PROVE TypeInv'
<1> USE OutboxConstants DEF OutboxConstants
<1>0. Event /\ faults' = faults => BoundsType'
  BY DEF Event, TypeInv, BoundsType
<1>1. ASSUME NEW a \in Account, Activate(a) PROVE TypeInv'
  <2>1. ProcessType' /\ WakeupType' /\ JobHeld'
    BY <1>1 DEF Activate, StartDrain, locals, TypeInv, ProcessType, WakeupType, JobHeld, PC
  <2>2. PublishType'
    BY <1>1 DEF Activate, TypeInv, PublishType
  <2> QED
    BY <1>0, <1>1, <2>1, <2>2, Frame DEF Activate, TypeInv
<1>2. ASSUME NEW a \in Account, RemoveAccount(a) PROVE TypeInv'
  <2>1. WakeupType' /\ JobHeld' /\ PublishType'
    BY <1>2 DEF RemoveAccount, EndSession, wakeup, publish, locals, TypeInv, WakeupType,
               JobHeld, PublishType
  <2>2. ProcessType'
    BY <1>2 DEF RemoveAccount, EndSession, TypeInv, ProcessType, RemovalStage
  <2> QED
    BY <1>0, <1>2, <2>1, <2>2, Frame DEF RemoveAccount, TypeInv
<1>3. CASE Deactivate
  <2>1. ProcessType' /\ WakeupType' /\ JobHeld' /\ PublishType'
    BY <1>3 DEF Deactivate, EndSession, locals, TypeInv, ProcessType, WakeupType, JobHeld,
               PublishType
  <2> QED
    BY <1>0, <1>3, <2>1, Frame DEF Deactivate, TypeInv
<1>4. CASE GoOffline
  <2>1. ProcessType' /\ PublishType' /\ pc' = pc /\ job' = job
    BY <1>4 DEF GoOffline, wakeup, locals, TypeInv, ProcessType, PublishType
  <2> QED
    BY <1>0, <1>4, <2>1, Frame DEF GoOffline, TypeInv
<1>5. CASE GoOnline
  <2>1. ProcessType' /\ WakeupType' /\ JobHeld'
    BY <1>5, WakeType DEF GoOnline, locals, TypeInv, ProcessType
  <2> QED
    BY <1>0, <1>5, <2>1, Frame DEF GoOnline, TypeInv
<1>6. CASE EnterBackground
  <2>1. ProcessType' /\ pc' = pc /\ job' = job
    BY <1>6 DEF EnterBackground, wakeup, locals, TypeInv, ProcessType
  <2> QED
    BY <1>0, <1>6, <2>1, Frame DEF EnterBackground, TypeInv
<1>7. CASE EnterForeground
  <2>1. ProcessType' /\ WakeupType' /\ JobHeld'
    BY <1>7, WakeType DEF EnterForeground, locals, TypeInv, ProcessType
  <2> QED
    BY <1>0, <1>7, <2>1, Frame DEF EnterForeground, TypeInv
<1>8. CASE Crash
  <2>1. ProcessType' /\ WakeupType' /\ JobHeld'
    BY <1>8 DEF Crash, TypeInv, ProcessType, WakeupType, JobHeld, PC, RemovalStage
  <2>2. LocalsType' /\ PublishType'
    BY <1>8 DEF Crash, LocalsType, PublishType
  <2>3. BoundsType'
    BY <1>0, <1>8 DEF Crash
  <2> QED
    BY <1>8, <2>1, <2>2, <2>3, Frame DEF Crash, TypeInv
<1> QED
  BY <1>1, <1>2, <1>3, <1>4, <1>5, <1>6, <1>7, <1>8 DEF Environment

(* Deleting jobs or a target only shrinks the three tables of the queue. *)
LEMMA DeleteJobRowsType ==
    ASSUME TypeInv, NEW ids, DeleteJobRows(ids)
    PROVE  jobs' \subseteq JobRow /\ targets' \subseteq Target /\ payloads' \subseteq Payload
  BY DEF TypeInv, DatabaseType, DeleteJobRows

LEMMA RemoveTargetRowType ==
    ASSUME TypeInv, NEW t, RemoveTargetRow(t)
    PROVE  jobs' \subseteq JobRow /\ targets' \subseteq Target /\ payloads' \subseteq Payload
  BY DEF TypeInv, DatabaseType, RemoveTargetRow

LEMMA RecomputeType ==
    ASSUME TypeInv, NEW m \in Message,
           RecomputeMessageStatus(m) \/ UNCHANGED <<status, deliveryError>>
    PROVE  status' \in [Message -> Status] /\ deliveryError' \in [Message -> BOOLEAN]
<1>1. RecomputedStatus(m, copies', jobs') \in Status
  BY VerdictType DEF RecomputedStatus, TypeInv, DatabaseType, Status
<1> QED
  BY <1>1 DEF RecomputeMessageStatus, TypeInv, DatabaseType

LEMMA TypeRemoval ==
    ASSUME TypeInv, Removal PROVE TypeInv'
<1>1. ASSUME NEW a \in Account, WaitForIdle(a) PROVE TypeInv'
  <2>1. ProcessType' /\ pc' = pc /\ job' = job
    BY <1>1 DEF WaitForIdle, TypeInv, ProcessType, RemovalStage, wakeup, locals
  <2> QED
    BY <1>1, <2>1, Frame DEF WaitForIdle, TypeInv
<1>2. ASSUME NEW a \in Account, DeleteAccountData(a) PROVE TypeInv'
  <2>1. ProcessType' /\ pc' = pc /\ job' = job
    BY <1>2 DEF DeleteAccountData, TypeInv, ProcessType, RemovalStage, wakeup, locals
  <2>2. status' \in [Message -> Status] /\ deliveryError' \in [Message -> BOOLEAN]
    BY <1>2 DEF DeleteAccountData, TypeInv, DatabaseType, Status
  <2>3. copies' \in [Message -> [Person -> Copy]]
    <3>1. NoCopy \in Copy
      BY DEF NoCopy, Copy, Entry
    <3> QED
      BY <1>2, <3>1 DEF DeleteAccountData, TypeInv, DatabaseType
  <2>4. jobs' \subseteq JobRow /\ targets' \subseteq Target /\ payloads' \subseteq Payload
    BY <1>2, DeleteJobRowsType DEF DeleteAccountData, TypeInv, DatabaseType
  <2>5. nextId' = nextId
    BY <1>2 DEF DeleteAccountData
  <2>6. DatabaseType'
    BY <2>2, <2>3, <2>4, <2>5 DEF TypeInv, DatabaseType
  <2> QED
    BY <1>2, <2>1, <2>6, Frame DEF DeleteAccountData, TypeInv
<1> QED
  BY <1>1, <1>2 DEF Removal

(* Moving on to a step that works on a job, with a job in hand. *)
LEMMA GotoType ==
    ASSUME TypeInv, NEW label \in PC, Goto(label), job' \in JobRow \cup {NoJob},
           label \in {"idle", "loop", "ending"} \/ job' \in JobRow
    PROVE  WakeupType' /\ JobHeld'
  BY DEF TypeInv, WakeupType, JobHeld, Goto

LEMMA TypeDrain ==
    ASSUME TypeInv, NextJob \/ DrainEnded PROVE TypeInv'
<1>1. CASE NextJob
  <2>1. AccountJobs(serving) \subseteq JobRow
    BY DEF AccountJobs, TypeInv, DatabaseType
  <2>2. pc' \in {"load", "ending"} /\ Goto(pc') /\ job' \in JobRow \cup {NoJob}
        /\ (pc' = "load" => job' \in JobRow)
    BY <1>1, <2>1, OldestJob DEF NextJob, Goto
  <2>3. WakeupType' /\ JobHeld'
    BY <2>2, GotoType DEF PC
  <2>4. LocalsType'
    BY <1>1, <2>2 DEF NextJob, LocalsType
  <2> QED
    BY <1>1, <2>3, <2>4, Frame DEF NextJob, TypeInv
<1>2. CASE DrainEnded
  <2>1. WakeupType' /\ JobHeld'
    BY <1>2 DEF DrainEnded, StartDrain, Goto, process, TypeInv, ProcessType, WakeupType, JobHeld, PC
  <2>2. LocalsType'
    BY <1>2 DEF DrainEnded, LocalsType
  <2> QED
    BY <1>2, <2>1, <2>2, Frame DEF DrainEnded, TypeInv
<1> QED
  BY <1>1, <1>2

(* The transaction of prepareAllTargets writes well-formed rows. *)
LEMMA CommitTargetsType ==
    ASSUME TypeInv, job \in JobRow, NEW resolved \in [Recipients -> RelayLists],
           CommitTargets(resolved)
    PROVE  /\ status' \in [Message -> Status]
           /\ deliveryError' \in [Message -> BOOLEAN]
           /\ copies' \in [Message -> [Person -> Copy]]
           /\ jobs' \subseteq JobRow /\ targets' \subseteq Target
           /\ local' \subseteq Target /\ prepared' \subseteq 1..MaxJobs
           /\ \E label \in {"finish", "check"} : Goto(label)
<1> USE OutboxConstants DEF OutboxConstants
<1>1. job.msg \in Message /\ job.id \in 1..MaxJobs /\ Recipients \subseteq Person
  BY DEF JobRow, Recipients
<1>2. targets' \subseteq Target
  BY <1>1 DEF CommitTargets, TypeInv, DatabaseType, Target
<1>3. local' \subseteq Target /\ prepared' \subseteq 1..MaxJobs
  BY <1>1, <1>2 DEF CommitTargets, TypeInv, ObservedType
<1>4. copies' \in [Message -> [Person -> Copy]]
  <2>1. CASE ~ IsDurable
    BY <2>1 DEF CommitTargets, TypeInv, DatabaseType
  <2>2. CASE IsDurable
    <3> DEFINE freshCopy(p) ==
            [row    |-> TRUE,
             relays |-> BeginRelayTargets(copies[job.msg][p].relays, resolved[p]),
             error  |-> resolved[p] = {}]
        new == [p \in Person |-> IF p \in Recipients THEN freshCopy(p) ELSE copies[job.msg][p]]
    <3>1. \A p \in Person : copies[job.msg][p] \in Copy
      BY <1>1 DEF TypeInv, DatabaseType
    <3>2. \A p \in Person : freshCopy(p) \in Copy
      BY <3>1, RelayListType DEF Copy
    <3>3. new \in [Person -> Copy]
      BY <3>1, <3>2
    <3>4. copies' = [copies EXCEPT ![job.msg] = new]
      BY <1>1, <2>2 DEF CommitTargets, TypeInv, DatabaseType
    <3> HIDE DEF new
    <3> QED
      BY <1>1, <3>3, <3>4 DEF TypeInv, DatabaseType
  <2> QED
    BY <2>1, <2>2
<1>5. status' \in [Message -> Status]
  <2>1. RecomputedStatus(job.msg, copies', jobs) \in Status
    BY <1>1, VerdictType DEF RecomputedStatus, TypeInv, DatabaseType, Status
  <2> QED
    BY <2>1 DEF CommitTargets, TypeInv, DatabaseType
<1>6. deliveryError' \in [Message -> BOOLEAN]
  BY <1>1 DEF CommitTargets, TypeInv, DatabaseType
<1>7. jobs' \subseteq JobRow
  BY DEF CommitTargets, TypeInv, DatabaseType
<1>8. \E label \in {"finish", "check"} : Goto(label)
  BY DEF CommitTargets
<1> QED
  BY <1>2, <1>3, <1>4, <1>5, <1>6, <1>7, <1>8

(* Writing one recipient's copy. *)
LEMMA CopyUpdateType ==
    ASSUME DatabaseType, NEW m \in Message, NEW p \in Person, NEW copy \in Copy
    PROVE  [copies EXCEPT ![m][p] = copy] \in [Message -> [Person -> Copy]]
<1>1. [copies[m] EXCEPT ![p] = copy] \in [Person -> Copy]
  BY DEF DatabaseType
<1> QED
  BY <1>1 DEF DatabaseType

(* The steps from loading a job to its skipped targets. *)
LEMMA TypeLoad ==
    ASSUME TypeInv,
           \/ LoadJob \/ PrepareAllTargets \/ FinishEmptyJob \/ FindSuccessful
           \/ (\E t \in skipping : SkipTarget(t)) \/ SkipDone
    PROVE  TypeInv'
<1> USE DEF PC
<1>1. CASE LoadJob
  <2>1. job \in JobRow /\ job' = job
    BY <1>1 DEF LoadJob, TypeInv, JobHeld
  <2>2. \E label \in {"loop", "resolve", "check"} : Goto(label)
    BY <1>1 DEF LoadJob
  <2>3. WakeupType' /\ JobHeld'
    BY <2>1, <2>2, GotoType
  <2>4. DatabaseType'
    BY <1>1, DeleteJobRowsType DEF LoadJob, TypeInv, DatabaseType
  <2>5. LocalsType'
    BY <1>1 DEF LoadJob, JobTargets, TypeInv, LocalsType, DatabaseType
  <2> QED
    BY <1>1, <2>3, <2>4, <2>5, Frame DEF LoadJob, TypeInv
<1>2. CASE PrepareAllTargets
  <2>1. job \in JobRow /\ job' = job
    BY <1>2 DEF PrepareAllTargets, TypeInv, JobHeld
  <2>2. CASE ~ CanRun
    <3>1. WakeupType' /\ JobHeld'
      BY <1>2, <2>1, <2>2, GotoType DEF PrepareAllTargets
    <3>2. UNCHANGED <<database, locals, observed>>
      BY <1>2, <2>2 DEF PrepareAllTargets, database, locals, observed
    <3> QED
      BY <1>2, <3>1, <3>2, Frame DEF PrepareAllTargets, TypeInv
  <2>3. CASE CanRun
    <3>1. PICK resolved \in [Recipients -> RelayLists] :
              \/ CommitTargets(resolved)
              \/ /\ Goto("abandon")
                 /\ UNCHANGED <<targets, jobs, copies, status, deliveryError, local, prepared>>
      BY <1>2, <2>3 DEF PrepareAllTargets
    <3>2. CASE Goto("abandon") /\ UNCHANGED <<targets, jobs, copies, status, deliveryError,
                                              local, prepared>>
      <4>1. WakeupType' /\ JobHeld'
        BY <2>1, <3>2, GotoType
      <4>2. UNCHANGED <<database, locals, observed>>
        BY <1>2, <3>2 DEF PrepareAllTargets, database, locals, observed
      <4> QED
        BY <1>2, <4>1, <4>2, Frame DEF PrepareAllTargets, TypeInv
    <3>3. CASE CommitTargets(resolved)
      <4>1. DatabaseType'
        BY <1>2, <2>1, <3>3, CommitTargetsType DEF PrepareAllTargets, TypeInv, DatabaseType
      <4>2. LocalsType' /\ ObservedType'
        BY <1>2, <2>1, <3>3, CommitTargetsType
           DEF PrepareAllTargets, TypeInv, LocalsType, ObservedType
      <4>3. WakeupType' /\ JobHeld'
        BY <2>1, <3>3, CommitTargetsType, GotoType
      <4> QED
        BY <1>2, <4>1, <4>2, <4>3, Frame DEF PrepareAllTargets, TypeInv
    <3> QED
      BY <3>1, <3>2, <3>3
  <2> QED
    BY <2>2, <2>3
<1>3. CASE FinishEmptyJob
  <2>1. job \in JobRow /\ job' = job /\ job.msg \in Message
    BY <1>3 DEF FinishEmptyJob, locals, TypeInv, JobHeld, JobRow
  <2>2. DatabaseType'
    BY <1>3, <2>1, DeleteJobRowsType, RecomputeType DEF FinishEmptyJob, TypeInv, DatabaseType
  <2>3. WakeupType' /\ JobHeld'
    BY <1>3, <2>1, GotoType DEF FinishEmptyJob
  <2> QED
    BY <1>3, <2>2, <2>3, Frame DEF FinishEmptyJob, TypeInv
<1>4. CASE FindSuccessful
  <2>1. job \in JobRow /\ job' = job
    BY <1>4 DEF FindSuccessful, TypeInv, JobHeld
  <2>2. WakeupType' /\ JobHeld'
    BY <1>4, <2>1, GotoType DEF FindSuccessful
  <2>3. LocalsType'
    BY <1>4 DEF FindSuccessful, TypeInv, LocalsType
  <2> QED
    BY <1>4, <2>2, <2>3, Frame DEF FindSuccessful, TypeInv
<1>5. ASSUME NEW t \in skipping, SkipTarget(t) PROVE TypeInv'
  <2>1. job \in JobRow /\ job.msg \in Message /\ job' = job /\ pc' = pc
    BY <1>5 DEF SkipTarget, wakeup, TypeInv, JobHeld, JobRow
  <2>2. DatabaseType'
    BY <1>5, <2>1, RemoveTargetRowType, RecomputeType DEF SkipTarget, TypeInv, DatabaseType
  <2>3. LocalsType'
    BY <1>5 DEF SkipTarget, TypeInv, LocalsType
  <2> QED
    BY <1>5, <2>1, <2>2, <2>3, Frame DEF SkipTarget, TypeInv
<1>6. CASE SkipDone
  <2>1. job \in JobRow /\ job' = job
    BY <1>6 DEF SkipDone, TypeInv, JobHeld
  <2>2. WakeupType' /\ JobHeld'
    BY <1>6, <2>1, GotoType DEF SkipDone
  <2>3. LocalsType'
    BY <1>6 DEF SkipDone, TypeInv, LocalsType, Target
  <2> QED
    BY <1>6, <2>2, <2>3, Frame DEF SkipDone, TypeInv
<1> QED
  BY <1>1, <1>2, <1>3, <1>4, <1>5, <1>6

(* The steps that seal the gift wraps. *)
LEMMA TypeWrap ==
    ASSUME TypeInv,
           \/ StartWrap \/ (\E p \in unready : StorePayload(p) \/ FailRecipient(p)) \/ WrapDone
           \/ MarkTargetsPending
    PROVE  TypeInv'
<1> USE DEF PC
<1>0. job \in JobRow /\ job.msg \in Message /\ job.id \in 1..MaxJobs
  BY DEF StartWrap, StorePayload, FailRecipient, WrapDone, MarkTargetsPending, TypeInv, JobHeld,
         JobRow
<1>1. CASE StartWrap
  <2>1. WakeupType' /\ JobHeld'
    BY <1>0, <1>1, GotoType DEF StartWrap, locals
  <2> QED
    BY <1>1, <2>1, Frame DEF StartWrap, TypeInv
<1>2. ASSUME NEW p \in unready, StorePayload(p) PROVE TypeInv'
  <2>1. WakeupType' /\ JobHeld'
    BY <1>0, <1>2, GotoType DEF StorePayload
  <2>2. LocalsType'
    BY <1>2 DEF StorePayload, TypeInv, LocalsType
  <2>3. [job |-> job.id, to |-> p] \in Payload
    BY <1>0 DEF TypeInv, LocalsType, Payload
  <2>4. DatabaseType'
    BY <1>2, <2>3 DEF StorePayload, TypeInv, DatabaseType
  <2> QED
    BY <1>2, <2>1, <2>2, <2>4, Frame DEF StorePayload, TypeInv
<1>3. ASSUME NEW p \in unready, FailRecipient(p) PROVE TypeInv'
  <2>1. job' = job /\ \E label \in {"wrap", "ending"} : Goto(label)
    BY <1>3 DEF FailRecipient
  <2>2. WakeupType' /\ JobHeld'
    BY <1>0, <2>1, GotoType
  <2>3. LocalsType'
    BY <1>3 DEF FailRecipient, TypeInv, LocalsType
  <2>4. status' \in [Message -> Status] /\ deliveryError' \in [Message -> BOOLEAN]
    BY <1>0, <1>3, RecomputeType DEF FailRecipient
  <2>5. copies' \in [Message -> [Person -> Copy]]
    <3>1. p \in Person /\ copies[job.msg][p] \in Copy
      BY <1>0 DEF TypeInv, LocalsType, DatabaseType
    <3> DEFINE mine == {t \in JobTargets(job.id) : t.to = p}
               copy == copies[job.msg][p]
               failed == [copy EXCEPT !.relays = DropPending(@, {t.relay : t \in mine}),
                                      !.error = TRUE]
    <3>2. failed \in Copy
      BY <3>1, RelayListType DEF Copy
    <3>3. CASE CanRun /\ IsDurable
      <4>1. copies' = [copies EXCEPT ![job.msg][p] = IF copy.row THEN failed ELSE copy]
        BY <1>3, <3>3 DEF FailRecipient
      <4>2. (IF copy.row THEN failed ELSE copy) \in Copy
        BY <3>1, <3>2
      <4> HIDE DEF failed, copy
      <4> QED
        BY <1>0, <3>1, <4>1, <4>2, CopyUpdateType DEF TypeInv
    <3>4. CASE ~ (CanRun /\ IsDurable)
      BY <1>3, <3>4 DEF FailRecipient, TypeInv, DatabaseType
    <3> QED
      BY <3>3, <3>4
  <2>6. DatabaseType'
    BY <1>3, <2>4, <2>5 DEF FailRecipient, TypeInv, DatabaseType
  <2> QED
    BY <1>3, <2>2, <2>3, <2>6, Frame DEF FailRecipient, TypeInv
<1>4. CASE WrapDone
  <2>1. WakeupType' /\ JobHeld'
    BY <1>0, <1>4, GotoType DEF WrapDone
  <2>2. LocalsType'
    BY <1>4 DEF WrapDone, JobTargets, TypeInv, LocalsType, DatabaseType
  <2> QED
    BY <1>4, <2>1, <2>2, Frame DEF WrapDone, TypeInv
<1>5. CASE MarkTargetsPending
  <2>1. WakeupType' /\ JobHeld'
    BY <1>0, <1>5, GotoType DEF MarkTargetsPending, locals
  <2>2. copies' \in [Message -> [Person -> Copy]]
    <3> DEFINE mine(p)   == {t.relay : t \in {u \in local : u.to = p}}
               copy(p)   == copies[job.msg][p]
               marked(p) == [copy(p) EXCEPT !.relays = BeginRelayTargets(copy(p).relays, mine(p)),
                                            !.error = FALSE]
               new == [p \in Person |-> IF copy(p).row /\ mine(p) # {} THEN marked(p) ELSE copy(p)]
    <3>1. \A p \in Person : copy(p) \in Copy
      BY <1>0 DEF TypeInv, DatabaseType
    <3>2. \A p \in Person : marked(p) \in Copy
      BY <3>1, RelayListType DEF Copy
    <3>3. new \in [Person -> Copy]
      BY <3>1, <3>2
    <3>4. copies' = copies \/ copies' = [copies EXCEPT ![job.msg] = new]
      BY <1>0, <1>5 DEF MarkTargetsPending, TypeInv, DatabaseType
    <3> HIDE DEF new
    <3> QED
      BY <1>0, <3>3, <3>4 DEF TypeInv, DatabaseType
  <2>3. DatabaseType'
    BY <1>5, <2>2 DEF MarkTargetsPending, TypeInv, DatabaseType
  <2> QED
    BY <1>5, <2>1, <2>3, Frame DEF MarkTargetsPending, TypeInv
<1> QED
  BY <1>1, <1>2, <1>3, <1>4, <1>5

(* The steps around a publish, and giving a job up. *)
LEMMA TypePublish ==
    ASSUME TypeInv,
           \/ StartPublish \/ (\E t \in inflight, ok \in BOOLEAN : RelayAnswers(t, ok))
           \/ (\E w \in writes : SettleTarget(w))
           \/ PublishDone \/ AbandonJob
    PROVE  TypeInv'
<1> USE DEF PC
<1>1. CASE StartPublish
  <2>1. WakeupType' /\ JobHeld'
    BY <1>1, GotoType DEF StartPublish, locals, TypeInv, JobHeld
  <2>2. PublishType'
    BY <1>1 DEF StartPublish, TypeInv, LocalsType, PublishType
  <2>3. ObservedType'
    BY <1>1 DEF StartPublish, TypeInv, LocalsType, ObservedType, Target, Payload
  <2> QED
    BY <1>1, <2>1, <2>2, <2>3, Frame DEF StartPublish, TypeInv
<1>2. ASSUME NEW t \in inflight, NEW ok \in BOOLEAN, RelayAnswers(t, ok) PROVE TypeInv'
  <2>1. t \in Target /\ job.msg \in Message
    BY <1>2 DEF RelayAnswers, TypeInv, PublishType, JobHeld, JobRow
  <2>2. PublishType'
    BY <1>2, <2>1 DEF RelayAnswers, TypeInv, PublishType
  <2>3. <<job.msg, t.to, t.relay>> \in Message \X Person \X Relay
    BY <2>1 DEF Target
  <2>4. ObservedType'
    BY <1>2, <2>3 DEF RelayAnswers, TypeInv, ObservedType
  <2>5. UNCHANGED <<pc, job>>
    BY <1>2 DEF RelayAnswers, wakeup, locals
  <2> QED
    BY <1>2, <2>2, <2>4, <2>5, Frame DEF RelayAnswers, TypeInv
<1>3. ASSUME NEW w \in writes, SettleTarget(w) PROVE TypeInv'
  <2> DEFINE t == w.target
             copy == copies[w.msg][t.to]
             settled == [copy EXCEPT !.relays = SettleRelayTarget(@, t.relay, w.ok)]
  <2>1. w.msg \in Message /\ t.to \in Person
    BY <1>3 DEF TypeInv, PublishType, Target
  <2>2. settled \in Copy
    <3>1. copy \in Copy
      BY <2>1 DEF TypeInv, DatabaseType
    <3> QED
      BY <3>1, RelayListType DEF Copy
  <2>3. copies' = copies \/ copies' = [copies EXCEPT ![w.msg][t.to] = settled]
    <3>1. CASE t \in targets /\ w.msg \in Durable /\ copy.row
      <4>1. copies' = [copies EXCEPT ![w.msg][t.to] = settled]
        BY <1>3, <3>1, Zenon DEF SettleTarget
      <4> QED
        BY <4>1
    <3>2. CASE ~ (t \in targets /\ w.msg \in Durable /\ copy.row)
      BY <1>3, <3>2, Zenon DEF SettleTarget
    <3> QED
      BY <3>1, <3>2
  <2>4. copies' \in [Message -> [Person -> Copy]]
    <3>1. DatabaseType
      BY DEF TypeInv
    <3> HIDE DEF t, settled
    <3>2. [copies EXCEPT ![w.msg][t.to] = settled] \in [Message -> [Person -> Copy]]
      BY <2>1, <2>2, <3>1, CopyUpdateType
    <3> QED
      BY <2>3, <3>1, <3>2 DEF DatabaseType
  <2>5. status' \in [Message -> Status] /\ deliveryError' \in [Message -> BOOLEAN]
    BY <1>3, <2>1, RecomputeType DEF SettleTarget
  <2>6. DatabaseType'
    BY <1>3, <2>4, <2>5, RemoveTargetRowType DEF SettleTarget, TypeInv, DatabaseType
  <2>7. PublishType' /\ pc' = pc /\ job' = job
    BY <1>3 DEF SettleTarget, TypeInv, PublishType, wakeup, locals
  <2> QED
    BY <1>3, <2>6, <2>7, Frame DEF SettleTarget, TypeInv
<1>4. CASE PublishDone
  <2>1. WakeupType' /\ JobHeld'
    BY <1>4, GotoType DEF PublishDone, locals, TypeInv, JobHeld
  <2>2. PublishType'
    BY <1>4 DEF PublishDone, TypeInv, PublishType
  <2> QED
    BY <1>4, <2>1, <2>2, Frame DEF PublishDone, TypeInv
<1>5. CASE AbandonJob
  <2>0. job \in JobRow /\ job.msg \in Message
    BY <1>5 DEF AbandonJob, TypeInv, JobHeld, JobRow
  <2>1. WakeupType' /\ JobHeld'
    BY <1>5, <2>0, GotoType DEF AbandonJob, locals
  <2>2. copies' \in [Message -> [Person -> Copy]]
    <3>1. NoCopy \in Copy
      BY DEF NoCopy, Copy, Entry
    <3>2. ASSUME NEW p \in Person PROVE AbandonedCopy(p) \in Copy
      <4>1. copies[job.msg][p] \in Copy
        BY <2>0 DEF TypeInv, DatabaseType
      <4>2. ASSUME NEW relays \in [Relay -> Entry]
            PROVE  [copies[job.msg][p] EXCEPT !.relays = relays] \in Copy
        BY <4>1 DEF Copy
      <4> QED
        BY <3>1, <4>1, <4>2, RelayListType DEF AbandonedCopy, Copy
    <3> DEFINE new == [p \in Person |-> AbandonedCopy(p)]
    <3>3. new \in [Person -> Copy]
      BY <3>2
    <3>4. copies' = IF IsDurable /\ pc = "abandonStrip"
                    THEN [copies EXCEPT ![job.msg] = new] ELSE copies
      BY <1>5 DEF AbandonJob
    <3> HIDE DEF new
    <3> QED
      BY <2>0, <3>3, <3>4 DEF TypeInv, DatabaseType
  <2>3. status' \in [Message -> Status] /\ deliveryError' \in [Message -> BOOLEAN]
    BY <1>5 DEF AbandonJob, TypeInv, DatabaseType, Status
  <2>4. DatabaseType'
    BY <1>5, <2>2, <2>3, DeleteJobRowsType DEF AbandonJob, TypeInv, DatabaseType
  <2> QED
    BY <1>5, <2>1, <2>4, Frame DEF AbandonJob, TypeInv
<1> QED
  BY <1>1, <1>2, <1>3, <1>4, <1>5

LEMMA TypeFaults ==
    ASSUME TypeInv, Faults PROVE TypeInv'
<1> USE OutboxConstants DEF OutboxConstants
<1>0. Fault => BoundsType'
  BY DEF Fault, TypeInv, BoundsType
<1>1. CASE StepFails
  <2>1. WakeupType' /\ JobHeld'
    BY <1>1, GotoType DEF StepFails, PC, locals, TypeInv, JobHeld
  <2> QED
    BY <1>0, <1>1, <2>1, Frame DEF StepFails, TypeInv
<1>2. CASE WorkerFails
  <2>1. WakeupType' /\ JobHeld'
    BY <1>2, GotoType DEF WorkerFails, PC, locals, TypeInv, LocalsType
  <2> QED
    BY <1>0, <1>2, <2>1, Frame DEF WorkerFails, TypeInv
<1>3. ASSUME NEW w \in writes, WriteFails(w) PROVE TypeInv'
  <2>1. PublishType' /\ pc' = pc /\ job' = job
    BY <1>3 DEF WriteFails, wakeup, locals, TypeInv, PublishType
  <2> QED
    BY <1>0, <1>3, <2>1, Frame DEF WriteFails, TypeInv
<1> QED
  BY <1>1, <1>2, <1>3 DEF Faults

LEMMA TypeStep == TypeInv /\ [Next]_vars => TypeInv'
<1> SUFFICES ASSUME TypeInv, [Next]_vars PROVE TypeInv'
  OBVIOUS
<1>1. CASE UNCHANGED vars
  <2>1. UNCHANGED <<database, process, wakeup, locals, publish, observed, bounds>>
    BY <1>1 DEF vars
  <2>2. pc' = pc /\ job' = job
    BY <2>1 DEF wakeup, locals
  <2> QED
    BY <2>1, <2>2, Frame DEF TypeInv
<1>2. CASE Worker
  BY <1>2, TypeDrain, TypeLoad, TypeWrap, TypePublish DEF Worker
<1> QED
  BY <1>1, <1>2, TypeUser, TypeEnvironment, TypeRemoval, TypeFaults DEF Next

(* Every variable keeps its type, and the worker holds a job wherever it   *)
(* works on one, whatever is interrupted or rejected.                      *)
THEOREM TypeCorrect == Spec => []TypeOK
<1>1. Spec => []TypeInv
  BY TypeInit, TypeStep, PTL DEF Spec
<1> QED
  BY <1>1, TypeParts, PTL

-----------------------------------------------------------------------------
(* Outcomes are real.  An outcome waits in writes before it enters a copy, *)
(* so that the induction needs to know that those waiting are real too.    *)

WritesAreReal ==
    \A w \in writes :
        LET place == <<w.msg, w.target.to, w.target.relay>>
        IN  (w.ok => place \in acked) /\ (~ w.ok => place \in refused)

RealInv == OutcomesAreReal /\ WritesAreReal

(* A transaction that records no outcome leaves the recorded ones real. *)
NoNewOutcome ==
    \A m \in Message, p \in Person, r \in Relay :
        copies'[m][p].relays[r] \in {"ok", "failed"} =>
            copies'[m][p].relays[r] = copies[m][p].relays[r]

LEMMA RealFrame ==
    ASSUME RealInv, NoNewOutcome, writes' \subseteq writes,
           acked \subseteq acked', refused \subseteq refused'
    PROVE  RealInv'
  BY DEF RealInv, OutcomesAreReal, WritesAreReal, NoNewOutcome

LEMMA RealUnchanged ==
    ASSUME RealInv, UNCHANGED copies, writes' \subseteq writes, UNCHANGED <<acked, refused>>
    PROVE  RealInv'
  BY RealFrame DEF NoNewOutcome

(* The two list updates that do not settle a relay record no outcome. *)
LEMMA NoOutcome ==
    ASSUME NEW relays \in [Relay -> Entry], NEW some, NEW r \in Relay
    PROVE  /\ BeginRelayTargets(relays, some)[r] \in {"ok", "failed"} =>
                  BeginRelayTargets(relays, some)[r] = relays[r]
           /\ DropPending(relays, some)[r] \in {"ok", "failed"} =>
                  DropPending(relays, some)[r] = relays[r]
  BY DEF BeginRelayTargets, DropPending

LEMMA RealInit == Init => RealInv
  BY DEF Init, RealInv, OutcomesAreReal, WritesAreReal, NoCopy

LEMMA RealDelete ==
    ASSUME TypeInv, RealInv, NEW a \in Account, DeleteAccountData(a)
    PROVE  RealInv'
<1>1. NoNewOutcome
  BY DEF DeleteAccountData, NoNewOutcome, NoCopy, TypeInv, DatabaseType
<1> QED
  BY <1>1, RealFrame DEF DeleteAccountData, publish, observed

LEMMA RealPrepare ==
    ASSUME TypeInv, RealInv, PrepareAllTargets
    PROVE  RealInv'
<1>1. writes' = writes /\ acked' = acked /\ refused' = refused
  BY DEF PrepareAllTargets, publish
<1>2. CASE ~ CanRun
  BY <1>1, <1>2, RealUnchanged DEF PrepareAllTargets
<1>3. CASE CanRun
  <2>1. PICK resolved \in [Recipients -> RelayLists] :
            CommitTargets(resolved) \/ UNCHANGED copies
    BY <1>3 DEF PrepareAllTargets
  <2>2. CASE UNCHANGED copies \/ ~ IsDurable
    BY <1>1, <2>1, <2>2, RealUnchanged DEF CommitTargets
  <2>3. CASE copies' # copies /\ IsDurable
    <3> DEFINE begun(p) == BeginRelayTargets(copies[job.msg][p].relays, resolved[p])
               fresh(p) == [row |-> TRUE, relays |-> begun(p), error |-> resolved[p] = {}]
               new == [p \in Person |-> IF p \in Recipients THEN fresh(p) ELSE copies[job.msg][p]]
    <3>1. ASSUME NEW m \in Message, NEW p \in Person
          PROVE  \/ copies'[m][p].relays = copies[m][p].relays
                 \/ m = job.msg /\ copies'[m][p].relays = begun(p)
      <4>1. copies' = [copies EXCEPT ![job.msg] = new]
        BY <2>1, <2>3 DEF CommitTargets
      <4>2. copies'[m] = IF m = job.msg THEN new ELSE copies[m]
        <5> HIDE DEF new
        <5> QED
          BY <4>1 DEF TypeInv, DatabaseType
      <4>3. new[p].relays = begun(p) \/ new[p] = copies[job.msg][p]
        <5> HIDE DEF begun
        <5> QED
          OBVIOUS
      <4> HIDE DEF new, begun
      <4> QED
        BY <4>2, <4>3
    <3>2. NoNewOutcome
      <4> SUFFICES ASSUME NEW m \in Message, NEW p \in Person, NEW r \in Relay,
                          copies'[m][p].relays[r] \in {"ok", "failed"}
                   PROVE  copies'[m][p].relays[r] = copies[m][p].relays[r]
        BY DEF NoNewOutcome
      <4>1. copies[m][p].relays \in [Relay -> Entry]
        BY DEF TypeInv, DatabaseType, Copy
      <4> QED
        BY <3>1, <4>1, NoOutcome
    <3> QED
      BY <1>1, <3>2, RealFrame
  <2> QED
    BY <2>2, <2>3
<1> QED
  BY <1>2, <1>3

LEMMA RealFailRecipient ==
    ASSUME TypeInv, RealInv, NEW p \in unready, FailRecipient(p)
    PROVE  RealInv'
<1> DEFINE mine == {t \in JobTargets(job.id) : t.to = p}
           copy == copies[job.msg][p]
           failed == [copy EXCEPT !.relays = DropPending(@, {t.relay : t \in mine}),
                                  !.error = TRUE]
<1>1. writes' = writes /\ acked' = acked /\ refused' = refused
  BY DEF FailRecipient, publish, observed
<1>2. job.msg \in Message /\ p \in Person
  BY DEF FailRecipient, TypeInv, JobHeld, JobRow, LocalsType
<1>3. copy \in Copy
  BY <1>2 DEF TypeInv, DatabaseType
<1>4. copies' = copies \/ copies' = [copies EXCEPT ![job.msg][p] = failed]
               \/ copies' = [copies EXCEPT ![job.msg][p] = copy]
  <2>1. CASE CanRun /\ IsDurable
    <3>1. copies' = [copies EXCEPT ![job.msg][p] = IF copy.row THEN failed ELSE copy]
      BY <2>1 DEF FailRecipient
    <3> HIDE DEF failed, copy
    <3> QED
      BY <3>1
  <2>2. CASE ~ (CanRun /\ IsDurable)
    BY <2>2 DEF FailRecipient
  <2> QED
    BY <2>1, <2>2
<1>5. failed.relays = DropPending(copy.relays, {t.relay : t \in mine})
  BY <1>3 DEF Copy
<1>6. NoNewOutcome
  <2> SUFFICES ASSUME NEW m \in Message, NEW q \in Person, NEW r \in Relay,
                      copies'[m][q].relays[r] \in {"ok", "failed"}
               PROVE  copies'[m][q].relays[r] = copies[m][q].relays[r]
    BY DEF NoNewOutcome
  <2>1. \/ copies'[m][q] = copies[m][q]
        \/ m = job.msg /\ q = p /\ copies'[m][q] = failed
    <3>1. DatabaseType
      BY DEF TypeInv
    <3>2. \A c : [copies EXCEPT ![job.msg][p] = c][m][q] =
                    IF m = job.msg /\ q = p THEN c ELSE copies[m][q]
      BY <1>2, <3>1 DEF DatabaseType
    <3> HIDE DEF failed
    <3> QED
      BY <1>4, <3>2
  <2> HIDE DEF failed, mine
  <2>2. copy.relays \in [Relay -> Entry]
    BY <1>3 DEF Copy
  <2> QED
    BY <1>5, <2>1, <2>2, NoOutcome
<1> QED
  BY <1>1, <1>6, RealFrame

LEMMA RealMark ==
    ASSUME TypeInv, RealInv, MarkTargetsPending
    PROVE  RealInv'
<1> DEFINE mine(p)   == {t.relay : t \in {u \in local : u.to = p}}
           copy(p)   == copies[job.msg][p]
           marked(p) == [copy(p) EXCEPT !.relays = BeginRelayTargets(@, mine(p)), !.error = FALSE]
           new == [p \in Person |-> IF copy(p).row /\ mine(p) # {} THEN marked(p) ELSE copy(p)]
<1>1. writes' = writes /\ acked' = acked /\ refused' = refused
  BY DEF MarkTargetsPending, publish, observed
<1>2. job.msg \in Message
  BY DEF MarkTargetsPending, TypeInv, JobHeld, JobRow
<1>3. \A p \in Person : copy(p) \in Copy
  BY <1>2 DEF TypeInv, DatabaseType
<1>4. \A p \in Person : marked(p).relays = BeginRelayTargets(copy(p).relays, mine(p))
  BY <1>3 DEF Copy
<1>5. NoNewOutcome
  <2> SUFFICES ASSUME NEW m \in Message, NEW p \in Person, NEW r \in Relay,
                      copies'[m][p].relays[r] \in {"ok", "failed"}
               PROVE  copies'[m][p].relays[r] = copies[m][p].relays[r]
    BY DEF NoNewOutcome
  <2>1. copies' = copies \/ copies' = [copies EXCEPT ![job.msg] = new]
    BY DEF MarkTargetsPending
  <2>2. \/ copies'[m][p] = copies[m][p]
        \/ m = job.msg /\ copies'[m][p] = new[p]
    <3> HIDE DEF new
    <3> QED
      BY <2>1 DEF TypeInv, DatabaseType
  <2>3. new[p] = copy(p) \/ new[p] = marked(p)
    <3> HIDE DEF copy, marked, mine
    <3> QED
      OBVIOUS
  <2>4. copy(p).relays \in [Relay -> Entry]
    BY <1>3 DEF Copy
  <2> HIDE DEF new, marked, mine
  <2> QED
    BY <1>4, <2>2, <2>3, <2>4, NoOutcome
<1> QED
  BY <1>1, <1>5, RealFrame

LEMMA RealAbandon ==
    ASSUME TypeInv, RealInv, AbandonJob
    PROVE  RealInv'
<1> DEFINE new == [p \in Person |-> AbandonedCopy(p)]
<1>1. writes' = writes /\ acked' = acked /\ refused' = refused
  BY DEF AbandonJob, publish, observed
<1>2. job.msg \in Message
  BY DEF AbandonJob, TypeInv, JobHeld, JobRow
<1>3. NoNewOutcome
  <2> SUFFICES ASSUME NEW m \in Message, NEW p \in Person, NEW r \in Relay,
                      copies'[m][p].relays[r] \in {"ok", "failed"}
               PROVE  copies'[m][p].relays[r] = copies[m][p].relays[r]
    BY DEF NoNewOutcome
  <2>1. copies' = copies \/ copies' = [copies EXCEPT ![job.msg] = new]
    BY DEF AbandonJob
  <2>2. \/ copies'[m][p] = copies[m][p]
        \/ m = job.msg /\ copies'[m][p] = AbandonedCopy(p)
    <3>1. new[p] = AbandonedCopy(p)
      OBVIOUS
    <3> HIDE DEF new
    <3> QED
      BY <2>1, <3>1 DEF TypeInv, DatabaseType
  <2>3. ASSUME m = job.msg
        PROVE  AbandonedCopy(p).relays[r] \in {"ok", "failed"} =>
                   AbandonedCopy(p).relays[r] = copies[m][p].relays[r]
    <3> DEFINE copy == copies[job.msg][p]
               stripped == DropPending(copy.relays,
                               {t.relay : t \in {u \in JobTargets(job.id) : u.to = p}})
    <3>1. copy \in Copy
      BY <1>2 DEF TypeInv, DatabaseType
    <3>2. [copy EXCEPT !.relays = stripped].relays = stripped
      <4> HIDE DEF stripped
      <4> QED
        BY <3>1 DEF Copy
    <3>3. AbandonedCopy(p) \in {copy, NoCopy, [copy EXCEPT !.relays = stripped]}
      BY DEF AbandonedCopy
    <3>4. NoCopy.relays[r] = "none"
      BY DEF NoCopy
    <3>5. stripped[r] \in {"ok", "failed"} => stripped[r] = copy.relays[r]
      BY <3>1, NoOutcome DEF Copy
    <3> HIDE DEF copy, stripped
    <3>6. AbandonedCopy(p) = copy \/ AbandonedCopy(p).relays[r] = "none"
              \/ AbandonedCopy(p).relays = stripped
      BY <3>2, <3>3, <3>4
    <3>7. copy = copies[m][p]
      BY <2>3 DEF copy
    <3> QED
      BY <3>5, <3>6, <3>7
  <2> QED
    BY <2>2, <2>3
<1> QED
  BY <1>1, <1>3, RealFrame

(* A relay's answer joins what waits only together with what it answered.  *)
LEMMA RealAnswer ==
    ASSUME TypeInv, RealInv, NEW t \in inflight, NEW ok \in BOOLEAN, RelayAnswers(t, ok)
    PROVE  RealInv'
<1>1. copies' = copies /\ acked \subseteq acked' /\ refused \subseteq refused'
  BY DEF RelayAnswers, database
<1>2. OutcomesAreReal'
  BY <1>1 DEF RealInv, OutcomesAreReal
<1>3. WritesAreReal'
  <2> SUFFICES ASSUME NEW w \in writes'
               PROVE  LET place == <<w.msg, w.target.to, w.target.relay>>
                      IN  (w.ok => place \in acked') /\ (~ w.ok => place \in refused')
    BY DEF WritesAreReal
  <2>1. CASE w \in writes
    BY <1>1, <2>1 DEF RealInv, WritesAreReal
  <2>2. CASE w \notin writes
    <3>1. ~ aborted /\ w = [target |-> t, msg |-> job.msg, ok |-> ok]
      BY <2>2 DEF RelayAnswers
    <3> QED
      BY <3>1 DEF RelayAnswers
  <2> QED
    BY <2>1, <2>2
<1> QED
  BY <1>2, <1>3 DEF RealInv

(* A settlement writes one entry, with the outcome that waited.            *)
LEMMA RealSettle ==
    ASSUME TypeInv, RealInv, NEW w \in writes, SettleTarget(w)
    PROVE  RealInv'
<1> DEFINE t == w.target
           copy == copies[w.msg][t.to]
           settled == [copy EXCEPT !.relays = SettleRelayTarget(@, t.relay, w.ok)]
<1>1. writes' \subseteq writes /\ acked' = acked /\ refused' = refused
  BY DEF SettleTarget, observed
<1>2. w.msg \in Message /\ t \in Target
  BY DEF TypeInv, PublishType
<1>3. copy \in Copy
  BY <1>2 DEF TypeInv, DatabaseType, Target
<1>4. settled.relays = SettleRelayTarget(copy.relays, t.relay, w.ok)
  BY <1>3 DEF Copy
<1>5. copies' = copies \/ copies' = [copies EXCEPT ![w.msg][t.to] = settled]
  BY DEF SettleTarget
<1>6. ASSUME NEW m \in Message, NEW p \in Person, NEW r \in Relay
      PROVE  \/ copies'[m][p].relays[r] = copies[m][p].relays[r]
             \/ /\ <<m, p, r>> = <<w.msg, t.to, t.relay>>
                /\ copies'[m][p].relays[r] = IF w.ok THEN "ok" ELSE "failed"
  <2>1. \/ copies'[m][p] = copies[m][p]
        \/ m = w.msg /\ p = t.to /\ copies'[m][p] = settled
    <3>1. \A c : [copies EXCEPT ![w.msg][t.to] = c][m][p] =
                    IF m = w.msg /\ p = t.to THEN c ELSE copies[m][p]
      BY <1>2 DEF TypeInv, DatabaseType, Target
    <3> HIDE DEF settled
    <3> QED
      BY <1>5, <3>1
  <2>2. SettleRelayTarget(copy.relays, t.relay, w.ok)[r] =
            IF r # t.relay \/ copy.relays[r] = "ok" THEN copy.relays[r]
            ELSE IF w.ok THEN "ok" ELSE "failed"
    BY <1>3 DEF Copy, SettleRelayTarget
  <2> HIDE DEF settled
  <2> QED
    BY <1>4, <2>1, <2>2
<1>7. (w.ok => <<w.msg, t.to, t.relay>> \in acked)
      /\ (~ w.ok => <<w.msg, t.to, t.relay>> \in refused)
  BY DEF RealInv, WritesAreReal
<1>8. OutcomesAreReal'
  <2> SUFFICES ASSUME NEW m \in Message, NEW p \in Person, NEW r \in Relay
               PROVE  /\ copies'[m][p].relays[r] = "ok" => <<m, p, r>> \in acked
                      /\ copies'[m][p].relays[r] = "failed" => <<m, p, r>> \in refused
    BY <1>1 DEF OutcomesAreReal
  <2>1. CASE copies'[m][p].relays[r] = copies[m][p].relays[r]
    BY <2>1 DEF RealInv, OutcomesAreReal
  <2>2. CASE copies'[m][p].relays[r] # copies[m][p].relays[r]
    <3>1. <<m, p, r>> = <<w.msg, t.to, t.relay>>
          /\ copies'[m][p].relays[r] = IF w.ok THEN "ok" ELSE "failed"
      BY <1>6, <2>2
    <3> HIDE DEF t
    <3> QED
      BY <1>7, <3>1
  <2> QED
    BY <2>1, <2>2
<1>9. WritesAreReal'
  BY <1>1 DEF RealInv, WritesAreReal
<1> QED
  BY <1>8, <1>9 DEF RealInv

LEMMA RealStep == TypeInv /\ RealInv /\ [Next]_vars => RealInv'
<1> SUFFICES ASSUME TypeInv, RealInv, [Next]_vars PROVE RealInv'
  OBVIOUS
<1> USE DEF database, publish, observed
<1>1. CASE UNCHANGED vars
  BY <1>1, RealUnchanged DEF vars
<1>2. CASE User
  BY <1>2, RealUnchanged DEF User, StoreRumor, EnqueueAll, EnqueueRetryTargets
<1>3. CASE Environment
  BY <1>3, RealUnchanged
     DEF Environment, Activate, RemoveAccount, EndSession, Deactivate, GoOffline, GoOnline,
         EnterBackground, EnterForeground, Crash
<1>4. CASE Removal
  BY <1>4, RealUnchanged, RealDelete DEF Removal, WaitForIdle
<1>5. CASE Worker
  BY <1>5, RealUnchanged, RealPrepare, RealFailRecipient, RealMark, RealAbandon, RealAnswer,
     RealSettle
     DEF Worker, NextJob, DrainEnded, LoadJob, FinishEmptyJob, FindSuccessful, SkipTarget,
         SkipDone, StartWrap, StorePayload, WrapDone, StartPublish, PublishDone
<1>6. CASE Faults
  BY <1>6, RealUnchanged DEF Faults, StepFails, WorkerFails, WriteFails
<1> QED
  BY <1>1, <1>2, <1>3, <1>4, <1>5, <1>6 DEF Next

(* Every outcome a copy records was given by that relay for that recipient *)
(* while its publish was not cancelled, through any crash, session change, *)
(* network loss, removal of an account or rejected statement.              *)
THEOREM RecordedOutcomesAreReal == Spec => []OutcomesAreReal
<1>1. TypeInv /\ RealInv /\ [Next]_vars => (TypeInv /\ RealInv)'
  BY TypeStep, RealStep
<1>2. Spec => [](TypeInv /\ RealInv)
  BY <1>1, TypeInit, RealInit, PTL DEF Spec
<1> QED
  BY <1>2, PTL DEF RealInv
-----------------------------------------------------------------------------
(***************************************************************************)
(* The outbox is a FIFO: an account's jobs finish in the order they were   *)
(* enqueued.  The induction needs that whatever may still delete a job,    *)
(* the worker's current job and the settlements that wait, concerns the    *)
(* oldest job of its account, which stays the oldest until it goes because *)
(* ids only grow.                                                          *)
(*                                                                         *)
(* Removing an account is final: nothing that was still running when its   *)
(* rows were deleted writes any of them again.  The argument: a worker     *)
(* that may still commit new rows serves the active session, which is      *)
(* never one whose rows are being deleted; everything else a worker does   *)
(* only updates or deletes rows that exist, and foreign keys tie targets   *)
(* and gift wraps to their jobs.                                           *)
(***************************************************************************)

Oldest(id) ==
    \A j \in jobs : j.id = id =>
        \A k \in jobs : Owner[k.msg] = Owner[j.msg] => id <= k.id

IdsAreFresh ==
    /\ \A j \in jobs : j.id < nextId
    /\ \A j, k \in jobs : j.id = k.id => j = k

Working == pc \notin {"idle", "loop", "ending"}

WorkerOnOldest ==
    Working =>
        /\ job.id < nextId /\ Oldest(job.id)
        /\ \A t \in local \cup skipping : t.job = job.id
        /\ pc = "publish" => \A t \in inflight : t.job = job.id

WritesOnOldest ==
    \A w \in writes : w.target.job < nextId /\ Oldest(w.target.job)

OrderInv == IdsAreFresh /\ WorkerOnOldest /\ WritesOnOldest

LEMMA OrderInit == Init => OrderInv
  BY DEF Init, OrderInv, IdsAreFresh, WorkerOnOldest, Working, WritesOnOldest

(* What a step may do to the queue: drop jobs or append one. *)
Appended == \E row \in JobRow :
    jobs' = jobs \cup {row} /\ row.id = nextId /\ nextId' = nextId + 1

QueueMoves == (jobs' \subseteq jobs /\ nextId' = nextId) \/ Appended

(* What a step may do to the worker, but for taking a job. *)
WorkerMoves ==
    \/ ~ Working'
    \/ /\ Working /\ job' = job
       /\ \A t \in local' \cup skipping' : t.job = job.id
       /\ pc' = "publish" => \A t \in inflight' : t.job = job.id

LEMMA QueueKept ==
    ASSUME TypeInv, IdsAreFresh, QueueMoves
    PROVE  /\ IdsAreFresh'
           /\ \A id \in Nat : id < nextId /\ Oldest(id) => id < nextId' /\ Oldest(id)'
<1> USE OutboxConstants DEF OutboxConstants
<1>1. nextId \in Nat /\ nextId' \in Nat /\ nextId <= nextId'
  BY DEF TypeInv, DatabaseType, QueueMoves, Appended
<1>2. \A j \in jobs : j.id \in Nat
  BY DEF TypeInv, DatabaseType, JobRow
<1>3. \A j \in jobs' : j \in jobs \/ (j.id = nextId /\ nextId' = nextId + 1)
  BY DEF QueueMoves, Appended
<1>4. \A j, k \in jobs' : j \notin jobs /\ k \notin jobs => j = k
  BY DEF QueueMoves, Appended
<1>5. IdsAreFresh'
  <2>1. \A j \in jobs' : j.id < nextId'
    BY <1>1, <1>2, <1>3 DEF IdsAreFresh
  <2>2. \A j, k \in jobs' : j.id = k.id => j = k
    BY <1>1, <1>2, <1>3, <1>4 DEF IdsAreFresh
  <2> QED
    BY <2>1, <2>2 DEF IdsAreFresh
<1>6. ASSUME NEW id \in Nat, id < nextId, Oldest(id) PROVE id < nextId' /\ Oldest(id)'
  <2>1. ASSUME NEW j \in jobs', j.id = id, NEW k \in jobs', Owner[k.msg] = Owner[j.msg]
        PROVE  id <= k.id
    <3>1. j \in jobs
      BY <1>1, <1>3, <1>6, <2>1
    <3>2. CASE k \in jobs
      BY <1>6, <2>1, <3>1, <3>2 DEF Oldest
    <3>3. CASE k \notin jobs
      BY <1>1, <1>3, <1>6, <3>3
    <3> QED
      BY <3>2, <3>3
  <2> QED
    BY <1>1, <1>6, <2>1 DEF Oldest
<1> QED
  BY <1>5, <1>6

LEMMA OrderFrame ==
    ASSUME TypeInv, OrderInv, QueueMoves, WorkerMoves, writes' \subseteq writes
    PROVE  OrderInv'
<1>1. IdsAreFresh'
  BY QueueKept DEF OrderInv
<1>2. WorkerOnOldest'
  <2> SUFFICES ASSUME Working' PROVE WorkerOnOldest'
    BY DEF WorkerOnOldest
  <2>1. Working /\ job' = job /\ job \in JobRow
    BY DEF WorkerMoves, TypeInv, JobHeld, Working
  <2>2. job.id \in Nat
    BY <2>1, OutboxConstants DEF JobRow, OutboxConstants
  <2>3. job.id < nextId' /\ Oldest(job.id)'
    BY <2>1, <2>2, QueueKept DEF OrderInv, WorkerOnOldest
  <2> QED
    BY <2>1, <2>3 DEF WorkerMoves, WorkerOnOldest, Oldest
<1>3. WritesOnOldest'
  <2> SUFFICES ASSUME NEW w \in writes' PROVE (w.target.job < nextId /\ Oldest(w.target.job))'
    BY DEF WritesOnOldest
  <2>1. w.target.job \in Nat
    BY OutboxConstants DEF TypeInv, PublishType, Target, OutboxConstants
  <2> QED
    BY <2>1, QueueKept DEF OrderInv, WritesOnOldest
<1> QED
  BY <1>1, <1>2, <1>3 DEF OrderInv

(* The worker takes the oldest job of the account it serves. *)
LEMMA OrderNextJob ==
    ASSUME TypeInv, OrderInv, NextJob
    PROVE  OrderInv'
<1>1. UNCHANGED <<jobs, nextId, writes>> /\ pc' \in {"load", "ending"}
  BY DEF NextJob, Goto, database, publish
<1>2. CASE ~ Working'
  BY <1>1, <1>2, OrderFrame DEF QueueMoves, WorkerMoves
<1>3. CASE Working'
  <2>1. AccountJobs(serving) \subseteq JobRow /\ AccountJobs(serving) # {}
    BY <1>3 DEF NextJob, Goto, Working, AccountJobs, TypeInv, DatabaseType
  <2>2. job' \in AccountJobs(serving) /\ \A k \in AccountJobs(serving) : job'.id <= k.id
    BY <1>3, <2>1, OldestJob DEF NextJob, Goto, Working
  <2>3. job' \in jobs /\ Owner[job'.msg] = serving
    BY <2>2 DEF AccountJobs
  <2>4. \A j \in jobs : j.id = job'.id => j = job'
    BY <2>3 DEF OrderInv, IdsAreFresh
  <2>5. (Oldest(job.id))'
    BY <1>1, <2>2, <2>3, <2>4 DEF Oldest, AccountJobs
  <2>6. job'.id < nextId' /\ local' = {} /\ skipping' = {} /\ pc' # "publish"
    BY <1>1, <2>3 DEF OrderInv, IdsAreFresh, NextJob
  <2>7. WorkerOnOldest'
    BY <2>5, <2>6 DEF WorkerOnOldest
  <2> QED
    BY <1>1, <2>7 DEF OrderInv, IdsAreFresh, WritesOnOldest, Oldest
<1> QED
  BY <1>2, <1>3

LEMMA OrderAnswer ==
    ASSUME TypeInv, OrderInv, NEW t \in inflight, NEW ok \in BOOLEAN, RelayAnswers(t, ok)
    PROVE  OrderInv'
<1>1. UNCHANGED <<jobs, nextId, pc, job, local, skipping>>
      /\ inflight' \subseteq inflight /\ pc = "publish"
  BY DEF RelayAnswers, database, wakeup, locals
<1>2. IdsAreFresh' /\ WorkerOnOldest'
  BY <1>1 DEF OrderInv, IdsAreFresh, WorkerOnOldest, Working, Oldest
<1>3. t.job = job.id /\ job.id < nextId /\ Oldest(job.id)
  BY <1>1 DEF OrderInv, WorkerOnOldest, Working
<1>4. \A w \in writes' : w \in writes \/ w.target = t
  BY DEF RelayAnswers
<1>5. WritesOnOldest'
  <2> SUFFICES ASSUME NEW w \in writes' PROVE w.target.job < nextId /\ Oldest(w.target.job)
    BY <1>1 DEF WritesOnOldest, Oldest
  <2> QED
    BY <1>3, <1>4 DEF OrderInv, WritesOnOldest
<1> QED
  BY <1>2, <1>5 DEF OrderInv

(* The user's operations append jobs; they wake the worker at most. *)
LEMMA WakeMoves ==
    ASSUME Wake \/ UNCHANGED wakeup, UNCHANGED <<job, local, skipping, inflight>>,
           WorkerOnOldest
    PROVE  WorkerMoves
  BY DEF Wake, StartDrain, wakeup, WorkerMoves, Working, WorkerOnOldest

LEMMA OrderUser ==
    ASSUME TypeInv, OrderInv, User PROVE OrderInv'
<1>1. UNCHANGED <<job, local, skipping, inflight, writes>> /\ (Wake \/ UNCHANGED wakeup)
  BY DEF User, StoreRumor, EnqueueAll, EnqueueRetryTargets, WakeFor, locals, publish
<1>2. QueueMoves
  <2> DEFINE New(row) == jobs' = jobs \cup {row} /\ row.id = nextId /\ nextId' = nextId + 1
             Same == jobs' = jobs /\ nextId' = nextId
             Row(m, scope, to) == [id |-> nextId, msg |-> m, scope |-> scope, to |-> to]
  <2>0. \A m, scope, to : Row(m, scope, to).id = nextId
    OBVIOUS
  <2>1. Same \/ \E row : New(row)
    <3>1. ASSUME NEW m \in Message, NEW scope, EnqueueAll(m, scope)
          PROVE  Same \/ New(Row(m, scope, {}))
      BY <2>0, <3>1 DEF EnqueueAll, database
    <3>2. ASSUME NEW m \in Message, NEW enqueueRelay, StoreRumor(m, enqueueRelay)
          PROVE  Same \/ New(Row(m, "all_recipient_relays", {}))
      BY <2>0, <3>2 DEF StoreRumor
    <3>3. ASSUME NEW m \in Message, NEW p, NEW requested, EnqueueRetryTargets(m, p, requested)
          PROVE  Same \/ New(Row(m, "selected_copy", {p}))
      BY <2>0, <3>3 DEF EnqueueRetryTargets, database
    <3> HIDE DEF New, Same, Row
    <3> QED
      BY <3>1, <3>2, <3>3 DEF User
  <2>2. jobs' \subseteq JobRow
    BY TypeUser DEF TypeInv, DatabaseType
  <2> QED
    BY <2>1, <2>2 DEF QueueMoves, Appended
<1>3. WorkerMoves
  BY <1>1, WakeMoves DEF OrderInv
<1> QED
  BY <1>1, <1>2, <1>3, OrderFrame

LEMMA OrderEnvironment ==
    ASSUME TypeInv, OrderInv, Environment PROVE OrderInv'
<1>1. UNCHANGED <<jobs, nextId>> /\ writes' \subseteq writes
  BY DEF Environment, Activate, RemoveAccount, EndSession, Deactivate, GoOffline, GoOnline,
         EnterBackground, EnterForeground, Crash, database, publish
<1>2. ~ Working' \/ (UNCHANGED <<job, local, skipping, inflight>> /\ pc' = pc)
  BY DEF Environment, Activate, RemoveAccount, EndSession, Deactivate, GoOffline, GoOnline,
         EnterBackground, EnterForeground, Crash, Wake, StartDrain, Working, wakeup, locals, publish
<1>3. WorkerMoves
  BY <1>2 DEF WorkerMoves, Working, OrderInv, WorkerOnOldest
<1> QED
  BY <1>1, <1>3, OrderFrame DEF QueueMoves

LEMMA OrderRemoval ==
    ASSUME TypeInv, OrderInv, Removal PROVE OrderInv'
<1>1. jobs' \subseteq jobs /\ UNCHANGED <<nextId, pc, job, local, skipping, inflight, writes>>
  BY DEF Removal, WaitForIdle, DeleteAccountData, DeleteJobRows, database, wakeup, locals, publish
<1>2. WorkerMoves
  BY <1>1 DEF WorkerMoves, Working, OrderInv, WorkerOnOldest
<1> QED
  BY <1>1, <1>2, OrderFrame DEF QueueMoves

LEMMA OrderFaults ==
    ASSUME TypeInv, OrderInv, Faults PROVE OrderInv'
<1>1. UNCHANGED <<jobs, nextId, job, local, skipping, inflight>> /\ writes' \subseteq writes
  BY DEF Faults, StepFails, WorkerFails, WriteFails, database, locals, publish
<1>2. ~ Working' \/ pc' = pc \/ (Working /\ pc' # "publish")
  BY DEF Faults, StepFails, WorkerFails, WriteFails, Goto, wakeup, Working
<1>3. WorkerMoves
  BY <1>1, <1>2 DEF WorkerMoves, Working, OrderInv, WorkerOnOldest
<1> QED
  BY <1>1, <1>3, OrderFrame DEF QueueMoves

(* What prepareAllTargets does outside the copies and targets it commits. *)
LEMMA PrepareShape ==
    ASSUME PrepareAllTargets
    PROVE  /\ UNCHANGED <<jobs, nextId, payloads, job, skipping, unready, writes>>
           /\ UNCHANGED <<serving, current, session, removal>>
           /\ pc = "resolve" /\ pc' \in {"ending", "abandon", "finish", "check"}
           /\ local' = local \/ \A t \in local' : t.job = job.id
<1>1. /\ UNCHANGED <<nextId, payloads, job, skipping, unready, writes, session, removal>>
      /\ pc = "resolve"
  BY DEF PrepareAllTargets, publish, process
<1>2. CASE CanRun
  <2>1. PICK resolved \in [Recipients -> RelayLists] :
            \/ CommitTargets(resolved)
            \/ Goto("abandon") /\ UNCHANGED <<jobs, local>>
    BY <1>2 DEF PrepareAllTargets
  <2>2. CASE CommitTargets(resolved)
    <3>1. jobs' = jobs /\ \A t \in local' : t.job = job.id
      BY <2>2 DEF CommitTargets
    <3>2. pc' \in {"finish", "check"} /\ UNCHANGED <<serving, current>>
      BY <2>2 DEF CommitTargets, Goto
    <3> QED
      BY <1>1, <3>1, <3>2
  <2>3. CASE Goto("abandon") /\ UNCHANGED <<jobs, local>>
    BY <1>1, <2>3 DEF Goto
  <2> QED
    BY <2>1, <2>2, <2>3
<1>3. CASE ~ CanRun
  BY <1>1, <1>3 DEF PrepareAllTargets, Goto
<1> QED
  BY <1>2, <1>3

(* The worker deletes no job but one that is the oldest of its account. *)
DropsOldest ==
    \/ jobs' = jobs
    \/ \E id : Oldest(id) /\ jobs' = {j \in jobs : j.id # id}

LEMMA WorkerDropsOldest ==
    ASSUME TypeInv, OrderInv, Worker
    PROVE  DropsOldest /\ nextId' = nextId
<1>1. CASE LoadJob \/ FinishEmptyJob \/ AbandonJob
  <2>1. Oldest(job.id)
    BY <1>1 DEF LoadJob, FinishEmptyJob, AbandonJob, OrderInv, WorkerOnOldest, Working
  <2>2. jobs' = jobs \/ jobs' = {j \in jobs : j.id # job.id}
    BY <1>1 DEF LoadJob, FinishEmptyJob, AbandonJob, DeleteJobRows
  <2> QED
    BY <1>1, <2>1, <2>2 DEF DropsOldest, LoadJob, FinishEmptyJob, AbandonJob
<1>2. ASSUME NEW t \in skipping, SkipTarget(t) PROVE DropsOldest /\ nextId' = nextId
  <2>1. t.job = job.id /\ Oldest(job.id)
    BY <1>2 DEF SkipTarget, OrderInv, WorkerOnOldest, Working
  <2>2. jobs' = jobs \/ jobs' = {j \in jobs : j.id # t.job}
    BY <1>2 DEF SkipTarget, RemoveTargetRow
  <2> QED
    BY <1>2, <2>1, <2>2 DEF DropsOldest, SkipTarget
<1>3. ASSUME NEW w \in writes, SettleTarget(w) PROVE DropsOldest /\ nextId' = nextId
  <2>1. Oldest(w.target.job)
    BY DEF OrderInv, WritesOnOldest
  <2>2. jobs' = jobs \/ jobs' = {j \in jobs : j.id # w.target.job}
    BY <1>3 DEF SettleTarget, RemoveTargetRow
  <2> QED
    BY <1>3, <2>1, <2>2 DEF DropsOldest, SettleTarget
<1>4. CASE PrepareAllTargets
  BY <1>4, PrepareShape DEF DropsOldest
<1>5. ASSUME NEW p \in unready, StorePayload(p) \/ FailRecipient(p)
      PROVE  DropsOldest /\ nextId' = nextId
  BY <1>5 DEF StorePayload, FailRecipient, DropsOldest
<1>6. CASE \/ NextJob \/ DrainEnded \/ FindSuccessful \/ SkipDone \/ StartWrap \/ WrapDone
           \/ MarkTargetsPending \/ StartPublish \/ PublishDone
           \/ \E t \in inflight, ok \in BOOLEAN : RelayAnswers(t, ok)
  BY <1>6 DEF DropsOldest, database, NextJob, DrainEnded, FindSuccessful, SkipDone, StartWrap,
              WrapDone, MarkTargetsPending, StartPublish, RelayAnswers, PublishDone
<1> QED
  BY <1>1, <1>2, <1>3, <1>4, <1>5, <1>6 DEF Worker

LEMMA OrderWorker ==
    ASSUME TypeInv, OrderInv, Worker PROVE OrderInv'
<1>1. CASE NextJob
  BY <1>1, OrderNextJob
<1>2. CASE \E t \in inflight, ok \in BOOLEAN : RelayAnswers(t, ok)
  BY <1>2, OrderAnswer
<1>3. CASE ~ NextJob /\ ~ (\E t \in inflight, ok \in BOOLEAN : RelayAnswers(t, ok))
  <2>1. QueueMoves
    BY WorkerDropsOldest DEF DropsOldest, QueueMoves
  <2>2. writes' \subseteq writes
    BY <1>3 DEF Worker, DrainEnded, LoadJob, PrepareAllTargets, FinishEmptyJob, FindSuccessful,
                SkipTarget, SkipDone, StartWrap, StorePayload, FailRecipient, WrapDone,
                MarkTargetsPending, StartPublish, SettleTarget, PublishDone, AbandonJob, publish
  <2>3. WorkerMoves
    <3>1. CASE DrainEnded
      BY <3>1 DEF DrainEnded, StartDrain, Goto, WorkerMoves, Working
    <3>2. CASE LoadJob
      BY <3>2 DEF LoadJob, JobTargets, Goto, WorkerMoves, Working, OrderInv, WorkerOnOldest
    <3>3. CASE PrepareAllTargets
      BY <3>3, PrepareShape DEF WorkerMoves, Working, OrderInv, WorkerOnOldest
    <3>4. CASE FindSuccessful
      BY <3>4 DEF FindSuccessful, Goto, WorkerMoves, Working, OrderInv, WorkerOnOldest
    <3>5. CASE WrapDone
      BY <3>5 DEF WrapDone, JobTargets, Goto, WorkerMoves, Working, OrderInv, WorkerOnOldest
    <3>6. CASE StartPublish
      BY <3>6 DEF StartPublish, Goto, locals, WorkerMoves, Working, OrderInv, WorkerOnOldest
    <3>7. CASE FinishEmptyJob \/ AbandonJob \/ PublishDone
      BY <3>7 DEF FinishEmptyJob, AbandonJob, PublishDone, Goto, WorkerMoves, Working
    <3>8. CASE \/ (\E t \in skipping : SkipTarget(t)) \/ SkipDone \/ StartWrap
               \/ (\E p \in unready : StorePayload(p) \/ FailRecipient(p)) \/ MarkTargetsPending
      <4>1. /\ pc \in {"skip", "wrap", "seal", "mark"} /\ pc' # "publish"
            /\ job' = job /\ local' = local /\ skipping' \subseteq skipping
        BY <3>8 DEF SkipTarget, SkipDone, StartWrap, StorePayload, FailRecipient,
                    MarkTargetsPending, Goto, locals, wakeup
      <4> QED
        BY <4>1 DEF WorkerMoves, Working, OrderInv, WorkerOnOldest
    <3>9. CASE \E w \in writes : SettleTarget(w)
      BY <3>9 DEF SettleTarget, wakeup, locals, WorkerMoves, Working, OrderInv, WorkerOnOldest
    <3> QED
      BY <1>3, <3>1, <3>2, <3>3, <3>4, <3>5, <3>6, <3>7, <3>8, <3>9 DEF Worker
  <2> QED
    BY <2>1, <2>2, <2>3, OrderFrame
<1> QED
  BY <1>1, <1>2, <1>3

LEMMA OrderStep == TypeInv /\ OrderInv /\ [Next]_vars => OrderInv'
<1> SUFFICES ASSUME TypeInv, OrderInv, [Next]_vars PROVE OrderInv'
  OBVIOUS
<1>1. CASE UNCHANGED vars
  <2>1. UNCHANGED <<jobs, nextId, pc, job, local, skipping, inflight, writes>>
    BY <1>1 DEF vars, database, wakeup, locals, publish
  <2>2. QueueMoves /\ WorkerMoves
    BY <2>1 DEF QueueMoves, WorkerMoves, Working, OrderInv, WorkerOnOldest
  <2> QED
    BY <2>1, <2>2, OrderFrame
<1> QED
  BY <1>1, OrderUser, OrderEnvironment, OrderRemoval, OrderWorker, OrderFaults DEF Next

(* What JobsFinishInOrder says of one step. *)
FinishInOrder ==
    (\A a \in Account : removal[a] # "jobs") =>
        \A j \in jobs \ jobs', k \in jobs' : Owner[j.msg] = Owner[k.msg] => j.id < k.id

LEMMA StepInOrder == TypeInv /\ OrderInv /\ [Next]_vars => FinishInOrder
<1> SUFFICES ASSUME TypeInv, OrderInv, [Next]_vars,
                    \A a \in Account : removal[a] # "jobs"
             PROVE  \A j \in jobs \ jobs', k \in jobs' :
                        Owner[j.msg] = Owner[k.msg] => j.id < k.id
  BY DEF FinishInOrder
<1>1. DropsOldest \/ jobs \subseteq jobs'
  <2>1. CASE User
    BY <2>1 DEF User, StoreRumor, EnqueueAll, EnqueueRetryTargets, database
  <2>2. CASE Environment
    BY <2>2 DEF Environment, Activate, RemoveAccount, Deactivate, GoOffline, GoOnline,
                EnterBackground, EnterForeground, Crash, database
  <2>3. CASE Removal
    BY <2>3 DEF Removal, WaitForIdle, DeleteAccountData, database
  <2>4. CASE Worker
    BY <2>4, WorkerDropsOldest
  <2>5. CASE Faults
    BY <2>5 DEF Faults, StepFails, WorkerFails, WriteFails, database
  <2>6. CASE UNCHANGED vars
    BY <2>6 DEF vars, database
  <2> QED
    BY <2>1, <2>2, <2>3, <2>4, <2>5, <2>6 DEF Next
<1>2. ASSUME NEW id, Oldest(id), jobs' = {j \in jobs : j.id # id},
             NEW j \in jobs \ jobs', NEW k \in jobs', Owner[j.msg] = Owner[k.msg]
      PROVE  j.id < k.id
  <2>1. j.id = id /\ k \in jobs /\ k.id # id
    BY <1>2
  <2>2. id <= k.id
    BY <1>2, <2>1 DEF Oldest
  <2>3. j.id \in Nat /\ k.id \in Nat
    BY <2>1, OutboxConstants DEF TypeInv, DatabaseType, JobRow, OutboxConstants
  <2> QED
    BY <2>1, <2>2, <2>3
<1> QED
  BY <1>1, <1>2 DEF DropsOldest

(* While no account's rows are being removed, no job is finished, given up *)
(* or orphaned before an older one of the same account, whatever sessions  *)
(* come and go, however often the process dies and whatever is rejected.   *)
THEOREM JobsAreFIFO == Spec => JobsFinishInOrder
<1>1. TypeInv /\ OrderInv /\ [Next]_vars => (TypeInv /\ OrderInv)'
  BY TypeStep, OrderStep
<1>2. Spec => [](TypeInv /\ OrderInv)
  BY <1>1, TypeInit, OrderInit, PTL DEF Spec
<1>3. TypeInv /\ OrderInv /\ [Next]_vars => [FinishInOrder]_vars
  BY StepInOrder
<1>4. Spec => [][FinishInOrder]_vars
  BY <1>2, <1>3, PTL DEF Spec
<1> QED
  BY <1>4 DEF JobsFinishInOrder, FinishInOrder

-----------------------------------------------------------------------------
(* The removal of an account. *)

KeyInv ==
    /\ \A t \in targets : \E j \in jobs : j.id = t.job
    /\ \A w \in payloads : \E j \in jobs : j.id = w.job

SessionInv ==
    /\ session \in Account => removal[session] \in {"no", "interrupted"}
    /\ current => serving = session /\ session \in Account

OwnerInv == Working => Owner[job.msg] = serving

NoRows(m) == \A p \in Person : ~ copies[m][p].row

StageInv == \A a \in Account : \A m \in Message : Owner[m] = a =>
    /\ removal[a] \in {"copies", "jobs", "done"} => status[m] = "absent"
    /\ removal[a] \in {"jobs", "done"} => NoRows(m)
    /\ removal[a] = "done" => ~ HasJob(m, jobs)

RemovalInv == KeyInv /\ SessionInv /\ OwnerInv /\ StageInv

LEMMA RemovalInit == Init => RemovalInv
<1> SUFFICES ASSUME Init PROVE RemovalInv
  OBVIOUS
<1>1. KeyInv /\ SessionInv /\ OwnerInv
  BY OutboxConstants DEF OutboxConstants, Init, KeyInv, SessionInv, OwnerInv, Working
<1>2. StageInv
  BY DEF Init, StageInv
<1> QED
  BY <1>1, <1>2 DEF RemovalInv

-----------------------------------------------------------------------------
(* Foreign keys. *)

LEMMA KeysDeleted ==
    ASSUME KeyInv, NEW ids, DeleteJobRows(ids) PROVE KeyInv'
  BY DEF KeyInv, DeleteJobRows

LEMMA KeysRemoved ==
    ASSUME TypeInv, KeyInv, NEW t, RemoveTargetRow(t) PROVE KeyInv'
<1>1. ASSUME NEW u \in targets' PROVE \E j \in jobs' : j.id = u.job
  <2>1. PICK j \in jobs : j.id = u.job
    BY DEF KeyInv, RemoveTargetRow
  <2>2. j \in jobs'
    BY <2>1 DEF RemoveTargetRow
  <2> QED
    BY <2>1, <2>2
<1>2. ASSUME NEW w \in payloads' PROVE \E j \in jobs' : j.id = w.job
  <2>1. PICK j \in jobs : j.id = w.job
    BY DEF KeyInv, RemoveTargetRow
  <2>2. j \in jobs'
    BY <2>1 DEF RemoveTargetRow
  <2> QED
    BY <2>1, <2>2
<1> QED
  BY <1>1, <1>2 DEF KeyInv

(* A step that adds no target or wrap, and deletes no job, keeps the keys. *)
LEMMA KeysFrame ==
    ASSUME KeyInv, jobs \subseteq jobs', targets' \subseteq targets, payloads' \subseteq payloads
    PROVE  KeyInv'
  BY DEF KeyInv

LEMMA KeysStep == TypeInv /\ OrderInv /\ KeyInv /\ [Next]_vars => KeyInv'
<1> SUFFICES ASSUME TypeInv, OrderInv, KeyInv, [Next]_vars PROVE KeyInv'
  OBVIOUS
<1> USE DEF database
<1>1. CASE UNCHANGED vars
  BY <1>1, KeysFrame DEF vars
<1>2. CASE User
  <2>1. ASSUME NEW m \in Message, NEW p \in Person, NEW requested \in SUBSET Relay,
               EnqueueRetryTargets(m, p, requested)
        PROVE  KeyInv'
    <3> SUFFICES ASSUME ~ UNCHANGED database PROVE KeyInv'
      BY KeysFrame
    <3> DEFINE row == [id |-> nextId, msg |-> m, scope |-> "selected_copy", to |-> {p}]
    <3>0. row \in jobs' /\ row.id = nextId
      BY <2>1 DEF EnqueueRetryTargets
    <3>1. \E j \in jobs' : j.id = nextId
      BY <3>0
    <3>2. jobs \subseteq jobs' /\ payloads' = payloads
      BY <2>1 DEF EnqueueRetryTargets
    <3>3. \A t \in targets' : t \in targets \/ t.job = nextId
      BY <2>1 DEF EnqueueRetryTargets
    <3> QED
      BY <3>1, <3>2, <3>3 DEF KeyInv
  <2>2. ASSUME NEW m \in Message, NEW enqueueRelay, StoreRumor(m, enqueueRelay) PROVE KeyInv'
    BY <2>2, KeysFrame DEF StoreRumor
  <2>3. ASSUME NEW m \in Message, NEW scope, EnqueueAll(m, scope) PROVE KeyInv'
    BY <2>3, KeysFrame DEF EnqueueAll
  <2> QED
    BY <1>2, <2>1, <2>2, <2>3 DEF User
<1>3. CASE Environment
  BY <1>3, KeysFrame
     DEF Environment, Activate, RemoveAccount, Deactivate, GoOffline, GoOnline, EnterBackground,
         EnterForeground, Crash
<1>4. CASE Removal
  BY <1>4, KeysFrame, KeysDeleted DEF Removal, WaitForIdle, DeleteAccountData
<1>5. CASE Faults
  BY <1>5, KeysFrame DEF Faults, StepFails, WorkerFails, WriteFails
<1>6. CASE Worker
  <2>1. CASE LoadJob \/ FinishEmptyJob \/ AbandonJob
    BY <2>1, KeysFrame, KeysDeleted DEF LoadJob, FinishEmptyJob, AbandonJob
  <2>2. CASE PrepareAllTargets
    <3>1. jobs' = jobs /\ payloads' = payloads
      BY <2>2, PrepareShape DEF PrepareAllTargets
    <3>2. targets' \subseteq targets \/ (job \in jobs /\ \A t \in targets' : t \in targets \/ t.job = job.id)
      <4>1. CASE ~ CanRun
        BY <2>2, <4>1 DEF PrepareAllTargets
      <4>2. CASE CanRun
        <5>1. PICK resolved \in [Recipients -> RelayLists] :
                  \/ /\ job \in jobs \/ \A p \in Recipients : resolved[p] = {}
                     /\ CommitTargets(resolved)
                  \/ targets' = targets
          BY <2>2, <4>2 DEF PrepareAllTargets
        <5>2. CASE CommitTargets(resolved)
          <6>1. \A t \in targets' : t \in targets \/ (t.job = job.id /\ t.to \in Recipients
                                                      /\ t.relay \in resolved[t.to])
            BY <5>2 DEF CommitTargets
          <6> QED
            BY <5>1, <6>1
        <5> QED
          BY <5>1, <5>2
      <4> QED
        BY <4>1, <4>2
    <3> QED
      BY <3>1, <3>2 DEF KeyInv
  <2>3. ASSUME NEW t \in skipping, SkipTarget(t) PROVE KeyInv'
    BY <2>3, KeysRemoved DEF SkipTarget
  <2>4. ASSUME NEW w \in writes, SettleTarget(w) PROVE KeyInv'
    BY <2>4, KeysFrame, KeysRemoved DEF SettleTarget
  <2>5. ASSUME NEW p \in unready, StorePayload(p) PROVE KeyInv'
    BY <2>5 DEF StorePayload, KeyInv
  <2>6. ASSUME NEW p \in unready, FailRecipient(p) PROVE KeyInv'
    BY <2>6, KeysFrame DEF FailRecipient
  <2>7. CASE \/ NextJob \/ DrainEnded \/ FindSuccessful \/ SkipDone \/ StartWrap \/ WrapDone
             \/ MarkTargetsPending \/ StartPublish \/ PublishDone
             \/ \E t \in inflight, ok \in BOOLEAN : RelayAnswers(t, ok)
    BY <2>7, KeysFrame
       DEF NextJob, DrainEnded, FindSuccessful, SkipDone, StartWrap, WrapDone,
           MarkTargetsPending, StartPublish, RelayAnswers, PublishDone
  <2> QED
    BY <1>6, <2>1, <2>2, <2>3, <2>4, <2>5, <2>6, <2>7 DEF Worker
<1> QED
  BY <1>1, <1>2, <1>3, <1>4, <1>5, <1>6 DEF Next

-----------------------------------------------------------------------------
(* Sessions. *)

(* Waking the worker captures the active session. *)
LEMMA WakeSession ==
    ASSUME TypeInv, SessionInv, Wake \/ UNCHANGED wakeup, session' = session, removal' = removal
    PROVE  SessionInv'
<1>1. \/ serving' = serving /\ current' = current
      \/ serving' = session /\ (current' => session # NoSession)
  BY DEF Wake, StartDrain, wakeup
<1> QED
  BY <1>1 DEF TypeInv, ProcessType, SessionInv

LEMMA SessionStep == TypeInv /\ SessionInv /\ [Next]_vars => SessionInv'
<1> SUFFICES ASSUME TypeInv, SessionInv, [Next]_vars PROVE SessionInv'
  OBVIOUS
<1> USE OutboxConstants DEF OutboxConstants, process
<1>1. CASE UNCHANGED vars
  BY <1>1 DEF vars, wakeup, SessionInv
<1>2. CASE User
  BY <1>2, WakeSession DEF User, StoreRumor, EnqueueAll, EnqueueRetryTargets, WakeFor
<1>3. CASE Environment
  <2>1. ASSUME NEW a \in Account, Activate(a) PROVE SessionInv'
    BY <2>1 DEF Activate, StartDrain, TypeInv, ProcessType, SessionInv
  <2>2. ASSUME NEW a \in Account, RemoveAccount(a) PROVE SessionInv'
    BY <2>2 DEF RemoveAccount, EndSession, wakeup, TypeInv, ProcessType, SessionInv
  <2>3. CASE Deactivate \/ GoOffline \/ EnterBackground
    BY <2>3 DEF Deactivate, EndSession, GoOffline, EnterBackground, wakeup, SessionInv
  <2>4. CASE GoOnline \/ EnterForeground
    BY <2>4, WakeSession DEF GoOnline, EnterForeground
  <2>5. CASE Crash
    BY <2>5 DEF Crash, SessionInv
  <2> QED
    BY <1>3, <2>1, <2>2, <2>3, <2>4, <2>5 DEF Environment
<1>4. CASE Removal
  BY <1>4 DEF Removal, WaitForIdle, DeleteAccountData, wakeup, TypeInv, ProcessType, SessionInv
<1>5. CASE Worker
  <2>1. session' = session /\ removal' = removal
    <3>1. CASE PrepareAllTargets
      BY <3>1 DEF PrepareAllTargets
    <3>2. CASE ~ PrepareAllTargets
      BY <1>5, <3>2
         DEF Worker, NextJob, DrainEnded, LoadJob, FinishEmptyJob, FindSuccessful, SkipTarget,
             SkipDone, StartWrap, StorePayload, FailRecipient, WrapDone, MarkTargetsPending,
             StartPublish, RelayAnswers, SettleTarget, PublishDone, AbandonJob
    <3> QED
      BY <3>1, <3>2
  <2>2. CASE DrainEnded
    BY <2>1, <2>2 DEF DrainEnded, StartDrain, Goto, TypeInv, ProcessType, SessionInv
  <2>3. CASE PrepareAllTargets
    BY <2>3, PrepareShape DEF SessionInv
  <2>4. CASE ~ DrainEnded /\ ~ PrepareAllTargets
    <3>1. serving' = serving /\ current' = current
      BY <1>5, <2>4
         DEF Worker, NextJob, LoadJob, FinishEmptyJob, FindSuccessful, SkipTarget, SkipDone,
             StartWrap, StorePayload, FailRecipient, WrapDone, MarkTargetsPending, StartPublish,
             RelayAnswers, SettleTarget, PublishDone, AbandonJob, Goto, wakeup
    <3> QED
      BY <2>1, <3>1 DEF SessionInv
  <2> QED
    BY <2>2, <2>3, <2>4
<1>6. CASE Faults
  BY <1>6 DEF Faults, StepFails, WorkerFails, WriteFails, Goto, wakeup, SessionInv
<1> QED
  BY <1>1, <1>2, <1>3, <1>4, <1>5, <1>6 DEF Next

(* The worker serves the owner of the job it works on. *)
LEMMA OwnerFrame ==
    ASSUME OwnerInv, ~ Working' \/ (Working /\ UNCHANGED <<job, serving>>)
    PROVE  OwnerInv'
  BY DEF OwnerInv

LEMMA OwnerStep == TypeInv /\ OwnerInv /\ [Next]_vars => OwnerInv'
<1> SUFFICES ASSUME TypeInv, OwnerInv, [Next]_vars PROVE OwnerInv'
  OBVIOUS
<1> USE DEF wakeup, locals
<1>1. CASE UNCHANGED vars
  BY <1>1 DEF vars, OwnerInv, Working
<1>2. CASE User
  BY <1>2, OwnerFrame
     DEF User, StoreRumor, EnqueueAll, EnqueueRetryTargets, WakeFor, Wake, StartDrain, Working
<1>3. CASE Environment
  BY <1>3, OwnerFrame
     DEF Environment, Activate, RemoveAccount, EndSession, Deactivate, GoOffline, GoOnline,
         EnterBackground, EnterForeground, Crash, Wake, StartDrain, Working
<1>4. CASE Removal
  BY <1>4, OwnerFrame DEF Removal, WaitForIdle, DeleteAccountData, Working
<1>5. CASE Worker
  <2>1. CASE NextJob
    <3>1. CASE ~ Working'
      BY <3>1, OwnerFrame
    <3>2. CASE Working'
      <4>1. AccountJobs(serving) \subseteq JobRow /\ AccountJobs(serving) # {}
        BY <2>1, <3>2 DEF NextJob, Goto, Working, AccountJobs, TypeInv, DatabaseType
      <4>2. job' \in AccountJobs(serving)
        BY <2>1, <3>2, <4>1, OldestJob DEF NextJob, Goto, Working
      <4>3. serving' = serving
        BY <2>1 DEF NextJob, Goto
      <4> QED
        BY <4>2, <4>3 DEF AccountJobs, OwnerInv
    <3> QED
      BY <3>1, <3>2
  <2>2. CASE PrepareAllTargets
    BY <2>2, PrepareShape, OwnerFrame DEF Working
  <2>3. CASE ~ NextJob /\ ~ PrepareAllTargets
    BY <1>5, <2>3, OwnerFrame
       DEF Worker, DrainEnded, StartDrain, LoadJob, FinishEmptyJob, FindSuccessful, SkipTarget,
           SkipDone, StartWrap, StorePayload, FailRecipient, WrapDone, MarkTargetsPending,
           StartPublish, RelayAnswers, SettleTarget, PublishDone, AbandonJob, Goto, Working
  <2> QED
    BY <2>1, <2>2, <2>3
<1>6. CASE Faults
  BY <1>6, OwnerFrame DEF Faults, StepFails, WorkerFails, WriteFails, Goto, Working
<1> QED
  BY <1>1, <1>2, <1>3, <1>4, <1>5, <1>6 DEF Next

-----------------------------------------------------------------------------
(* What the worker's steps do to the copies of the job's message. *)

At(m, p, r) == copies[m][p].relays[r]

OthersKept(m) == \A n \in Message : n # m => copies'[n] = copies[n]

SameCopy(m, p) == copies'[m][p] = copies[m][p]

(* Some relays of a copy are tried. *)
CopyBegins(m, p, some) ==
    /\ copies'[m][p].row
    /\ \A r \in Relay : copies'[m][p].relays[r] =
           IF r \in some /\ At(m, p, r) # "ok" THEN "pending" ELSE At(m, p, r)

(* Some relays of a copy will not be tried; one that lists no other goes.   *)
CopyDrops(m, p, some) ==
    /\ copies'[m][p].row => copies[m][p].row
    /\ copies[m][p].row /\ ~ copies'[m][p].row =>
           \A r \in Relay : copies'[m][p].relays[r] = "none"
    /\ \A r \in Relay : copies'[m][p].relays[r] =
           IF copies[m][p].row /\ r \in some /\ At(m, p, r) = "pending"
           THEN "none" ELSE At(m, p, r)

JobRelays(p) == {t.relay : t \in {u \in JobTargets(job.id) : u.to = p}}
LocalRelays(p) == {t.relay : t \in {u \in local : u.to = p}}

LEMMA BeginMoves ==
    ASSUME NEW relays \in [Relay -> Entry], NEW some, NEW r \in Relay
    PROVE  BeginRelayTargets(relays, some)[r] =
               IF r \in some /\ relays[r] # "ok" THEN "pending" ELSE relays[r]
  BY DEF BeginRelayTargets

LEMMA DropMoves ==
    ASSUME NEW relays \in [Relay -> Entry], NEW some, NEW r \in Relay
    PROVE  DropPending(relays, some)[r] =
               IF r \in some /\ relays[r] = "pending" THEN "none" ELSE relays[r]
  BY DEF DropPending

LEMMA SettleMoves ==
    ASSUME NEW relays \in [Relay -> Entry], NEW relay, NEW ok, NEW r \in Relay
    PROVE  SettleRelayTarget(relays, relay, ok)[r] =
               IF r # relay \/ relays[r] = "ok" THEN relays[r]
               ELSE IF ok THEN "ok" ELSE "failed"
  BY DEF SettleRelayTarget

LEMMA CopyType ==
    ASSUME TypeInv, NEW m \in Message, NEW p \in Person
    PROVE  copies[m][p] \in Copy /\ copies[m][p].relays \in [Relay -> Entry]
  BY DEF TypeInv, DatabaseType, Copy

(* prepareAllTargets, when it commits. *)
Prepares(resolved) ==
    /\ OthersKept(job.msg)
    /\ \A p \in Person :
           IF IsDurable /\ p \in Recipients THEN CopyBegins(job.msg, p, resolved[p])
           ELSE SameCopy(job.msg, p)
    /\ targets \subseteq targets'
    /\ \A t \in targets' \ targets :
           t.job = job.id /\ t.to \in Recipients /\ t.relay \in resolved[t.to] /\ job \in jobs
    /\ \A p \in Recipients, r \in Relay : r \in resolved[p] =>
           [job |-> job.id, to |-> p, relay |-> r] \in targets' /\ job \in jobs

LEMMA PrepareCopies ==
    ASSUME TypeInv, PrepareAllTargets
    PROVE  \/ UNCHANGED <<copies, status, deliveryError, targets>>
           \/ \E resolved \in [Recipients -> RelayLists] :
                  CommitTargets(resolved) /\ Prepares(resolved)
<1>1. job \in JobRow /\ job.msg \in Message
  BY PrepareShape DEF TypeInv, JobHeld, JobRow
<1>2. CASE ~ CanRun
  BY <1>2 DEF PrepareAllTargets, Goto
<1>3. CASE CanRun
  <2>1. PICK resolved \in [Recipients -> RelayLists] :
            \/ /\ job \in jobs \/ \A p \in Recipients : resolved[p] = {}
               /\ CommitTargets(resolved)
            \/ Goto("abandon") /\ UNCHANGED <<targets, copies, status, deliveryError>>
    BY <1>3 DEF PrepareAllTargets
  <2>2. CASE Goto("abandon") /\ UNCHANGED <<targets, copies, status, deliveryError>>
    BY <2>2 DEF Goto
  <2>3. CASE (job \in jobs \/ \A p \in Recipients : resolved[p] = {}) /\ CommitTargets(resolved)
    <3> DEFINE begun(p) == BeginRelayTargets(copies[job.msg][p].relays, resolved[p])
               fresh(p) == [row |-> TRUE, relays |-> begun(p), error |-> resolved[p] = {}]
               new == [p \in Person |-> IF p \in Recipients THEN fresh(p) ELSE copies[job.msg][p]]
               row(p, r) == [job |-> job.id, to |-> p, relay |-> r]
    <3>1. copies' = IF IsDurable THEN [copies EXCEPT ![job.msg] = new] ELSE copies
      BY <2>3 DEF CommitTargets
    <3>2. OthersKept(job.msg) /\ copies'[job.msg] = IF IsDurable THEN new ELSE copies[job.msg]
      <4> HIDE DEF new
      <4> QED
        BY <1>1, <3>1 DEF OthersKept, TypeInv, DatabaseType
    <3>3. ASSUME NEW p \in Person
          PROVE  IF IsDurable /\ p \in Recipients THEN CopyBegins(job.msg, p, resolved[p])
                 ELSE SameCopy(job.msg, p)
      <4>1. fresh(p).row /\ fresh(p).relays = begun(p)
        <5> HIDE DEF begun
        <5> QED
          OBVIOUS
      <4>2. \A r \in Relay : begun(p)[r] =
                IF r \in resolved[p] /\ At(job.msg, p, r) # "ok" THEN "pending"
                ELSE At(job.msg, p, r)
        <5>1. copies[job.msg][p].relays \in [Relay -> Entry]
          BY <1>1, CopyType
        <5> QED
          BY <5>1, BeginMoves DEF At
      <4>3. new[p] = IF p \in Recipients THEN fresh(p) ELSE copies[job.msg][p]
        <5> HIDE DEF fresh
        <5> QED
          OBVIOUS
      <4> HIDE DEF new, fresh, begun
      <4> QED
        BY <3>2, <4>1, <4>2, <4>3 DEF CopyBegins, SameCopy
    <3>4. targets' = targets \cup
              {t \in {row(p, r) : p \in Recipients, r \in Relay} : t.relay \in resolved[t.to]}
      BY <2>3 DEF CommitTargets
    <3>5. \A p, r : row(p, r).job = job.id /\ row(p, r).to = p /\ row(p, r).relay = r
      OBVIOUS
    <3>6. /\ \A t \in targets' : t \in targets \/ \E p \in Recipients, r \in Relay :
                                     t = row(p, r) /\ r \in resolved[p]
          /\ \A p \in Recipients, r \in Relay : r \in resolved[p] => row(p, r) \in targets'
          /\ targets \subseteq targets'
      <4> HIDE DEF row
      <4> QED
        BY <3>4, <3>5
    <3>7. \A p \in Recipients : resolved[p] # {} => job \in jobs
      BY <2>3
    <3>8. Prepares(resolved)
      <4> HIDE DEF new
      <4>1. \A t \in targets' \ targets :
                  t.job = job.id /\ t.to \in Recipients /\ t.relay \in resolved[t.to] /\ job \in jobs
          <5> SUFFICES ASSUME NEW t \in targets' \ targets
                       PROVE  /\ t.job = job.id /\ t.to \in Recipients
                              /\ t.relay \in resolved[t.to] /\ job \in jobs
            OBVIOUS
          <5>1. PICK p \in Recipients, r \in Relay : t = row(p, r) /\ r \in resolved[p]
            BY <3>6
          <5>2. t.job = job.id /\ t.to = p /\ t.relay = r
            BY <5>1
          <5> QED
            BY <3>7, <5>1, <5>2
      <4> QED
        BY <3>2, <3>3, <3>6, <3>7, <4>1 DEF Prepares
    <3> QED
      BY <2>3, <3>8
  <2> QED
    BY <2>1, <2>2, <2>3
<1> QED
  BY <1>2, <1>3

(* markTargetsPending begins the relays the worker is about to publish to. *)
Marks(p) ==
    \/ /\ SameCopy(job.msg, p)
       /\ IsDurable /\ copies[job.msg][p].row => LocalRelays(p) = {}
    \/ IsDurable /\ copies[job.msg][p].row /\ CopyBegins(job.msg, p, LocalRelays(p))

LEMMA MarkCopies ==
    ASSUME TypeInv, MarkTargetsPending
    PROVE  OthersKept(job.msg) /\ \A p \in Person : Marks(p)
<1> DEFINE mine(p)   == {t.relay : t \in {u \in local : u.to = p}}
           copy(p)   == copies[job.msg][p]
           marked(p) == [copy(p) EXCEPT !.relays = BeginRelayTargets(@, mine(p)), !.error = FALSE]
           new == [p \in Person |-> IF copy(p).row /\ mine(p) # {} THEN marked(p) ELSE copy(p)]
<1>0. pc = "mark"
  BY Zenon DEF MarkTargetsPending
<1>1. job.msg \in Message
  BY <1>0 DEF TypeInv, JobHeld, JobRow
<1>2. copies' = IF IsDurable THEN [copies EXCEPT ![job.msg] = new] ELSE copies
  BY Zenon DEF MarkTargetsPending
<1>3. OthersKept(job.msg) /\ copies'[job.msg] = IF IsDurable THEN new ELSE copies[job.msg]
  <2> HIDE DEF new
  <2> QED
    BY <1>1, <1>2 DEF OthersKept, TypeInv, DatabaseType
<1>4. ASSUME NEW p \in Person PROVE Marks(p)
  <2>1. marked(p).row = copy(p).row
        /\ marked(p).relays = BeginRelayTargets(copy(p).relays, mine(p))
    BY <1>1, CopyType DEF Copy
  <2>2. \A r \in Relay : BeginRelayTargets(copy(p).relays, mine(p))[r] =
            IF r \in mine(p) /\ At(job.msg, p, r) # "ok" THEN "pending" ELSE At(job.msg, p, r)
    <3> HIDE DEF mine
    <3>1. copy(p).relays \in [Relay -> Entry]
      BY <1>1, CopyType
    <3> QED
      BY <3>1, BeginMoves DEF At
  <2>3. new[p] = IF copy(p).row /\ mine(p) # {} THEN marked(p) ELSE copy(p)
    <3> HIDE DEF mine, copy, marked
    <3> QED
      OBVIOUS
  <2>4. mine(p) = LocalRelays(p)
    BY DEF LocalRelays
  <2> HIDE DEF mine, marked, new
  <2> QED
    BY <1>3, <2>1, <2>2, <2>3, <2>4 DEF Marks, SameCopy, CopyBegins
<1> QED
  BY Zenon, <1>3, <1>4

LEMMA FailCopies ==
    ASSUME TypeInv, NEW p \in unready, FailRecipient(p), NEW q \in Person
    PROVE  /\ OthersKept(job.msg)
           /\ \/ SameCopy(job.msg, q) /\ (q = p /\ CanRun => ~ IsDurable)
              \/ q = p /\ CanRun /\ CopyDrops(job.msg, p, JobRelays(p))
                 /\ copies'[job.msg][p].row = copies[job.msg][p].row
<1> DEFINE mine == {t \in JobTargets(job.id) : t.to = p}
           copy == copies[job.msg][p]
           relays == {t.relay : t \in mine}
           failed == [copy EXCEPT !.relays = DropPending(@, relays), !.error = TRUE]
           new == IF copy.row THEN failed ELSE copy
<1>1. job.msg \in Message /\ p \in Person
  BY DEF FailRecipient, TypeInv, JobHeld, JobRow, LocalsType
<1>2. copies' = IF CanRun /\ IsDurable THEN [copies EXCEPT ![job.msg][p] = new] ELSE copies
  BY DEF FailRecipient
<1>3. failed.row = copy.row /\ failed.relays = DropPending(copy.relays, relays)
  BY <1>1, CopyType DEF Copy
<1>4. \A r \in Relay : DropPending(copy.relays, relays)[r] =
          IF r \in relays /\ At(job.msg, p, r) = "pending" THEN "none" ELSE At(job.msg, p, r)
  <2> HIDE DEF relays
  <2>1. copy.relays \in [Relay -> Entry]
    BY <1>1, CopyType
  <2> QED
    BY <2>1, DropMoves DEF At
<1>5. relays = JobRelays(p)
  BY DEF JobRelays
<1>6. /\ OthersKept(job.msg)
      /\ copies'[job.msg][q] =
             IF CanRun /\ IsDurable /\ q = p THEN new ELSE copies[job.msg][q]
  <2> HIDE DEF new
  <2> QED
    BY <1>1, <1>2 DEF OthersKept, TypeInv, DatabaseType
<1> HIDE DEF failed, relays
<1>7. new = IF copy.row THEN failed ELSE copy
  OBVIOUS
<1> HIDE DEF new
<1> QED
  BY <1>3, <1>4, <1>5, <1>6, <1>7 DEF SameCopy, CopyDrops, At

LEMMA AbandonCopies ==
    ASSUME TypeInv, AbandonJob, NEW p \in Person
    PROVE  /\ OthersKept(job.msg)
           /\ \/ SameCopy(job.msg, p) /\ (pc = "abandonStrip" => ~ IsDurable)
              \/ CopyDrops(job.msg, p, JobRelays(p))
<1> DEFINE new == [q \in Person |-> AbandonedCopy(q)]
           copy == copies[job.msg][p]
           mine == {t.relay : t \in {u \in JobTargets(job.id) : u.to = p}}
           stripped == DropPending(copy.relays, mine)
<1>1. job.msg \in Message
  BY DEF AbandonJob, TypeInv, JobHeld, JobRow
<1>2. copies' = IF IsDurable /\ pc = "abandonStrip" THEN [copies EXCEPT ![job.msg] = new]
                ELSE copies
  BY DEF AbandonJob
<1>3. /\ OthersKept(job.msg)
      /\ copies'[job.msg] = IF IsDurable /\ pc = "abandonStrip" THEN new ELSE copies[job.msg]
  <2> HIDE DEF new
  <2> QED
    BY <1>1, <1>2 DEF OthersKept, TypeInv, DatabaseType
<1>4. new[p] = AbandonedCopy(p)
  OBVIOUS
<1>5. AbandonedCopy(p) = IF ~ copy.row \/ mine = {} THEN copy
                         ELSE IF Listed(stripped) = {} THEN NoCopy
                         ELSE [copy EXCEPT !.relays = stripped]
  BY DEF AbandonedCopy
<1>6. mine = JobRelays(p)
  BY DEF JobRelays
<1>7. copy \in Copy /\ copy.relays \in [Relay -> Entry]
  BY <1>1, CopyType
<1>8. \A r \in Relay : stripped[r] =
          IF r \in mine /\ At(job.msg, p, r) = "pending" THEN "none" ELSE At(job.msg, p, r)
  <2> HIDE DEF mine
  <2> QED
    BY <1>7, DropMoves DEF At
<1>9. Listed(stripped) = {} => \A r \in Relay : stripped[r] = "none"
  <2>1. DOMAIN stripped = Relay
    BY <1>7, RelayListType
  <2> HIDE DEF stripped
  <2> QED
    BY <2>1 DEF Listed
<1>10. /\ [copy EXCEPT !.relays = stripped].relays = stripped
       /\ [copy EXCEPT !.relays = stripped].row = copy.row
  <2> HIDE DEF stripped, copy
  <2> QED
    BY <1>7 DEF Copy
<1>11. ~ NoCopy.row /\ \A r \in Relay : NoCopy.relays[r] = "none"
  BY DEF NoCopy
<1> HIDE DEF new, stripped, mine, copy
<1>12. CASE ~ (IsDurable /\ pc = "abandonStrip")
  BY <1>3, <1>12 DEF SameCopy
<1>13. CASE IsDurable /\ pc = "abandonStrip"
  <2>1. copies'[job.msg][p] = AbandonedCopy(p)
    BY <1>3, <1>4, <1>13
  <2>2. /\ AbandonedCopy(p).row => copy.row
        /\ copy.row /\ ~ AbandonedCopy(p).row =>
               \A r \in Relay : AbandonedCopy(p).relays[r] = "none"
    BY <1>5, <1>10, <1>11
  <2>3. ASSUME NEW r \in Relay
        PROVE  AbandonedCopy(p).relays[r] =
                   IF copy.row /\ r \in mine /\ At(job.msg, p, r) = "pending"
                   THEN "none" ELSE At(job.msg, p, r)
    <3>1. CASE ~ copy.row \/ mine = {}
      BY <1>5, <3>1 DEF At, copy
    <3>2. CASE copy.row /\ mine # {}
      BY <1>5, <1>8, <1>9, <1>10, <1>11, <3>2
    <3> QED
      BY <3>1, <3>2
  <2> QED
    BY <1>3, <1>6, <2>1, <2>2, <2>3 DEF CopyDrops, copy
<1> QED
  BY <1>12, <1>13

(* settleTarget: whether it finds the target and the copy. *)
Settles(w) == w.target \in targets /\ w.msg \in Durable /\ copies[w.msg][w.target.to].row

LEMMA SettleCopies ==
    ASSUME TypeInv, NEW w \in writes, SettleTarget(w), NEW p \in Person
    PROVE  /\ OthersKept(w.msg)
           /\ copies'[w.msg][p].row = copies[w.msg][p].row
           /\ \A r \in Relay : copies'[w.msg][p].relays[r] =
                  IF ~ Settles(w) \/ p # w.target.to \/ r # w.target.relay
                     \/ At(w.msg, p, r) = "ok"
                  THEN At(w.msg, p, r) ELSE IF w.ok THEN "ok" ELSE "failed"
<1> DEFINE t == w.target
           copy == copies[w.msg][t.to]
           settled == [copy EXCEPT !.relays = SettleRelayTarget(@, t.relay, w.ok)]
<1>1. w.msg \in Message /\ t.to \in Person
  BY DEF TypeInv, PublishType, Target
<1>2. copies' = IF Settles(w) THEN [copies EXCEPT ![w.msg][t.to] = settled] ELSE copies
  BY DEF SettleTarget, Settles
<1>3. settled.row = copy.row /\ settled.relays = SettleRelayTarget(copy.relays, t.relay, w.ok)
  BY <1>1, CopyType DEF Copy
<1>4. \A r \in Relay : SettleRelayTarget(copy.relays, t.relay, w.ok)[r] =
          IF r # t.relay \/ At(w.msg, t.to, r) = "ok" THEN At(w.msg, t.to, r)
          ELSE IF w.ok THEN "ok" ELSE "failed"
  <2>1. copy.relays \in [Relay -> Entry]
    BY <1>1, CopyType
  <2> QED
    BY <2>1, SettleMoves DEF At
<1>5. /\ OthersKept(w.msg)
      /\ copies'[w.msg][p] = IF Settles(w) /\ p = t.to THEN settled ELSE copies[w.msg][p]
  <2> HIDE DEF settled
  <2> QED
    BY <1>1, <1>2 DEF OthersKept, TypeInv, DatabaseType
<1> HIDE DEF settled
<1> QED
  BY <1>3, <1>4, <1>5 DEF At

-----------------------------------------------------------------------------
(* The stages of a removal. *)

(* What a step that does not write for an account being removed leaves. *)
AbsentStays == \A m \in Message : status[m] = "absent" => status'[m] = "absent"
RowsShrink ==
    \A m \in Message, p \in Person : copies'[m][p].row => copies[m][p].row
StagesStay ==
    \A a \in Account : removal'[a] \in {"copies", "jobs", "done"} => removal'[a] = removal[a]

LEMMA StageFrame ==
    ASSUME TypeInv, StageInv, AbsentStays, RowsShrink, StagesStay, jobs' \subseteq jobs
    PROVE  StageInv'
  BY DEF StageInv, AbsentStays, RowsShrink, StagesStay, NoRows, HasJob

(* A deleted message stays deleted when its status is recomputed. *)
LEMMA RecomputeAbsent ==
    ASSUME TypeInv, NEW m \in Message,
           RecomputeMessageStatus(m) \/ UNCHANGED <<status, deliveryError>>
    PROVE  AbsentStays
  BY DEF RecomputeMessageStatus, RecomputedStatus, AbsentStays, TypeInv, DatabaseType

(* A user's operation needs the message or the copy that it is about. *)
LEMMA StageUser ==
    ASSUME TypeInv, StageInv, User PROVE StageInv'
<1> USE DEF process
<1>1. ASSUME NEW m \in Message, NEW enqueueRelay \in BOOLEAN, StoreRumor(m, enqueueRelay)
      PROVE  StageInv'
  <2>1. removal' = removal /\ copies' = copies /\ removal[Owner[m]] = "no"
    BY <1>1 DEF StoreRumor
  <2>2. \A n \in Message : n # m => status'[n] = status[n]
    BY <1>1 DEF StoreRumor, TypeInv, DatabaseType
  <2>3. \A j \in jobs' : j \in jobs \/ j.msg = m
    BY <1>1 DEF StoreRumor
  <2> QED
    BY <2>1, <2>2, <2>3 DEF StageInv, NoRows, HasJob
<1>2. ASSUME NEW m \in Message, NEW scope, EnqueueAll(m, scope) PROVE StageInv'
  <2>1. removal' = removal /\ copies' = copies /\ status[m] # "absent"
    BY <1>2 DEF EnqueueAll, database
  <2>2. \A n \in Message : n # m => status'[n] = status[n]
    BY <1>2 DEF EnqueueAll, MarkQueued, database, TypeInv, DatabaseType
  <2>3. \A j \in jobs' : j \in jobs \/ j.msg = m
    BY <1>2 DEF EnqueueAll, database
  <2> QED
    BY <2>1, <2>2, <2>3 DEF StageInv, NoRows, HasJob
<1>3. ASSUME NEW m \in Message, NEW p \in Person, NEW requested,
             EnqueueRetryTargets(m, p, requested)
      PROVE  StageInv'
  <2>1. removal' = removal /\ copies' = copies /\ copies[m][p].row
    BY <1>3 DEF EnqueueRetryTargets, database
  <2>2. AbsentStays
    BY <1>3 DEF EnqueueRetryTargets, database, MarkQueued, AbsentStays, TypeInv, DatabaseType
  <2>3. \A j \in jobs' : j \in jobs \/ j.msg = m
    BY <1>3 DEF EnqueueRetryTargets, database
  <2> QED
    BY <2>1, <2>2, <2>3 DEF StageInv, AbsentStays, NoRows, HasJob
<1> QED
  BY <1>1, <1>2, <1>3 DEF User

LEMMA StageEnvironment ==
    ASSUME TypeInv, StageInv, Environment PROVE StageInv'
<1>1. UNCHANGED <<status, copies, jobs>>
  BY DEF Environment, Activate, RemoveAccount, Deactivate, GoOffline, GoOnline, EnterBackground,
         EnterForeground, Crash, database
<1>2. StagesStay
  BY DEF Environment, Activate, RemoveAccount, Deactivate, GoOffline, GoOnline, EnterBackground,
         EnterForeground, Crash, StagesStay, TypeInv, ProcessType, RemovalStage
<1> QED
  BY <1>1, <1>2, StageFrame DEF AbsentStays, RowsShrink

LEMMA StageRemoval ==
    ASSUME TypeInv, StageInv, Removal PROVE StageInv'
<1>1. ASSUME NEW a \in Account, WaitForIdle(a) PROVE StageInv'
  <2>1. UNCHANGED <<status, copies, jobs>> /\ StagesStay
    BY <1>1 DEF WaitForIdle, StagesStay, database, TypeInv, ProcessType
  <2> QED
    BY <2>1, StageFrame DEF AbsentStays, RowsShrink
<1>2. ASSUME NEW a \in Account, DeleteAccountData(a) PROVE StageInv'
  <2> SUFFICES ASSUME NEW b \in Account, NEW m \in Message, Owner[m] = b
               PROVE  /\ removal'[b] \in {"copies", "jobs", "done"} => status'[m] = "absent"
                      /\ removal'[b] \in {"jobs", "done"} => (NoRows(m))'
                      /\ removal'[b] = "done" => ~ HasJob(m, jobs')
    BY DEF StageInv
  <2>1. AbsentStays /\ RowsShrink /\ jobs' \subseteq jobs
    <3>1. AbsentStays
      BY <1>2 DEF DeleteAccountData, AbsentStays
    <3>2. RowsShrink
      BY <1>2 DEF DeleteAccountData, RowsShrink, NoCopy, TypeInv, DatabaseType
    <3>3. jobs' \subseteq jobs
      BY <1>2 DEF DeleteAccountData, DeleteJobRows
    <3> QED
      BY <3>1, <3>2, <3>3
  <2>2. CASE b # a
    <3>1. removal'[b] = removal[b]
      BY <1>2, <2>2 DEF DeleteAccountData, TypeInv, ProcessType
    <3> QED
      BY <2>1, <3>1 DEF StageInv, AbsentStays, RowsShrink, NoRows, HasJob
  <2>3. CASE b = a /\ removal[a] = "messages"
    <3>1. removal'[b] = "copies" /\ status'[m] = "absent"
      BY <1>2, <2>3 DEF DeleteAccountData, TypeInv, ProcessType
    <3> QED
      BY <3>1
  <2>4. CASE b = a /\ removal[a] = "copies"
    <3>1. removal'[b] = "jobs" /\ copies'[m] = [p \in Person |-> NoCopy]
      BY <1>2, <2>4 DEF DeleteAccountData, TypeInv, ProcessType
    <3>2. (NoRows(m))'
      BY <3>1 DEF NoRows, NoCopy
    <3>3. status'[m] = "absent"
      BY <2>1, <2>4 DEF StageInv, AbsentStays
    <3> QED
      BY <3>1, <3>2, <3>3
  <2>5. CASE b = a /\ removal[a] = "jobs"
    <3>1. removal'[b] = "done"
      BY <1>2, <2>5 DEF DeleteAccountData, TypeInv, ProcessType
    <3>2. ~ HasJob(m, jobs')
      BY <1>2, <2>5 DEF DeleteAccountData, DeleteJobRows, AccountJobs, HasJob
    <3>3. status'[m] = "absent" /\ (NoRows(m))'
      BY <2>1, <2>5 DEF StageInv, AbsentStays, RowsShrink, NoRows
    <3> QED
      BY <3>1, <3>2, <3>3
  <2> QED
    BY <1>2, <2>2, <2>3, <2>4, <2>5 DEF DeleteAccountData
<1> QED
  BY <1>1, <1>2 DEF Removal

(* What the worker writes: rows that exist, but for prepareAllTargets.     *)
LEMMA PrepareStage ==
    ASSUME TypeInv, SessionInv, OwnerInv, StageInv, PrepareAllTargets
    PROVE  StageInv'
<1>1. job \in JobRow /\ job.msg \in Message /\ Working
  BY PrepareShape DEF TypeInv, JobHeld, JobRow, Working
<1>2. jobs' = jobs /\ removal' = removal
  BY PrepareShape
<1>3. CASE ~ CanRun
  BY <1>2, <1>3, StageFrame DEF PrepareAllTargets, AbsentStays, RowsShrink, StagesStay
<1>4. CASE CanRun
  <2>1. removal[Owner[job.msg]] \in {"no", "interrupted"}
    BY <1>1, <1>4 DEF CanRun, SessionInv, OwnerInv
  <2>2. PICK resolved \in [Recipients -> RelayLists] :
            CommitTargets(resolved) \/ UNCHANGED <<status, copies>>
    BY <1>4 DEF PrepareAllTargets
  <2>3. \A m \in Message : m # job.msg => status'[m] = status[m] /\ copies'[m] = copies[m]
    BY <1>1, <2>2 DEF CommitTargets, TypeInv, DatabaseType
  <2> QED
    BY <1>2, <2>1, <2>3 DEF StageInv, NoRows
<1> QED
  BY <1>3, <1>4

LEMMA StageFailRecipient ==
    ASSUME TypeInv, StageInv, NEW p \in unready, FailRecipient(p)
    PROVE  StageInv'
<1>1. job.msg \in Message /\ p \in Person /\ jobs' = jobs /\ removal' = removal
  BY DEF FailRecipient, process, TypeInv, JobHeld, JobRow, LocalsType
<1>2. RowsShrink
  BY <1>1, FailCopies DEF RowsShrink, OthersKept, SameCopy
<1>3. AbsentStays
  BY <1>1, RecomputeAbsent DEF FailRecipient
<1> QED
  BY <1>1, <1>2, <1>3, StageFrame DEF StagesStay

LEMMA StageMark ==
    ASSUME TypeInv, StageInv, MarkTargetsPending
    PROVE  StageInv'
<1>1. UNCHANGED <<status, jobs, removal>>
  BY Zenon DEF MarkTargetsPending, process
<1>2. RowsShrink
  BY MarkCopies DEF RowsShrink, OthersKept, Marks, SameCopy
<1> QED
  BY <1>1, <1>2, StageFrame DEF StagesStay, AbsentStays

LEMMA StageSettle ==
    ASSUME TypeInv, StageInv, NEW w \in writes, SettleTarget(w)
    PROVE  StageInv'
<1>1. removal' = removal /\ jobs' \subseteq jobs
  BY DEF SettleTarget, RemoveTargetRow, process
<1>2. RowsShrink
  BY SettleCopies DEF RowsShrink, OthersKept
<1>3. w.msg \in Message
  BY DEF TypeInv, PublishType
<1>4. AbsentStays
  BY <1>3, RecomputeAbsent DEF SettleTarget
<1> QED
  BY <1>1, <1>2, <1>4, StageFrame DEF StagesStay

LEMMA StageAbandon ==
    ASSUME TypeInv, StageInv, AbandonJob
    PROVE  StageInv'
<1>1. removal' = removal /\ jobs' \subseteq jobs
  BY DEF AbandonJob, DeleteJobRows, process
<1>2. RowsShrink
  BY AbandonCopies DEF RowsShrink, OthersKept, SameCopy, CopyDrops
<1>3. AbsentStays
  BY DEF AbandonJob, AbsentStays, TypeInv, DatabaseType
<1> QED
  BY <1>1, <1>2, <1>3, StageFrame DEF StagesStay

LEMMA StageStep ==
    TypeInv /\ OrderInv /\ SessionInv /\ OwnerInv /\ StageInv /\ [Next]_vars => StageInv'
<1> SUFFICES ASSUME TypeInv, OrderInv, SessionInv, OwnerInv, StageInv, [Next]_vars
             PROVE  StageInv'
  OBVIOUS
<1> USE DEF database, process
<1>0. UNCHANGED <<status, copies, jobs, removal>> => StageInv'
  BY StageFrame DEF AbsentStays, RowsShrink, StagesStay
<1>1. CASE UNCHANGED vars
  BY <1>0, <1>1 DEF vars
<1>2. CASE Worker
  <2>1. ASSUME LoadJob \/ FinishEmptyJob \/ \E t \in skipping : SkipTarget(t) PROVE StageInv'
    <3>1. job.msg \in Message
      BY <2>1 DEF LoadJob, FinishEmptyJob, SkipTarget, TypeInv, JobHeld, JobRow
    <3>2. AbsentStays
      BY <2>1, <3>1, RecomputeAbsent DEF LoadJob, FinishEmptyJob, SkipTarget
    <3>3. UNCHANGED <<copies, removal>> /\ jobs' \subseteq jobs
      BY <2>1 DEF LoadJob, FinishEmptyJob, SkipTarget, DeleteJobRows, RemoveTargetRow
    <3> QED
      BY <3>2, <3>3, StageFrame DEF RowsShrink, StagesStay
  <2>2. CASE \/ NextJob \/ DrainEnded \/ FindSuccessful \/ SkipDone \/ StartWrap \/ WrapDone
             \/ StartPublish \/ PublishDone
             \/ (\E p \in unready : StorePayload(p))
             \/ (\E t \in inflight, ok \in BOOLEAN : RelayAnswers(t, ok))
    BY <1>0, <2>2
       DEF NextJob, DrainEnded, FindSuccessful, SkipDone, StartWrap, WrapDone, StartPublish,
           PublishDone, StorePayload, RelayAnswers
  <2> QED
    BY <1>2, <2>1, <2>2, PrepareStage, StageFailRecipient, StageMark, StageSettle, StageAbandon
       DEF Worker
<1>3. CASE Faults
  BY <1>0, <1>3 DEF Faults, StepFails, WorkerFails, WriteFails
<1> QED
  BY <1>1, <1>2, <1>3, StageUser, StageEnvironment, StageRemoval DEF Next

-----------------------------------------------------------------------------
LEMMA RemovalStep ==
    TypeInv /\ OrderInv /\ RemovalInv /\ [Next]_vars => RemovalInv'
  BY KeysStep, SessionStep, OwnerStep, StageStep DEF RemovalInv

LEMMA RemovalIsFinal == TypeInv /\ RemovalInv => NoResurrection
<1> SUFFICES ASSUME TypeInv, RemovalInv, NEW a \in Account, removal[a] = "done"
             PROVE  /\ \A m \in Message : Owner[m] = a =>
                           status[m] = "absent" /\ CopyRows(copies[m]) = {} /\ ~ HasJob(m, jobs)
                    /\ \A t \in targets : \E j \in jobs : j.id = t.job
                    /\ \A w \in payloads : \E j \in jobs : j.id = w.job
  BY DEF NoResurrection
<1>1. ASSUME NEW m \in Message, NoRows(m) PROVE CopyRows(copies[m]) = {}
  BY <1>1 DEF CopyRows, NoRows
<1> QED
  BY <1>1 DEF RemovalInv, StageInv, KeyInv

(* Once an account's rows are deleted none of them comes back, whatever    *)
(* session, worker or settlement was still under way, also when the        *)
(* database rejects statements and when the process dies in between.       *)
THEOREM RemovedDataStaysRemoved == Spec => []NoResurrection
<1>1. TypeInv /\ OrderInv /\ RemovalInv /\ [Next]_vars => (TypeInv /\ OrderInv /\ RemovalInv)'
  BY TypeStep, OrderStep, RemovalStep
<1>2. Spec => [](TypeInv /\ OrderInv /\ RemovalInv)
  BY <1>1, TypeInit, OrderInit, RemovalInit, PTL DEF Spec
<1> QED
  BY <1>2, RemovalIsFinal, PTL
=============================================================================
