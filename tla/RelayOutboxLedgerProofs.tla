----------------------- MODULE RelayOutboxLedgerProofs -----------------------
(***************************************************************************)
(* The outbox implements DeliveryLedger: whatever the queue, the worker,   *)
(* the settlements, sessions and crashes do, what the user reads of a      *)
(* message's delivery only moves as the ledger allows.  The step that      *)
(* could break it is a settlement that finds an entry which is not being   *)
(* tried.  The argument: a settlement accepted for a target that still     *)
(* exists concerns the job that the worker works on, or one that is gone;  *)
(* whatever drops entries waits for the settlements of the message; and a  *)
(* relay is marked as being tried before it is handed the message.         *)
(* Settlements may be rejected, so that the worker runs on beside others.  *)
(***************************************************************************)
EXTENDS RelayOutboxProofs

-----------------------------------------------------------------------------
(* Which job the rows and the settlements that the worker deals with       *)
(* belong to.  A rejected settlement lets the worker go on beside those    *)
(* accepted after it: they still concern the job it works on, or none.     *)

(* A job of that id in the queue is the job the worker read. *)
JobIdentity == Working => \A j \in jobs : j.id = job.id => j = job

MessageOfTarget == \A w \in writes, j \in jobs : j.id = w.target.job => j.msg = w.msg

WritesOfJob == Working => \A w \in writes, j \in jobs :
    j.id = w.target.job /\ Owner[j.msg] = Owner[job.msg] => j.id = job.id

PreparesOnce == pc = "resolve" => JobTargets(job.id) = {}

LinkInv == JobIdentity /\ MessageOfTarget /\ WritesOfJob /\ PreparesOnce

LEMMA LinkInit == Init => LinkInv
  BY DEF Init, LinkInv, JobIdentity, Working, MessageOfTarget, WritesOfJob, PreparesOnce

(* A step that enqueues at most, and takes neither a job nor an answer. *)
LinkMoves ==
    /\ \A j \in jobs' : j \in jobs \/ j.id = nextId
    /\ ~ Working' \/ (Working /\ job' = job)
    /\ writes' \subseteq writes

LEMMA LinkFrame ==
    ASSUME TypeInv, OrderInv, LinkInv, LinkMoves, PreparesOnce'
    PROVE  LinkInv'
<1> USE OutboxConstants DEF OutboxConstants
<1>1. nextId \in Nat /\ \A j \in jobs : j.id \in Nat
  BY DEF TypeInv, DatabaseType, JobRow
<1>2. Working => job.id \in Nat /\ job.id < nextId
  BY DEF OrderInv, WorkerOnOldest, Working, TypeInv, JobHeld, JobRow
<1>3. \A w \in writes : w.target.job \in Nat /\ w.target.job < nextId
  BY DEF OrderInv, WritesOnOldest, TypeInv, PublishType, Target
<1>4. JobIdentity'
  BY <1>1, <1>2 DEF LinkMoves, LinkInv, JobIdentity
<1>5. MessageOfTarget'
  BY <1>1, <1>3 DEF LinkMoves, LinkInv, MessageOfTarget
<1>6. WritesOfJob'
  BY <1>1, <1>2, <1>3 DEF LinkMoves, LinkInv, WritesOfJob
<1> QED
  BY <1>4, <1>5, <1>6 DEF LinkInv

(* Only a retry adds targets, but for prepareAllTargets. *)
TargetsMove == \A t \in targets' : t \in targets \/ t.job = nextId

LEMMA PreparesFrame ==
    ASSUME TypeInv, OrderInv, PreparesOnce, TargetsMove,
           pc' # "resolve" \/ UNCHANGED <<pc, job>>
    PROVE  PreparesOnce'
<1> USE OutboxConstants DEF OutboxConstants
<1> SUFFICES ASSUME pc' = "resolve" PROVE (JobTargets(job.id))' = {}
  BY DEF PreparesOnce
<1>1. pc = "resolve" /\ job' = job
  OBVIOUS
<1>2. job.id \in Nat /\ job.id < nextId /\ nextId \in Nat
  BY <1>1 DEF OrderInv, WorkerOnOldest, Working, TypeInv, JobHeld, JobRow, DatabaseType
<1> QED
  BY <1>1, <1>2 DEF PreparesOnce, JobTargets, TargetsMove

LEMMA LinkNextJob ==
    ASSUME TypeInv, OrderInv, LinkInv, NextJob
    PROVE  LinkInv'
<1>1. UNCHANGED <<jobs, nextId, writes>> /\ pc' \in {"load", "ending"}
  BY DEF NextJob, Goto, database, publish
<1>2. PreparesOnce' /\ MessageOfTarget'
  BY <1>1 DEF PreparesOnce, MessageOfTarget, LinkInv
<1>3. CASE ~ Working'
  BY <1>2, <1>3 DEF LinkInv, JobIdentity, WritesOfJob
<1>4. CASE Working'
  <2>1. AccountJobs(serving) \subseteq JobRow /\ AccountJobs(serving) # {}
    BY <1>4 DEF NextJob, Goto, Working, AccountJobs, TypeInv, DatabaseType
  <2>2. job' \in AccountJobs(serving) /\ \A k \in AccountJobs(serving) : job'.id <= k.id
    BY <1>4, <2>1, OldestJob DEF NextJob, Goto, Working
  <2>3. job' \in jobs /\ Owner[job'.msg] = serving
    BY <2>2 DEF AccountJobs
  <2>4. \A j \in jobs : j.id = job'.id => j = job'
    BY <2>3 DEF OrderInv, IdsAreFresh
  <2>5. ASSUME NEW w \in writes, NEW j \in jobs, j.id = w.target.job,
               Owner[j.msg] = Owner[job'.msg]
        PROVE  j.id = job'.id
    <3>1. j.id <= job'.id
      BY <2>3, <2>5 DEF OrderInv, WritesOnOldest, Oldest
    <3>2. job'.id <= j.id
      BY <2>2, <2>3, <2>5 DEF AccountJobs
    <3>3. j.id \in Nat /\ job'.id \in Nat
      BY <2>3, OutboxConstants DEF OutboxConstants, TypeInv, DatabaseType, JobRow
    <3> QED
      BY <3>1, <3>2, <3>3
  <2>6. JobIdentity'
    BY <1>1, <2>4 DEF JobIdentity
  <2>7. WritesOfJob'
    BY <1>1, <2>5 DEF WritesOfJob
  <2> QED
    BY <1>2, <2>6, <2>7 DEF LinkInv
<1> QED
  BY <1>3, <1>4

LEMMA LinkAnswer ==
    ASSUME TypeInv, OrderInv, LinkInv, NEW t \in inflight, NEW ok \in BOOLEAN,
           RelayAnswers(t, ok)
    PROVE  LinkInv'
<1>1. UNCHANGED <<jobs, targets, pc, job>> /\ pc = "publish"
  BY DEF RelayAnswers, database, wakeup, locals
<1>2. t.job = job.id
  BY <1>1 DEF OrderInv, WorkerOnOldest, Working
<1>3. \A w \in writes' : w \in writes \/ (w.target = t /\ w.msg = job.msg)
  BY DEF RelayAnswers
<1>4. JobIdentity' /\ PreparesOnce'
  BY <1>1 DEF LinkInv, JobIdentity, PreparesOnce, Working, JobTargets
<1>5. MessageOfTarget'
  BY <1>1, <1>2, <1>3 DEF LinkInv, JobIdentity, MessageOfTarget, Working
<1>6. WritesOfJob'
  BY <1>1, <1>2, <1>3 DEF LinkInv, WritesOfJob, Working
<1> QED
  BY <1>4, <1>5, <1>6 DEF LinkInv

(* What the steps leave to LinkFrame. *)
LEMMA UserMoves ==
    ASSUME WorkerOnOldest, User
    PROVE  /\ LinkMoves /\ TargetsMove
           /\ UNCHANGED <<job, local, skipping, inflight, writes, copies>>
           /\ pc' = pc \/ (pc = "idle" /\ pc' \in {"loop", "ending"})
<1>1. /\ UNCHANGED <<job, local, skipping, inflight, writes, copies>>
      /\ Wake \/ UNCHANGED wakeup
  BY DEF User, StoreRumor, EnqueueAll, EnqueueRetryTargets, WakeFor, locals, publish, database
<1>2. (\A j \in jobs' : j \in jobs \/ j.id = nextId) /\ TargetsMove
  <2>1. ASSUME NEW m \in Message, NEW scope, EnqueueAll(m, scope)
        PROVE  (\A j \in jobs' : j \in jobs \/ j.id = nextId) /\ TargetsMove
    BY <2>1 DEF EnqueueAll, database, TargetsMove
  <2>2. ASSUME NEW m \in Message, NEW enqueueRelay, StoreRumor(m, enqueueRelay)
        PROVE  (\A j \in jobs' : j \in jobs \/ j.id = nextId) /\ TargetsMove
    BY <2>2 DEF StoreRumor, TargetsMove
  <2>3. ASSUME NEW m \in Message, NEW p, NEW requested, EnqueueRetryTargets(m, p, requested)
        PROVE  (\A j \in jobs' : j \in jobs \/ j.id = nextId) /\ TargetsMove
    BY <2>3 DEF EnqueueRetryTargets, database, TargetsMove
  <2> QED
    BY <2>1, <2>2, <2>3 DEF User
<1>3. pc' = pc \/ (pc = "idle" /\ pc' \in {"loop", "ending"})
  BY <1>1 DEF Wake, StartDrain, wakeup
<1> QED
  BY <1>1, <1>2, <1>3 DEF LinkMoves, Working

LEMMA EnvironmentMoves ==
    ASSUME Environment
    PROVE  /\ LinkMoves /\ TargetsMove /\ UNCHANGED database
           /\ pc' \in {"idle", "loop", "ending"}
              \/ UNCHANGED <<pc, job, local, skipping, inflight>>
<1>1. UNCHANGED database /\ writes' \subseteq writes
  BY DEF Environment, Activate, RemoveAccount, EndSession, Deactivate, GoOffline, GoOnline,
         EnterBackground, EnterForeground, Crash, publish
<1>2. pc' \in {"idle", "loop", "ending"} \/ UNCHANGED <<pc, job, local, skipping, inflight>>
  BY DEF Environment, Activate, RemoveAccount, EndSession, Deactivate, GoOffline, GoOnline,
         EnterBackground, EnterForeground, Crash, Wake, StartDrain, wakeup, locals, publish
<1> QED
  BY <1>1, <1>2 DEF LinkMoves, TargetsMove, Working, database

LEMMA FaultMoves ==
    ASSUME Faults
    PROVE  /\ LinkMoves /\ TargetsMove /\ UNCHANGED database
           /\ UNCHANGED <<job, local, skipping, inflight>>
           /\ \/ pc' = pc \/ pc' = "ending"
              \/ pc = "resolve" /\ pc' = "abandon"
              \/ pc \in {"wrap", "seal"} /\ pc' = "abandonStrip"
<1>1. UNCHANGED database /\ writes' \subseteq writes
      /\ UNCHANGED <<job, local, skipping, inflight>>
  BY DEF Faults, StepFails, WorkerFails, WriteFails, locals, publish
<1>2. \/ pc' = pc \/ pc' = "ending"
      \/ pc = "resolve" /\ pc' = "abandon"
      \/ pc \in {"wrap", "seal"} /\ pc' = "abandonStrip"
  BY DEF Faults, StepFails, WorkerFails, WriteFails, Goto, wakeup
<1> QED
  BY <1>1, <1>2 DEF LinkMoves, TargetsMove, Working, database

LEMMA RemovalMoves ==
    ASSUME Removal
    PROVE  /\ LinkMoves /\ targets' \subseteq targets
           /\ UNCHANGED <<pc, job, local, skipping, inflight, writes>>
<1>1. /\ UNCHANGED <<pc, job, local, skipping, inflight, writes>>
      /\ jobs' \subseteq jobs /\ targets' \subseteq targets
  BY DEF Removal, WaitForIdle, DeleteAccountData, DeleteJobRows, database, wakeup, locals, publish
<1> QED
  BY <1>1 DEF LinkMoves, Working

LEMMA MarkShape ==
    ASSUME MarkTargetsPending
    PROVE  /\ pc = "mark" /\ pc' = "send"
           /\ UNCHANGED <<status, deliveryError, jobs, targets, job, local, skipping, writes>>
  BY Zenon DEF MarkTargetsPending, Goto, locals, publish

LEMMA SettleShape ==
    ASSUME NEW w \in writes, SettleTarget(w)
    PROVE  /\ UNCHANGED <<pc, job, local, skipping, inflight>>
           /\ writes' = writes \ {w}
           /\ jobs' \subseteq jobs /\ targets' = targets \ {w.target}
  BY DEF SettleTarget, RemoveTargetRow, wakeup, locals

(* The other steps of the worker that take neither a job nor an answer. *)
Preparing  == LoadJob \/ FindSuccessful \/ (\E t \in skipping : SkipTarget(t)) \/ SkipDone
Wrapping   == StartWrap \/ (\E p \in unready : StorePayload(p)) \/ WrapDone
Publishing == StartPublish \/ PublishDone
Ending     == DrainEnded \/ FinishEmptyJob \/ AbandonJob

LEMMA WorkerSteps ==
    Worker => \/ NextJob \/ (\E t \in inflight, ok \in BOOLEAN : RelayAnswers(t, ok))
              \/ PrepareAllTargets \/ MarkTargetsPending \/ (\E w \in writes : SettleTarget(w))
              \/ (\E p \in unready : FailRecipient(p))
              \/ Preparing \/ Wrapping \/ Publishing \/ Ending
  BY DEF Worker, Preparing, Wrapping, Publishing, Ending

(* They write no message but by deleting rows, and stay with the job. *)
LEMMA PreparingShape ==
    ASSUME Preparing
    PROVE  /\ jobs' \subseteq jobs /\ targets' \subseteq targets /\ UNCHANGED <<writes, copies>>
           /\ Working /\ job' = job /\ pc' \notin {"send", "publish"}
           /\ pc' # "resolve" \/ LoadJob
           /\ skipping' \subseteq skipping \/ FindSuccessful
<1>1. jobs' \subseteq jobs /\ targets' \subseteq targets /\ UNCHANGED <<writes, copies>>
  BY DEF Preparing, LoadJob, FindSuccessful, SkipTarget, SkipDone, DeleteJobRows,
         RemoveTargetRow, database, publish
<1>2. Working /\ job' = job /\ pc' \notin {"send", "publish"} /\ (pc' # "resolve" \/ LoadJob)
  BY DEF Preparing, LoadJob, FindSuccessful, SkipTarget, SkipDone, Working, Goto, wakeup
<1>3. skipping' \subseteq skipping \/ FindSuccessful
  BY DEF Preparing, LoadJob, SkipTarget, SkipDone
<1> QED
  BY <1>1, <1>2, <1>3

LEMMA WrappingShape ==
    ASSUME Wrapping
    PROVE  /\ UNCHANGED <<copies, status, jobs, targets, writes, skipping>>
           /\ Working /\ job' = job /\ pc' \notin {"resolve", "send", "publish"}
<1>1. UNCHANGED <<copies, status, jobs, targets, writes, skipping>>
  BY DEF Wrapping, StartWrap, StorePayload, WrapDone, database, publish, locals
<1>2. Working /\ job' = job /\ pc' \notin {"resolve", "send", "publish"}
  BY DEF Wrapping, StartWrap, StorePayload, WrapDone, locals, Goto, Working
<1> QED
  BY <1>1, <1>2

LEMMA FailShape ==
    ASSUME NEW p \in unready, FailRecipient(p)
    PROVE  /\ jobs' = jobs /\ targets' \subseteq targets /\ UNCHANGED <<writes, skipping, job>>
           /\ pc = "seal" /\ pc' \in {"wrap", "ending"}
           /\ CanRun => Serialized
<1>1. UNCHANGED <<jobs, writes, skipping, job>> /\ pc = "seal" /\ (CanRun => Serialized)
  BY DEF FailRecipient, publish
<1>2. targets' \subseteq targets /\ pc' \in {"wrap", "ending"}
  BY DEF FailRecipient, Goto
<1> QED
  BY <1>1, <1>2

LEMMA PublishingShape ==
    ASSUME Publishing
    PROVE  /\ UNCHANGED <<copies, jobs, targets, writes, job, local, skipping>>
           /\ \/ pc = "send" /\ pc' = "publish" /\ inflight' = local
              \/ pc = "publish" /\ pc' \in {"ending", "loop"}
  BY DEF Publishing, StartPublish, PublishDone, Goto, database, locals

LEMMA EndingShape ==
    ASSUME Ending
    PROVE  /\ jobs' \subseteq jobs /\ targets' \subseteq targets /\ writes' = writes
           /\ pc' \in {"idle", "loop", "ending"}
           /\ skipping' = {} \/ UNCHANGED <<job, skipping>>
           /\ AbandonJob \/ copies' = copies
<1>1. jobs' \subseteq jobs /\ targets' \subseteq targets /\ writes' = writes
  BY DEF Ending, DrainEnded, FinishEmptyJob, AbandonJob, DeleteJobRows, database, publish
<1>2. /\ pc' \in {"idle", "loop", "ending"}
      /\ skipping' = {} \/ UNCHANGED <<job, skipping>>
  BY DEF Ending, DrainEnded, StartDrain, FinishEmptyJob, AbandonJob, locals, Goto
<1>3. AbandonJob \/ copies' = copies
  BY DEF Ending, DrainEnded, FinishEmptyJob, database
<1> QED
  BY <1>1, <1>2, <1>3

LEMMA LinkWorker ==
    ASSUME TypeInv, OrderInv, LinkInv, Worker
    PROVE  LinkInv'
<1>1. CASE PrepareAllTargets
  BY <1>1, PrepareShape, LinkFrame DEF LinkMoves, Working, PreparesOnce
<1>2. CASE MarkTargetsPending
  BY <1>2, MarkShape, LinkFrame DEF LinkMoves, Working, PreparesOnce
<1>3. ASSUME NEW w \in writes, SettleTarget(w) PROVE LinkInv'
  BY <1>3, SettleShape, PreparesFrame, LinkFrame DEF LinkMoves, Working, TargetsMove, LinkInv
<1>4. CASE Preparing
  <2>1. PreparesOnce'
    BY <1>4, PreparingShape DEF LoadJob, Goto, PreparesOnce, JobTargets
  <2> QED
    BY <1>4, <2>1, PreparingShape, LinkFrame DEF LinkMoves
<1>5. CASE Wrapping
  BY <1>5, WrappingShape, LinkFrame DEF LinkMoves, PreparesOnce
<1>6. CASE Publishing
  BY <1>6, PublishingShape, LinkFrame DEF LinkMoves, Working, PreparesOnce
<1>7. CASE Ending
  BY <1>7, EndingShape, LinkFrame DEF LinkMoves, Working, PreparesOnce
<1>8. ASSUME NEW p \in unready, FailRecipient(p) PROVE LinkInv'
  BY <1>8, FailShape, LinkFrame DEF LinkMoves, Working, PreparesOnce
<1> QED
  BY <1>1, <1>2, <1>3, <1>4, <1>5, <1>6, <1>7, <1>8, LinkNextJob, LinkAnswer, WorkerSteps

LEMMA LinkStep == TypeInv /\ OrderInv /\ LinkInv /\ [Next]_vars => LinkInv'
<1> SUFFICES ASSUME TypeInv, OrderInv, LinkInv, [Next]_vars PROVE LinkInv'
  OBVIOUS
<1>1. CASE User
  BY <1>1, UserMoves, PreparesFrame, LinkFrame DEF LinkInv, OrderInv
<1>2. CASE Environment
  BY <1>2, EnvironmentMoves, PreparesFrame, LinkFrame DEF LinkInv
<1>3. CASE Faults
  BY <1>3, FaultMoves, PreparesFrame, LinkFrame DEF LinkInv
<1>4. CASE Removal
  BY <1>4, RemovalMoves, PreparesFrame, LinkFrame DEF LinkInv, TargetsMove
<1>5. CASE UNCHANGED vars
  BY <1>5 DEF vars, database, wakeup, locals, publish, LinkInv, JobIdentity, Working,
              MessageOfTarget, WritesOfJob, PreparesOnce, JobTargets
<1> QED
  BY <1>1, <1>2, <1>3, <1>4, <1>5, LinkWorker DEF Next

-----------------------------------------------------------------------------
(* What the copies hold about relays that are being tried.                 *)

OnlyDurable == \A m \in Message, p \in Person : copies[m][p].row => m \in Durable

SkippedDurable == skipping # {} => job.msg \in Durable

(* The targets whose relays may still answer the worker. *)
Trying ==
    IF pc = "send" THEN local ELSE IF pc = "publish" THEN inflight ELSE {}

Tried == {"pending", "ok"}

Awaited(m, t) ==
    t \in targets /\ m \in Durable /\ copies[m][t.to].row => At(m, t.to, t.relay) \in Tried

TryingIsAwaited == \A t \in Trying : Awaited(job.msg, t)

EntryInv == OnlyDurable /\ SkippedDurable /\ AnswerIsAwaited /\ TryingIsAwaited

LEMMA AnswersAwaited == AnswerIsAwaited <=> \A w \in writes : Awaited(w.msg, w.target)
  BY DEF AnswerIsAwaited, Awaited, At, Tried

LEMMA EntryInit == Init => EntryInv
<1> SUFFICES ASSUME Init PROVE EntryInv
  OBVIOUS
<1>1. OnlyDurable
  BY DEF Init, NoCopy, OnlyDurable
<1> QED
  BY <1>1 DEF Init, EntryInv, SkippedDurable, AnswerIsAwaited, TryingIsAwaited, Trying

(* A step that neither lists a target again nor drops its entry. *)
StaysAwaited(m, t) ==
    t \in targets' /\ m \in Durable /\ copies'[m][t.to].row =>
        /\ t \in targets /\ copies[m][t.to].row
        /\ At(m, t.to, t.relay) \in Tried => copies'[m][t.to].relays[t.relay] \in Tried

LEMMA AwaitedStays ==
    ASSUME NEW m, NEW t, Awaited(m, t), StaysAwaited(m, t)
    PROVE  Awaited(m, t)'
  BY DEF Awaited, StaysAwaited, At

AnswersStay == \A w \in writes' : w \in writes /\ StaysAwaited(w.msg, w.target)

TryingStays == \A t \in Trying' : t \in Trying /\ job' = job /\ StaysAwaited(job.msg, t)

LEMMA AnswersFrame ==
    ASSUME AnswerIsAwaited, AnswersStay PROVE AnswerIsAwaited'
<1>1. ASSUME NEW w \in writes' PROVE Awaited(w.msg, w.target)'
  <2>1. Awaited(w.msg, w.target) /\ StaysAwaited(w.msg, w.target)
    BY AnswersAwaited DEF AnswersStay
  <2> QED
    BY <2>1 DEF Awaited, StaysAwaited, At
<1> QED
  BY <1>1 DEF AnswerIsAwaited, Awaited, At, Tried

LEMMA TryingFrame ==
    ASSUME TryingIsAwaited, TryingStays PROVE TryingIsAwaited'
<1>1. ASSUME NEW t \in Trying' PROVE Awaited(job.msg, t)'
  <2>1. job' = job /\ Awaited(job.msg, t) /\ StaysAwaited(job.msg, t)
    BY DEF TryingIsAwaited, TryingStays
  <2> QED
    BY <2>1 DEF Awaited, StaysAwaited, At
<1> QED
  BY <1>1 DEF TryingIsAwaited

(* A step that drops no entry, and adds targets to a new job only. *)
EntriesKept == \A m \in Message, p \in Person :
    copies'[m][p].row =>
        /\ copies[m][p].row
        /\ \A r \in Relay : At(m, p, r) \in Tried => copies'[m][p].relays[r] \in Tried

LEMMA OwnTargets ==
    ASSUME TypeInv, OrderInv
    PROVE  /\ \A t \in Trying :
                  t \in Target /\ Working /\ t.job = job.id /\ t.job # nextId
                  /\ job.msg \in Message
           /\ \A w \in writes :
                  w.target \in Target /\ w.target.job # nextId /\ w.msg \in Message
<1> USE OutboxConstants DEF OutboxConstants
<1>1. nextId \in Nat
  BY DEF TypeInv, DatabaseType
<1>2. ASSUME NEW t \in Trying
      PROVE  t \in Target /\ Working /\ t.job = job.id /\ t.job # nextId /\ job.msg \in Message
  <2>1. Working /\ t \in Target /\ t.job = job.id /\ job.id < nextId
    BY DEF Trying, TypeInv, LocalsType, PublishType, OrderInv, WorkerOnOldest, Working
  <2>2. job.id \in Nat /\ job.msg \in Message
    BY <2>1 DEF TypeInv, JobHeld, JobRow, Working
  <2> QED
    BY <1>1, <2>1, <2>2
<1>3. ASSUME NEW w \in writes
      PROVE  w.target \in Target /\ w.target.job # nextId /\ w.msg \in Message
  <2>1. w.target \in Target /\ w.msg \in Message /\ w.target.job \in Nat
    BY DEF TypeInv, PublishType, Target
  <2>2. w.target.job < nextId
    BY DEF OrderInv, WritesOnOldest
  <2> QED
    BY <1>1, <2>1, <2>2
<1> QED
  BY <1>2, <1>3

LEMMA EntriesFrame ==
    ASSUME TypeInv, OrderInv, EntriesKept, TargetsMove
    PROVE  /\ writes' \subseteq writes => AnswersStay
           /\ Trying' \subseteq Trying /\ (Trying' # {} => job' = job) => TryingStays
<1>1. ASSUME NEW m \in Message, NEW t \in Target, t.job # nextId
      PROVE  StaysAwaited(m, t)
  <2>1. t.to \in Person /\ t.relay \in Relay
    BY DEF Target
  <2> QED
    BY <1>1, <2>1 DEF EntriesKept, TargetsMove, StaysAwaited
<1> QED
  BY <1>1, OwnTargets DEF AnswersStay, TryingStays

LEMMA SameEntries == copies' = copies => EntriesKept
  BY DEF EntriesKept, At

(* A step that writes no copy, or deletes some, and takes no job. *)
LEMMA EntryFrame ==
    ASSUME TypeInv, OrderInv, EntryInv, EntriesKept, TargetsMove,
           writes' \subseteq writes, Trying' \subseteq Trying,
           Trying' = {} \/ job' = job,
           skipping' = {} \/ (skipping' \subseteq skipping /\ job' = job)
    PROVE  EntryInv'
<1>1. AnswerIsAwaited' /\ TryingIsAwaited'
  BY EntriesFrame, AnswersFrame, TryingFrame DEF EntryInv
<1>2. OnlyDurable'
  BY DEF EntryInv, OnlyDurable, EntriesKept
<1>3. SkippedDurable'
  BY DEF EntryInv, SkippedDurable
<1> QED
  BY <1>1, <1>2, <1>3 DEF EntryInv

LEMMA EntryUser ==
    ASSUME TypeInv, OrderInv, EntryInv, User PROVE EntryInv'
<1>1. Trying' \subseteq Trying
  BY UserMoves DEF OrderInv, Trying
<1> QED
  BY <1>1, UserMoves, SameEntries, EntryFrame DEF LinkMoves, OrderInv

LEMMA EntryEnvironment ==
    ASSUME TypeInv, OrderInv, EntryInv, Environment \/ Faults \/ UNCHANGED vars PROVE EntryInv'
<1>1. UNCHANGED database /\ TargetsMove /\ writes' \subseteq writes
  BY EnvironmentMoves, FaultMoves
     DEF vars, database, publish, TargetsMove, LinkMoves
<1>2. Trying' \subseteq Trying /\ (Trying' = {} \/ job' = job)
  BY EnvironmentMoves, FaultMoves DEF Trying, vars, wakeup, locals, publish
<1>3. skipping' = {} \/ (skipping' \subseteq skipping /\ job' = job)
  BY DEF Environment, Activate, RemoveAccount, Deactivate, GoOffline, GoOnline,
         EnterBackground, EnterForeground, Crash, Faults, StepFails, WorkerFails, WriteFails,
         vars, locals
<1> QED
  BY <1>1, <1>2, <1>3, SameEntries, EntryFrame DEF database

LEMMA EntryRemoval ==
    ASSUME TypeInv, OrderInv, EntryInv, Removal PROVE EntryInv'
<1>1. EntriesKept
  <2>1. ASSUME NEW m \in Message, NEW p \in Person, copies'[m][p].row
        PROVE  copies'[m][p] = copies[m][p]
    <3>1. \/ copies' = copies
          \/ \E a \in Account : copies' = [n \in Message |->
                 IF Owner[n] = a THEN [q \in Person |-> NoCopy] ELSE copies[n]]
      BY DEF Removal, WaitForIdle, DeleteAccountData, database
    <3>2. ~ NoCopy.row
      BY DEF NoCopy
    <3> HIDE DEF NoCopy
    <3> QED
      BY <2>1, <3>1, <3>2
  <2> QED
    BY <2>1 DEF EntriesKept, At
<1>2. Trying' = Trying /\ job' = job /\ skipping' = skipping /\ writes' = writes /\ TargetsMove
  BY RemovalMoves DEF Trying, TargetsMove
<1> QED
  BY <1>1, <1>2, EntryFrame

LEMMA EntryNextJob ==
    ASSUME TypeInv, OrderInv, EntryInv, NextJob PROVE EntryInv'
<1>1. /\ UNCHANGED <<copies, targets, writes>> /\ skipping' = {}
      /\ pc' \in {"load", "ending"}
  BY DEF NextJob, Goto, database, publish
<1> QED
  BY <1>1, SameEntries, EntryFrame DEF TargetsMove, Trying

LEMMA EntryAnswer ==
    ASSUME TypeInv, OrderInv, EntryInv, NEW t \in inflight, NEW ok \in BOOLEAN,
           RelayAnswers(t, ok)
    PROVE  EntryInv'
<1>1. /\ UNCHANGED <<copies, targets, pc, job, skipping>>
      /\ inflight' \subseteq inflight /\ pc = "publish"
  BY DEF RelayAnswers, database, wakeup, locals
<1>2. Awaited(job.msg, t)
  BY <1>1 DEF EntryInv, TryingIsAwaited, Trying
<1>3. ASSUME NEW w \in writes' PROVE Awaited(w.msg, w.target)
  <2>1. w \in writes \/ (w.target = t /\ w.msg = job.msg)
    BY DEF RelayAnswers
  <2> QED
    BY <1>2, <2>1, AnswersAwaited DEF EntryInv
<1>4. AnswerIsAwaited'
  BY <1>1, <1>3 DEF AnswerIsAwaited, Awaited, At, Tried
<1>5. TryingIsAwaited'
  BY <1>1 DEF EntryInv, TryingIsAwaited, Trying, Awaited, At
<1>6. OnlyDurable' /\ SkippedDurable'
  BY <1>1 DEF EntryInv, OnlyDurable, SkippedDurable
<1> QED
  BY <1>4, <1>5, <1>6 DEF EntryInv

(* A target of the message that a settlement still finds is of the job.    *)
LEMMA WriteOfJob ==
    ASSUME KeyInv, LinkInv, Working, NEW w \in writes, w.msg = job.msg, w.target \in targets
    PROVE  w.target.job = job.id
<1>1. PICK j \in jobs : j.id = w.target.job
  BY DEF KeyInv
<1> QED
  BY <1>1 DEF LinkInv, MessageOfTarget, WritesOfJob

LEMMA EntryPrepare ==
    ASSUME TypeInv, OrderInv, KeyInv, LinkInv, EntryInv, PrepareAllTargets
    PROVE  EntryInv'
<1>1. /\ UNCHANGED <<job, skipping, writes>> /\ Trying' = {} /\ Working /\ pc = "resolve"
      /\ job \in JobRow /\ job.msg \in Message
  BY PrepareShape DEF Trying, Working, TypeInv, JobHeld, JobRow
<1>2. CASE UNCHANGED <<copies, targets>>
  BY <1>1, <1>2, SameEntries, EntryFrame DEF TargetsMove
<1>3. ASSUME NEW resolved \in [Recipients -> RelayLists], Prepares(resolved) PROVE EntryInv'
  <2>1. OnlyDurable'
    <3> SUFFICES ASSUME NEW m \in Message, NEW p \in Person, copies'[m][p].row
                 PROVE  m \in Durable
      BY DEF OnlyDurable
    <3>1. CASE m # job.msg
      BY <1>3, <3>1 DEF Prepares, OthersKept, EntryInv, OnlyDurable
    <3>2. CASE m = job.msg
      BY <1>3, <3>2 DEF Prepares, SameCopy, IsDurable, EntryInv, OnlyDurable
    <3> QED
      BY <3>1, <3>2
  <2>2. ASSUME NEW w \in writes, w.target \in targets', w.msg \in Durable,
               copies'[w.msg][w.target.to].row
        PROVE  copies'[w.msg][w.target.to].relays[w.target.relay] \in Tried
    <3>1. w.target.to \in Person /\ w.target.relay \in Relay /\ w.msg \in Message
      BY DEF TypeInv, PublishType, Target
    <3>2. Awaited(w.msg, w.target)
      BY AnswersAwaited DEF EntryInv
    <3>3. w.target \in targets \/ (w.target.job = job.id /\ job \in jobs)
      BY <1>3, <2>2 DEF Prepares
    <3>4. CASE w.msg # job.msg
      <4>1. w.target \in targets
        BY <3>3, <3>4 DEF LinkInv, MessageOfTarget
      <4>2. copies'[w.msg] = copies[w.msg]
        BY <1>3, <3>1, <3>4 DEF Prepares, OthersKept
      <4> QED
        BY <2>2, <3>2, <4>1, <4>2 DEF Awaited, At
    <3>5. CASE w.msg = job.msg
      <4>1. w.target \notin targets
        BY <1>1, <3>5, WriteOfJob DEF LinkInv, PreparesOnce, JobTargets
      <4>2. w.target.to \in Recipients /\ w.target.relay \in resolved[w.target.to]
        BY <1>3, <2>2, <4>1 DEF Prepares
      <4>3. CopyBegins(job.msg, w.target.to, resolved[w.target.to])
        BY <1>3, <2>2, <3>1, <3>5, <4>2 DEF Prepares, IsDurable
      <4> QED
        BY <3>1, <3>5, <4>2, <4>3 DEF CopyBegins, Tried
    <3> QED
      BY <3>4, <3>5
  <2>3. AnswerIsAwaited'
    BY <1>1, <2>2 DEF AnswerIsAwaited, Tried
  <2>4. TryingIsAwaited' /\ SkippedDurable'
    BY <1>1 DEF TryingIsAwaited, EntryInv, SkippedDurable
  <2> QED
    BY <2>1, <2>3, <2>4 DEF EntryInv
<1> QED
  BY <1>2, <1>3, PrepareCopies

LEMMA EntryMark ==
    ASSUME TypeInv, OrderInv, EntryInv, MarkTargetsPending
    PROVE  EntryInv'
<1>1. /\ UNCHANGED <<targets, job, local, skipping, writes>> /\ pc = "mark" /\ pc' = "send"
      /\ Working /\ job.msg \in Message
  BY MarkShape DEF Working, TypeInv, JobHeld, JobRow
<1>2. ASSUME NEW p \in Person
      PROVE  /\ copies'[job.msg][p].row => copies[job.msg][p].row
             /\ \A r \in Relay : At(job.msg, p, r) \in Tried =>
                    copies'[job.msg][p].relays[r] \in Tried
             /\ IsDurable /\ copies'[job.msg][p].row =>
                    \A r \in LocalRelays(p) : r \in Relay =>
                        copies'[job.msg][p].relays[r] \in Tried
  BY MarkCopies DEF Marks, SameCopy, CopyBegins, At, Tried
<1>3. EntriesKept
  <2> SUFFICES ASSUME NEW m \in Message, NEW p \in Person, copies'[m][p].row
               PROVE  /\ copies[m][p].row
                      /\ \A r \in Relay : At(m, p, r) \in Tried =>
                             copies'[m][p].relays[r] \in Tried
    BY DEF EntriesKept
  <2>1. CASE m # job.msg
    BY <2>1, MarkCopies DEF OthersKept, At
  <2>2. CASE m = job.msg
    BY <1>2, <2>2
  <2> QED
    BY <2>1, <2>2
<1>4. AnswerIsAwaited'
  BY <1>1, <1>3, EntriesFrame, AnswersFrame DEF EntryInv, TargetsMove
<1>5. TryingIsAwaited'
  <2>1. Trying' = local
    BY <1>1 DEF Trying
  <2>2. ASSUME NEW t \in local PROVE Awaited(job.msg, t)'
    <3>1. t.to \in Person /\ t.relay \in Relay /\ t.relay \in LocalRelays(t.to)
      BY DEF TypeInv, LocalsType, Target, LocalRelays
    <3>2. IsDurable /\ copies'[job.msg][t.to].row =>
              copies'[job.msg][t.to].relays[t.relay] \in Tried
      BY <1>2, <3>1
    <3> QED
      BY <1>1, <3>2 DEF Awaited, At, IsDurable
  <2> QED
    BY <2>1, <2>2 DEF TryingIsAwaited
<1>6. OnlyDurable' /\ SkippedDurable'
  BY <1>1, <1>3 DEF EntryInv, OnlyDurable, SkippedDurable, EntriesKept
<1> QED
  BY <1>4, <1>5, <1>6 DEF EntryInv

(* Two targets of a message that are being tried are of one job.           *)
LEMMA WritesTogether ==
    ASSUME TypeInv, OrderInv, KeyInv, LinkInv, NEW v \in writes, NEW w \in writes,
           v.msg = w.msg, v.target \in targets, w.target \in targets
    PROVE  v.target.job = w.target.job
<1>1. PICK j \in jobs : j.id = v.target.job
  BY DEF KeyInv
<1>2. PICK k \in jobs : k.id = w.target.job
  BY DEF KeyInv
<1>3. j.msg = k.msg
  BY <1>1, <1>2 DEF LinkInv, MessageOfTarget
<1>4. j.id <= k.id /\ k.id <= j.id
  BY <1>1, <1>2, <1>3 DEF OrderInv, WritesOnOldest, Oldest
<1>5. j.id \in Nat /\ k.id \in Nat
  BY OutboxConstants DEF OutboxConstants, TypeInv, DatabaseType, JobRow
<1> QED
  BY <1>1, <1>2, <1>4, <1>5

LEMMA TargetParts ==
    ASSUME NEW t \in Target, NEW u \in Target, t.job = u.job, t.to = u.to, t.relay = u.relay
    PROVE  t = u
  BY DEF Target

LEMMA EntrySettle ==
    ASSUME TypeInv, OrderInv, KeyInv, LinkInv, EntryInv, NEW w \in writes, SettleTarget(w)
    PROVE  EntryInv'
<1>1. /\ UNCHANGED <<pc, job, local, skipping, inflight>>
      /\ writes' = writes \ {w} /\ targets' = targets \ {w.target}
  BY SettleShape
<1>2. w.target \in Target /\ w.msg \in Message
  BY DEF TypeInv, PublishType
<1>3. ASSUME NEW m \in Message, NEW t \in Target,
             m = w.msg /\ w.target \in targets /\ t \in targets => t.job = w.target.job
      PROVE  StaysAwaited(m, t)
  <2> SUFFICES ASSUME t \in targets', m \in Durable, copies'[m][t.to].row
               PROVE  /\ t \in targets /\ copies[m][t.to].row
                      /\ At(m, t.to, t.relay) \in Tried =>
                             copies'[m][t.to].relays[t.relay] \in Tried
    BY DEF StaysAwaited
  <2>1. t \in targets /\ t # w.target
    BY <1>1
  <2>2. t.to \in Person /\ t.relay \in Relay
    BY DEF Target
  <2>3. CASE m # w.msg
    BY <2>1, <2>2, <2>3, SettleCopies DEF OthersKept, At
  <2>4. CASE m = w.msg
    <3>1. ~ Settles(w) \/ t.to # w.target.to \/ t.relay # w.target.relay
      BY <1>2, <1>3, <2>1, <2>4, TargetParts DEF Settles
    <3>2. copies'[w.msg][t.to].row = copies[w.msg][t.to].row
      BY <2>2, SettleCopies
    <3>3. copies'[w.msg][t.to].relays[t.relay] =
              IF ~ Settles(w) \/ t.to # w.target.to \/ t.relay # w.target.relay
                 \/ At(w.msg, t.to, t.relay) = "ok"
              THEN At(w.msg, t.to, t.relay) ELSE IF w.ok THEN "ok" ELSE "failed"
      BY <2>2, SettleCopies
    <3> QED
      BY <2>1, <2>4, <3>1, <3>2, <3>3
  <2> QED
    BY <2>3, <2>4
<1>4. AnswersStay
  <2> SUFFICES ASSUME NEW v \in writes' PROVE v \in writes /\ StaysAwaited(v.msg, v.target)
    BY DEF AnswersStay
  <2>1. v \in writes /\ v.target \in Target /\ v.msg \in Message
    BY <1>1, OwnTargets
  <2>2. v.msg = w.msg /\ w.target \in targets /\ v.target \in targets =>
            v.target.job = w.target.job
    BY <2>1, WritesTogether
  <2> QED
    BY <1>3, <2>1, <2>2
<1>5. TryingStays
  <2> SUFFICES ASSUME NEW t \in Trying'
               PROVE  t \in Trying /\ job' = job /\ StaysAwaited(job.msg, t)
    BY DEF TryingStays
  <2>1. t \in Trying
    BY <1>1 DEF Trying
  <2>2. t \in Target /\ Working /\ t.job = job.id /\ job.msg \in Message
    BY <2>1, OwnTargets
  <2>3. job.msg = w.msg /\ w.target \in targets => w.target.job = job.id
    BY <2>2, WriteOfJob
  <2> QED
    BY <1>1, <1>3, <2>1, <2>2, <2>3
<1>6. OnlyDurable'
  <2> SUFFICES ASSUME NEW m \in Message, NEW p \in Person, copies'[m][p].row
               PROVE  copies[m][p].row
    BY DEF EntryInv, OnlyDurable
  <2> QED
    BY SettleCopies DEF OthersKept
<1>7. SkippedDurable'
  BY <1>1 DEF EntryInv, SkippedDurable
<1> QED
  BY <1>4, <1>5, <1>6, <1>7, AnswersFrame, TryingFrame DEF EntryInv

(* Giving up on relays waits for the settlements of the message.           *)
LEMMA EntryDrops ==
    ASSUME TypeInv, OrderInv, EntryInv, OthersKept(job.msg), Serialized,
           \A p \in Person : copies'[job.msg][p].row => copies[job.msg][p].row,
           targets' \subseteq targets, writes' = writes, Trying' = {},
           skipping' = {} \/ UNCHANGED <<job, skipping>>
    PROVE  EntryInv'
<1>1. AnswersStay
  <2> SUFFICES ASSUME NEW w \in writes PROVE StaysAwaited(w.msg, w.target)
    BY DEF AnswersStay
  <2>1. w.msg # job.msg /\ w.msg \in Message
    BY OwnTargets DEF Serialized
  <2> QED
    BY <2>1 DEF OthersKept, StaysAwaited, At
<1>2. TryingIsAwaited'
  BY DEF TryingIsAwaited
<1>3. OnlyDurable'
  <2> SUFFICES ASSUME NEW m \in Message, NEW p \in Person, copies'[m][p].row
               PROVE  copies[m][p].row
    BY DEF EntryInv, OnlyDurable
  <2> QED
    BY DEF OthersKept
<1>4. SkippedDurable'
  BY DEF EntryInv, SkippedDurable
<1> QED
  BY <1>1, <1>2, <1>3, <1>4, AnswersFrame DEF EntryInv

LEMMA EntryWorker ==
    ASSUME TypeInv, OrderInv, KeyInv, LinkInv, EntryInv, Worker
    PROVE  EntryInv'
<1>1. CASE MarkTargetsPending \/ PrepareAllTargets \/ NextJob
  BY <1>1, EntryMark, EntryPrepare, EntryNextJob
<1>2. ASSUME NEW p \in unready, FailRecipient(p) PROVE EntryInv'
  <2>1. /\ targets' \subseteq targets /\ UNCHANGED <<writes, skipping, job>>
        /\ Trying' = {} /\ (CanRun => Serialized) /\ TargetsMove
    BY <1>2, FailShape DEF Trying, TargetsMove
  <2>2. OthersKept(job.msg) /\ \A q \in Person : copies'[job.msg][q].row = copies[job.msg][q].row
    <3>1. OthersKept(job.msg) \/ Person = {}
      BY <1>2, FailCopies
    <3>2. \A q \in Person : copies'[job.msg][q].row = copies[job.msg][q].row
      BY <1>2, FailCopies DEF SameCopy
    <3>3. p \in Person
      BY DEF TypeInv, LocalsType
    <3> QED
      BY <3>1, <3>2, <3>3
  <2>3. CASE CanRun
    BY <2>1, <2>2, <2>3, EntryDrops
  <2>4. CASE ~ CanRun
    <3>1. copies' = copies
      BY <1>2, <2>4 DEF FailRecipient
    <3> QED
      BY <2>1, <3>1, SameEntries, EntryFrame
  <2> QED
    BY <2>3, <2>4
<1>3. CASE Preparing
  <2>1. /\ targets' \subseteq targets /\ UNCHANGED <<writes, copies, job>> /\ Trying' = {}
        /\ TargetsMove
    BY <1>3, PreparingShape DEF Trying, TargetsMove
  <2>2. CASE skipping' \subseteq skipping
    BY <2>1, <2>2, SameEntries, EntryFrame
  <2>3. CASE FindSuccessful
    <3>1. SkippedDurable'
      BY <2>1, <2>3 DEF FindSuccessful, IsDurable, EntryInv, SkippedDurable
    <3>2. AnswerIsAwaited' /\ TryingIsAwaited'
      BY <2>1, SameEntries, EntriesFrame, AnswersFrame DEF EntryInv, TryingIsAwaited
    <3>3. OnlyDurable'
      BY <2>1 DEF EntryInv, OnlyDurable
    <3> QED
      BY <3>1, <3>2, <3>3 DEF EntryInv
  <2> QED
    BY <1>3, <2>2, <2>3, PreparingShape
<1>4. CASE Wrapping
  BY <1>4, WrappingShape, SameEntries, EntryFrame DEF Trying, TargetsMove
<1>5. CASE Publishing
  BY <1>5, PublishingShape, SameEntries, EntryFrame DEF Trying, TargetsMove
<1>6. CASE Ending /\ ~ AbandonJob
  BY <1>6, EndingShape, SameEntries, EntryFrame DEF Trying, TargetsMove
<1>7. CASE AbandonJob
  <2>1. Ending /\ Serialized /\ Person # {}
    BY <1>7, OutboxConstants DEF Ending, AbandonJob, OutboxConstants, TypeInv, JobHeld, JobRow
  <2>2. OthersKept(job.msg)
    BY <1>7, <2>1, AbandonCopies
  <2>3. \A p \in Person : copies'[job.msg][p].row => copies[job.msg][p].row
    BY <1>7, AbandonCopies DEF SameCopy, CopyDrops
  <2> QED
    BY <2>1, <2>2, <2>3, EndingShape, EntryDrops DEF Trying
<1> QED
  BY <1>1, <1>2, <1>3, <1>4, <1>5, <1>6, <1>7, EntryAnswer, EntrySettle, WorkerSteps

LEMMA EntryStep ==
    TypeInv /\ OrderInv /\ KeyInv /\ LinkInv /\ EntryInv /\ [Next]_vars => EntryInv'
  BY EntryUser, EntryEnvironment, EntryRemoval, EntryWorker DEF Next

-----------------------------------------------------------------------------
(* The steps of the outbox as steps of the ledger.                         *)

LEMMA LedgerInit == Init => Ledger!Init
  BY DEF Init, NoCopy, Ledger!Init, Ledger!Rows, Ledger!Entries

EntriesMove(m) == \A p \in Person, r \in Relay :
    Ledger!EntryMove(At(m, p, r), copies'[m][p].relays[r])

OtherStatusKept(m) == \A n \in Message : n # m => status'[n] = status[n]

LEMMA Recorded ==
    ASSUME NEW m \in Message, EntriesMove(m), Ledger!StatusMove(m), OthersKept(m),
           OtherStatusKept(m)
    PROVE  Ledger!Next
<1>1. Ledger!Record(m)
  BY DEF EntriesMove, OthersKept, OtherStatusKept, At, Ledger!Record, Ledger!Entries
<1> QED
  BY <1>1 DEF Ledger!Next

LEMMA SameVerdict ==
    ASSUME NEW relays PROVE Ledger!DeliveryCopyVerdict(relays) = DeliveryCopyVerdict(relays)
<1>1. Ledger!Listed(relays) = Listed(relays)
  BY DEF Ledger!Listed, Listed
<1>2. \A entry : Ledger!WithEntry(relays, entry) = WithEntry(relays, entry)
  BY DEF Ledger!WithEntry, WithEntry
<1>3. \A ok, total : Ledger!RelayThreshold(ok, total) <=> RelayThreshold(ok, total)
  BY DEF Ledger!RelayThreshold, RelayThreshold
<1>4. ASSUME NEW S PROVE Ledger!Cardinality(S) = Cardinality(S)
  BY Zenon DEF Ledger!Cardinality, Cardinality
<1>5. /\ Ledger!Cardinality(Ledger!WithEntry(relays, "ok")) = Cardinality(WithEntry(relays, "ok"))
      /\ Ledger!Cardinality(Ledger!Listed(relays)) = Cardinality(Listed(relays))
  <2>1. Ledger!WithEntry(relays, "ok") = WithEntry(relays, "ok")
    BY <1>2
  <2> QED
    BY Zenon, <1>1, <1>4, <2>1
<1>6. Ledger!RelayThreshold(Ledger!Cardinality(Ledger!WithEntry(relays, "ok")),
                            Ledger!Cardinality(Ledger!Listed(relays)))
      <=> RelayThreshold(Cardinality(WithEntry(relays, "ok")), Cardinality(Listed(relays)))
  BY Zenon, <1>3, <1>5
<1>7. Ledger!WithEntry(relays, "pending") = WithEntry(relays, "pending")
  BY <1>2
<1> QED
  BY <1>6, <1>7 DEF Ledger!DeliveryCopyVerdict, DeliveryCopyVerdict

(* Only a message whose copies are all delivered is found to be sent. *)
LEMMA SentDelivered ==
    ASSUME NEW m \in Message, NEW hasUnfinishedJob,
           MessageDeliveryVerdict(CopyRows(copies'[m]), hasUnfinishedJob) = "sent"
    PROVE  Ledger!AllDelivered(m)'
<1> DEFINE rows == CopyRows(copies'[m])
<1>1. rows # {} /\ \A row \in rows : DeliveryCopyVerdict(row.relays) = "delivered"
  <2> HIDE DEF rows
  <2> QED
    BY DEF MessageDeliveryVerdict, rows
<1>2. \E p \in Person : copies'[m][p].row
  BY <1>1 DEF CopyRows
<1>3. \A p \in Person : copies'[m][p].row =>
          DeliveryCopyVerdict(copies'[m][p].relays) = "delivered"
  BY <1>1 DEF CopyRows
<1>4. \A p \in Person : copies'[m][p].row =>
          Ledger!DeliveryCopyVerdict(copies'[m][p].relays) = "delivered"
  BY <1>3, SameVerdict
<1> QED
  BY <1>2, <1>4 DEF Ledger!AllDelivered, Ledger!Rows, Ledger!Entries

LEMMA StatusMoved ==
    ASSUME TypeInv, NEW m \in Message, m \in Durable,
           status' = [status EXCEPT ![m] = RecomputedStatus(m, copies', jobs')]
    PROVE  Ledger!StatusMove(m) /\ OtherStatusKept(m)
<1> DEFINE verdict == MessageDeliveryVerdict(CopyRows(copies'[m]), HasJob(m, jobs'))
<1>1. OtherStatusKept(m) /\ status'[m] = RecomputedStatus(m, copies', jobs')
  BY DEF OtherStatusKept, TypeInv, DatabaseType
<1>2. status'[m] = IF status[m] \in {"absent", "sent"} THEN status[m] ELSE verdict
  BY <1>1 DEF RecomputedStatus
<1>3. verdict \in {"queued", "sent", "partial", "failed"}
  BY VerdictType
<1>4. verdict = "sent" => Ledger!AllDelivered(m)'
  BY SentDelivered
<1> HIDE DEF verdict
<1> QED
  BY <1>1, <1>2, <1>3, <1>4 DEF Ledger!StatusMove

LEMMA StatusSame ==
    ASSUME NEW m \in Message, status' = status
    PROVE  Ledger!StatusMove(m) /\ OtherStatusKept(m)
  BY DEF Ledger!StatusMove, OtherStatusKept

LEMMA EntriesSame ==
    ASSUME NEW m \in Message, copies' = copies
    PROVE  EntriesMove(m) /\ OthersKept(m)
  BY DEF EntriesMove, OthersKept, At, Ledger!EntryMove

(* A stutter of the ledger. *)
Quiet == UNCHANGED <<status, copies>>

LEMMA LedgerUser ==
    ASSUME TypeInv, OnlyDurable, WorkerOnOldest, User PROVE Ledger!Next \/ Quiet
<1>1. copies' = copies
  BY UserMoves
<1>2. ASSUME NEW m \in Message, Ledger!StatusMove(m), OtherStatusKept(m) PROVE Ledger!Next
  BY <1>1, <1>2, EntriesSame, Recorded
<1>3. ASSUME NEW m \in Message, NEW enqueueRelay \in BOOLEAN, StoreRumor(m, enqueueRelay)
      PROVE  Ledger!Next
  <2>1. status[m] = "absent" /\ status'[m] \in {"none", "queued"} /\ OtherStatusKept(m)
    BY <1>3 DEF StoreRumor, OtherStatusKept, TypeInv, DatabaseType
  <2> QED
    BY <1>2, <2>1 DEF Ledger!StatusMove
<1>4. ASSUME NEW m \in Message, m \in Durable, status[m] \notin {"absent", "sent"},
             MarkQueued(m)
      PROVE  Ledger!Next
  <2>1. status'[m] = "queued" /\ OtherStatusKept(m)
    BY <1>4 DEF MarkQueued, OtherStatusKept, TypeInv, DatabaseType
  <2> QED
    BY <1>2, <1>4, <2>1 DEF Ledger!StatusMove
<1>5. ASSUME NEW m \in Message, NEW scope, EnqueueAll(m, scope) PROVE Ledger!Next \/ Quiet
  <2>1. status' = status \/ (m \in Durable /\ status[m] \notin {"absent", "sent"} /\ MarkQueued(m))
    BY <1>5 DEF EnqueueAll, database
  <2> QED
    BY <1>1, <1>4, <2>1 DEF Quiet
<1>6. ASSUME NEW m \in Message, NEW p \in Person, NEW requested,
             EnqueueRetryTargets(m, p, requested)
      PROVE  Ledger!Next \/ Quiet
  <2>1. status' = status \/ (status[m] \notin {"absent", "sent"} /\ MarkQueued(m))
    BY <1>6 DEF EnqueueRetryTargets, database
  <2>2. m \in Durable
    BY <1>6 DEF EnqueueRetryTargets, OnlyDurable
  <2> QED
    BY <1>1, <1>4, <2>1, <2>2 DEF Quiet
<1> QED
  BY <1>3, <1>5, <1>6 DEF User

LEMMA LedgerRemoval ==
    ASSUME TypeInv, StageInv, Removal PROVE Ledger!Next \/ Quiet
<1>1. ASSUME NEW a \in Account, DeleteAccountData(a) PROVE Ledger!Next \/ Quiet
  <2>1. CASE removal[a] = "messages"
    <3>1. copies' = copies /\ \A m \in Message : status'[m] \in {status[m], "absent"}
      BY <1>1, <2>1 DEF DeleteAccountData
    <3> QED
      BY <3>1 DEF Ledger!Next, Ledger!ForgetMessages
  <2>2. CASE removal[a] = "copies"
    <3>1. status' = status /\ copies' = [m \in Message |->
              IF Owner[m] = a THEN [p \in Person |-> NoCopy] ELSE copies[m]]
      BY <1>1, <2>2 DEF DeleteAccountData
    <3>2. ~ NoCopy.row
      BY DEF NoCopy
    <3>3. ASSUME NEW m \in Message
          PROVE  copies'[m] = copies[m] \/ (status[m] = "absent" /\ Ledger!Rows(m)' = {})
      <4> HIDE DEF NoCopy
      <4>1. Owner[m] = a => status[m] = "absent"
        BY <2>2 DEF StageInv
      <4>2. Owner[m] = a => \A p \in Person : ~ copies'[m][p].row
        BY <3>1, <3>2
      <4> QED
        BY <3>1, <4>1, <4>2 DEF Ledger!Rows
    <3> QED
      BY <3>1, <3>3 DEF Ledger!Next, Ledger!ForgetLedgers
  <2>3. CASE removal[a] = "jobs"
    BY <1>1, <2>3 DEF DeleteAccountData, Quiet
  <2> QED
    BY <1>1, <2>1, <2>2, <2>3 DEF DeleteAccountData
<1>2. ASSUME NEW a \in Account, WaitForIdle(a) PROVE Quiet
  BY <1>2 DEF WaitForIdle, database, Quiet
<1> QED
  BY <1>1, <1>2 DEF Removal

LEMMA BeginsMove ==
    ASSUME TypeInv, NEW m \in Message, NEW p \in Person, NEW some,
           CopyBegins(m, p, some) \/ CopyDrops(m, p, some) \/ SameCopy(m, p), NEW r \in Relay
    PROVE  Ledger!EntryMove(At(m, p, r), copies'[m][p].relays[r])
<1>1. At(m, p, r) \in Entry
  BY CopyType DEF At
<1> QED
  BY <1>1 DEF CopyBegins, CopyDrops, SameCopy, At, Entry, Ledger!EntryMove

LEMMA LedgerPrepare ==
    ASSUME TypeInv, PrepareAllTargets PROVE Ledger!Next \/ Quiet
<1>1. job.msg \in Message /\ jobs' = jobs
  BY PrepareShape DEF TypeInv, JobHeld, JobRow
<1>2. ASSUME NEW resolved \in [Recipients -> RelayLists], CommitTargets(resolved),
             Prepares(resolved)
      PROVE  Ledger!Next
  <2>1. EntriesMove(job.msg) /\ OthersKept(job.msg)
    <3>1. ASSUME NEW p \in Person, NEW r \in Relay
          PROVE  Ledger!EntryMove(At(job.msg, p, r), copies'[job.msg][p].relays[r])
      <4>1. CopyBegins(job.msg, p, resolved[p]) \/ SameCopy(job.msg, p)
        BY <1>2 DEF Prepares
      <4> QED
        BY <1>1, <4>1, BeginsMove
    <3> QED
      BY <1>2, <3>1 DEF Prepares, EntriesMove
  <2>2. Ledger!StatusMove(job.msg) /\ OtherStatusKept(job.msg)
    <3>1. CASE IsDurable
      <4>1. status' = [status EXCEPT ![job.msg] = RecomputedStatus(job.msg, copies', jobs')]
        BY <1>1, <1>2, <3>1 DEF CommitTargets
      <4> QED
        BY <1>1, <3>1, <4>1, StatusMoved DEF IsDurable
    <3>2. CASE ~ IsDurable
      BY <1>1, <1>2, <3>2, StatusSame DEF CommitTargets
    <3> QED
      BY <3>1, <3>2
  <2> QED
    BY <1>1, <2>1, <2>2, Recorded
<1> QED
  BY <1>2, PrepareCopies DEF Quiet

LEMMA LedgerMark ==
    ASSUME TypeInv, MarkTargetsPending PROVE Ledger!Next
<1>1. job.msg \in Message /\ status' = status
  BY MarkShape DEF TypeInv, JobHeld, JobRow
<1>2. EntriesMove(job.msg)
  <2> SUFFICES ASSUME NEW p \in Person, NEW r \in Relay
               PROVE  Ledger!EntryMove(At(job.msg, p, r), copies'[job.msg][p].relays[r])
    BY DEF EntriesMove
  <2>1. CopyBegins(job.msg, p, LocalRelays(p)) \/ SameCopy(job.msg, p)
    BY MarkCopies DEF Marks
  <2> QED
    BY <1>1, <2>1, BeginsMove
<1> QED
  BY <1>1, <1>2, MarkCopies, StatusSame, Recorded

(* A step that recomputes the status of a message, and no copy. *)
LEMMA LedgerRecompute ==
    ASSUME TypeInv, NEW m \in Message, copies' = copies,
           status' = status \/ (m \in Durable /\ RecomputeMessageStatus(m))
    PROVE  Ledger!Next \/ Quiet
<1>1. CASE status' = status
  BY <1>1 DEF Quiet
<1>2. CASE m \in Durable /\ RecomputeMessageStatus(m)
  BY <1>2, StatusMoved, EntriesSame, Recorded DEF RecomputeMessageStatus
<1> QED
  BY <1>1, <1>2

LEMMA LedgerFail ==
    ASSUME TypeInv, NEW p \in unready, FailRecipient(p) PROVE Ledger!Next \/ Quiet
<1>1. job.msg \in Message /\ p \in Person
  BY FailShape DEF TypeInv, JobHeld, JobRow, LocalsType
<1>2. CASE CanRun /\ IsDurable
  <2>1. EntriesMove(job.msg) /\ OthersKept(job.msg)
    <3>1. ASSUME NEW q \in Person, NEW r \in Relay
          PROVE  Ledger!EntryMove(At(job.msg, q, r), copies'[job.msg][q].relays[r])
      <4>1. CopyDrops(job.msg, q, JobRelays(p)) \/ SameCopy(job.msg, q)
        BY FailCopies
      <4> QED
        BY <1>1, <4>1, BeginsMove
    <3> QED
      BY <1>1, <3>1, FailCopies DEF EntriesMove
  <2>2. RecomputeMessageStatus(job.msg)
    BY <1>2 DEF FailRecipient
  <2>3. Ledger!StatusMove(job.msg) /\ OtherStatusKept(job.msg)
    BY <1>1, <1>2, <2>2, StatusMoved DEF RecomputeMessageStatus, IsDurable
  <2> QED
    BY <1>1, <2>1, <2>3, Recorded
<1>3. CASE ~ (CanRun /\ IsDurable)
  BY <1>3 DEF FailRecipient, Quiet
<1> QED
  BY <1>2, <1>3

LEMMA LedgerAbandon ==
    ASSUME TypeInv, AbandonJob PROVE Ledger!Next
<1>1. job.msg \in Message
  BY DEF AbandonJob, TypeInv, JobHeld, JobRow
<1>2. EntriesMove(job.msg)
  <2> SUFFICES ASSUME NEW p \in Person, NEW r \in Relay
               PROVE  Ledger!EntryMove(At(job.msg, p, r), copies'[job.msg][p].relays[r])
    BY DEF EntriesMove
  <2>1. CopyDrops(job.msg, p, JobRelays(p)) \/ SameCopy(job.msg, p)
    BY AbandonCopies
  <2> QED
    BY <1>1, <2>1, BeginsMove
<1>3. OthersKept(job.msg)
  <2>1. Owner[job.msg] \in Person
    BY <1>1, OutboxConstants DEF OutboxConstants
  <2> QED
    BY <2>1, AbandonCopies
<1>4. Ledger!StatusMove(job.msg) /\ OtherStatusKept(job.msg)
  <2>1. CASE IsDurable /\ status[job.msg] \notin {"absent", "sent"}
    <3>1. status' = [status EXCEPT
                         ![job.msg] = IF HasJob(job.msg, jobs') THEN "queued" ELSE "failed"]
      BY <2>1 DEF AbandonJob
    <3>2. status'[job.msg] \in {"queued", "failed"} /\ OtherStatusKept(job.msg)
      BY <1>1, <3>1 DEF OtherStatusKept, TypeInv, DatabaseType
    <3> QED
      BY <2>1, <3>2 DEF Ledger!StatusMove, IsDurable
  <2>2. CASE ~ (IsDurable /\ status[job.msg] \notin {"absent", "sent"})
    BY <1>1, <2>2, StatusSame DEF AbandonJob
  <2> QED
    BY <2>1, <2>2
<1> QED
  BY <1>1, <1>2, <1>3, <1>4, Recorded

LEMMA LedgerSettle ==
    ASSUME TypeInv, EntryInv, NEW w \in writes, SettleTarget(w) PROVE Ledger!Next \/ Quiet
<1>1. w.msg \in Message /\ w.target.to \in Person /\ w.target.relay \in Relay
  BY DEF TypeInv, PublishType, Target
<1>2. OthersKept(w.msg)
  BY <1>1, SettleCopies
<1>3. EntriesMove(w.msg)
  <2> SUFFICES ASSUME NEW p \in Person, NEW r \in Relay
               PROVE  Ledger!EntryMove(At(w.msg, p, r), copies'[w.msg][p].relays[r])
    BY DEF EntriesMove
  <2>1. copies'[w.msg][p].relays[r] =
            IF ~ Settles(w) \/ p # w.target.to \/ r # w.target.relay \/ At(w.msg, p, r) = "ok"
            THEN At(w.msg, p, r) ELSE IF w.ok THEN "ok" ELSE "failed"
    BY SettleCopies
  <2>2. Settles(w) => At(w.msg, w.target.to, w.target.relay) \in Tried
    BY AnswersAwaited DEF EntryInv, Awaited, Settles
  <2> QED
    BY <2>1, <2>2 DEF Tried, Ledger!EntryMove
<1>4. CASE w.target \in targets /\ w.msg \in Durable
  <2>1. RecomputeMessageStatus(w.msg)
    BY <1>4 DEF SettleTarget
  <2>2. Ledger!StatusMove(w.msg) /\ OtherStatusKept(w.msg)
    BY <1>1, <1>4, <2>1, StatusMoved DEF RecomputeMessageStatus
  <2> QED
    BY <1>1, <1>2, <1>3, <2>2, Recorded
<1>5. CASE ~ (w.target \in targets /\ w.msg \in Durable)
  <2>1. status' = status
    BY <1>5 DEF SettleTarget
  <2> QED
    BY <1>1, <1>2, <1>3, <2>1, StatusSame, Recorded
<1> QED
  BY <1>4, <1>5

LEMMA LedgerWorker ==
    ASSUME TypeInv, EntryInv, Worker PROVE Ledger!Next \/ Quiet
<1>1. CASE Preparing
  <2>1. copies' = copies /\ Working /\ job.msg \in Message
    BY <1>1, PreparingShape DEF Working, TypeInv, JobHeld, JobRow
  <2>2. status' = status \/ (IsDurable /\ RecomputeMessageStatus(job.msg))
    <3>1. ASSUME NEW t \in skipping, SkipTarget(t)
          PROVE  IsDurable /\ RecomputeMessageStatus(job.msg)
      BY <3>1 DEF SkipTarget, EntryInv, SkippedDurable, IsDurable
    <3>2. CASE LoadJob \/ FindSuccessful \/ SkipDone
      BY <3>2 DEF LoadJob, FindSuccessful, SkipDone, database
    <3> QED
      BY <1>1, <3>1, <3>2 DEF Preparing
  <2> QED
    BY <2>1, <2>2, LedgerRecompute DEF IsDurable
<1>2. CASE FinishEmptyJob
  <2>1. copies' = copies /\ job.msg \in Message
    BY <1>2 DEF FinishEmptyJob, TypeInv, JobHeld, JobRow
  <2>2. status' = status \/ (IsDurable /\ RecomputeMessageStatus(job.msg))
    BY <1>2 DEF FinishEmptyJob
  <2> QED
    BY <2>1, <2>2, LedgerRecompute DEF IsDurable
<1>3. CASE NextJob \/ DrainEnded \/ \E t \in inflight, ok \in BOOLEAN : RelayAnswers(t, ok)
  BY <1>3 DEF NextJob, DrainEnded, RelayAnswers, database, Quiet
<1>4. CASE Wrapping
  BY <1>4, WrappingShape DEF Quiet
<1>5. CASE Publishing
  BY <1>5 DEF Publishing, StartPublish, PublishDone, database, Quiet
<1> QED
  BY <1>1, <1>2, <1>3, <1>4, <1>5, WorkerSteps, LedgerPrepare, LedgerMark, LedgerFail,
     LedgerAbandon, LedgerSettle DEF Ending

LEMMA LedgerStep ==
    TypeInv /\ OrderInv /\ StageInv /\ EntryInv /\ [Next]_vars => Ledger!Next \/ Quiet
<1> SUFFICES ASSUME TypeInv, OrderInv, StageInv, EntryInv, [Next]_vars
             PROVE  Ledger!Next \/ Quiet
  OBVIOUS
<1>1. CASE Environment \/ Faults \/ UNCHANGED vars
  BY <1>1, EnvironmentMoves, FaultMoves DEF vars, database, Quiet
<1> QED
  BY <1>1, LedgerUser, LedgerRemoval, LedgerWorker DEF OrderInv, EntryInv, Next

(* Every step of the outbox is a step of the ledger or leaves what the     *)
(* user reads alone: no acknowledgement is lost, no outcome is recorded    *)
(* twice or out of turn, "sent" is final and only said of a message whose  *)
(* every copy is delivered, and a removal forgets messages before their    *)
(* copies, also when settlements are rejected and the process dies.        *)
THEOREM OutboxKeepsLedger == Spec => LedgerSpec
<1> DEFINE Inv == TypeInv /\ OrderInv /\ RemovalInv /\ LinkInv /\ EntryInv
<1>1. Init => Inv /\ Ledger!Init
  BY TypeInit, OrderInit, RemovalInit, LinkInit, EntryInit, LedgerInit
<1>2. Inv /\ [Next]_vars => Inv'
  BY TypeStep, OrderStep, RemovalStep, LinkStep, EntryStep DEF RemovalInv
<1>3. Inv /\ [Next]_vars => [Ledger!Next]_(Ledger!ledger)
  BY LedgerStep DEF RemovalInv, Quiet, Ledger!ledger
<1> HIDE DEF Inv
<1> QED
  BY <1>1, <1>2, <1>3, PTL DEF Spec, LedgerSpec, Ledger!Spec

-----------------------------------------------------------------------------
(***************************************************************************)
(* The rows of the outbox agree, whatever happens between the transactions *)
(* that write them.  First the gift wraps: a job seals one per recipient   *)
(* and every retry of the job, also after a crash, hands relays that same  *)
(* wrap, because while a job that was published exists, it has targets and *)
(* each of them has its wrap stored, so that ensurePayloads finds nothing  *)
(* to seal.  Then copies, jobs, targets and messages: what the user reads  *)
(* as pending or queued is owed by a job, and what he reads of a message   *)
(* without jobs is the verdict of its copies.  Both assume that the        *)
(* database does not reject settlements: one that is rejected lets the     *)
(* next run of the worker overlap with those accepted after it.            *)
(***************************************************************************)

Wrapped(t) == [job |-> t.job, to |-> t.to] \in payloads

QuietWrites == (pc # "publish" => writes = {}) /\ ~ writeFailed

PublishedWrapped ==
    \A w \in published :
        /\ w.job < nextId
        /\ (\E j \in jobs : j.id = w.job) =>
               /\ \E t \in targets : t.job = w.job
               /\ \A t \in targets : t.job = w.job => Wrapped(t)

(* What the worker's locals say about the rows of its job. *)
WorkerWrap == job \in jobs =>
    /\ pc = "resolve" => JobTargets(job.id) = {}
    /\ pc = "check" => local = JobTargets(job.id)
    /\ pc = "skip" => local \cup skipping = JobTargets(job.id) /\ local \cap skipping = {}
    /\ pc \in {"wrap", "seal"} =>
           /\ \A p \in unready : [job |-> job.id, to |-> p] \notin payloads
           /\ \A p \in unready : \E t \in JobTargets(job.id) : t.to = p
           /\ \A t \in JobTargets(job.id) : t.to \in unready \/ Wrapped(t)
    /\ pc \in {"mark", "send"} =>
           local = JobTargets(job.id) /\ local # {} /\ \A t \in local : Wrapped(t)

WrapInv == QuietWrites /\ JobIdentity /\ PayloadHasTarget /\ PublishedWrapped /\ WorkerWrap

(* The invariants the argument builds on. *)
BaseInv == TypeInv /\ OrderInv /\ RemovalInv

LEMMA WrapInit == Init => WrapInv
  BY DEF Init, WrapInv, QuietWrites, JobIdentity, Working, PayloadHasTarget, PublishedWrapped,
         WorkerWrap

-----------------------------------------------------------------------------
(* The rows of a job that survives are those it had. *)

LEMMA DeletedPayloads ==
    ASSUME PayloadHasTarget, NEW ids, DeleteJobRows(ids) PROVE PayloadHasTarget'
  BY DEF PayloadHasTarget, DeleteJobRows

LEMMA DeletedPublished ==
    ASSUME PublishedWrapped, NEW ids, DeleteJobRows(ids), UNCHANGED <<published, nextId>>
    PROVE  PublishedWrapped'
<1> SUFFICES ASSUME NEW w \in published
             PROVE  /\ w.job < nextId
                    /\ (\E j \in jobs' : j.id = w.job) =>
                           /\ \E t \in targets' : t.job = w.job
                           /\ \A t \in targets' : t.job = w.job =>
                                  [job |-> t.job, to |-> t.to] \in payloads'
  BY DEF PublishedWrapped, Wrapped
<1>1. w.job < nextId
  BY DEF PublishedWrapped
<1>2. ASSUME NEW j \in jobs', j.id = w.job
      PROVE  /\ \E t \in targets' : t.job = w.job
             /\ \A t \in targets' : t.job = w.job => [job |-> t.job, to |-> t.to] \in payloads'
  <2>1. w.job \notin ids /\ j \in jobs
    BY <1>2 DEF DeleteJobRows
  <2>2. PICK t \in targets : t.job = w.job
    BY <1>2, <2>1 DEF PublishedWrapped
  <2>3. t \in targets'
    BY <2>1, <2>2 DEF DeleteJobRows
  <2>4. ASSUME NEW u \in targets', u.job = w.job
        PROVE  [job |-> u.job, to |-> u.to] \in payloads'
    <3>1. u \in targets
      BY DEF DeleteJobRows
    <3>2. [job |-> u.job, to |-> u.to] \in payloads
      BY <1>2, <2>1, <2>4, <3>1 DEF PublishedWrapped, Wrapped
    <3> QED
      BY <2>1, <2>4, <3>2 DEF DeleteJobRows
  <2> QED
    BY <2>2, <2>3, <2>4
<1> QED
  BY <1>1, <1>2

LEMMA RemovedPayloads ==
    ASSUME PayloadHasTarget, NEW t, RemoveTargetRow(t) PROVE PayloadHasTarget'
<1> SUFFICES ASSUME NEW w \in payloads'
             PROVE  \E u \in targets' : u.job = w.job /\ u.to = w.to
  BY DEF PayloadHasTarget
<1>1. PICK u \in targets : u.job = w.job /\ u.to = w.to
  BY DEF PayloadHasTarget, RemoveTargetRow
<1>2. CASE u # t
  BY <1>1, <1>2 DEF RemoveTargetRow
<1>3. CASE u = t
  <2>1. \E v \in targets \ {t} : v.job = t.job /\ v.to = t.to
    BY <1>1, <1>3 DEF RemoveTargetRow
  <2> QED
    BY <1>1, <1>3, <2>1 DEF RemoveTargetRow
<1> QED
  BY <1>2, <1>3

LEMMA RemovedPublished ==
    ASSUME PublishedWrapped, NEW t, RemoveTargetRow(t), UNCHANGED <<published, nextId>>
    PROVE  PublishedWrapped'
<1> SUFFICES ASSUME NEW w \in published
             PROVE  /\ w.job < nextId
                    /\ (\E j \in jobs' : j.id = w.job) =>
                           /\ \E u \in targets' : u.job = w.job
                           /\ \A u \in targets' : u.job = w.job =>
                                  [job |-> u.job, to |-> u.to] \in payloads'
  BY DEF PublishedWrapped, Wrapped
<1>1. w.job < nextId
  BY DEF PublishedWrapped
<1>2. ASSUME NEW j \in jobs', j.id = w.job
      PROVE  /\ \E u \in targets' : u.job = w.job
             /\ \A u \in targets' : u.job = w.job => [job |-> u.job, to |-> u.to] \in payloads'
  <2>1. j \in jobs /\ targets' = targets \ {t}
    BY DEF RemoveTargetRow
  <2>2. PICK v \in targets : v.job = w.job
    BY <1>2, <2>1 DEF PublishedWrapped
  <2>3. \E u \in targets' : u.job = w.job
    <3>1. CASE w.job = t.job
      BY <1>2, <3>1 DEF RemoveTargetRow
    <3>2. CASE w.job # t.job
      BY <2>1, <2>2, <3>2
    <3> QED
      BY <3>1, <3>2
  <2>4. ASSUME NEW u \in targets', u.job = w.job
        PROVE  [job |-> u.job, to |-> u.to] \in payloads'
    <3> DEFINE wrap == [job |-> u.job, to |-> u.to]
    <3>1. u \in targets /\ u \in targets \ {t}
      BY <2>1
    <3>2. wrap \in payloads /\ wrap.job = u.job /\ wrap.to = u.to
      BY <1>2, <2>1, <2>4, <3>1 DEF PublishedWrapped, Wrapped
    <3> HIDE DEF wrap
    <3>3. wrap \in payloads'
      BY <3>1, <3>2 DEF RemoveTargetRow
    <3> QED
      BY <3>3 DEF wrap
  <2> QED
    BY <2>3, <2>4
<1> QED
  BY <1>1, <1>2

-----------------------------------------------------------------------------
(* Steps that leave the rows of the worker's job alone. *)

Unclaimed ==
    {"idle", "loop", "load", "finish", "publish", "abandon", "abandonStrip", "ending"}

(* The worker stays where it is, or goes where WorkerWrap says nothing. *)
WorkerStays ==
    /\ pc' \in Unclaimed \/ UNCHANGED <<pc, job, local, skipping, unready>>
    /\ ~ Working' \/ (Working /\ job' = job)

LEMMA WorkerFrame ==
    ASSUME WorkerWrap, WorkerStays,
           job \in jobs' =>
               /\ job \in jobs /\ JobTargets(job.id)' = JobTargets(job.id)
               /\ \A p : [job |-> job.id, to |-> p] \in payloads'
                             <=> [job |-> job.id, to |-> p] \in payloads
    PROVE  WorkerWrap'
<1>1. CASE pc' \in Unclaimed
  BY <1>1 DEF WorkerWrap, Unclaimed
<1>2. CASE UNCHANGED <<pc, job, local, skipping, unready>>
  <2> SUFFICES ASSUME job \in jobs' PROVE WorkerWrap'
    BY <1>2 DEF WorkerWrap
  <2>1. (JobTargets(job.id))' = JobTargets(job.id)
    BY <1>2 DEF JobTargets
  <2>2. \A t \in JobTargets(job.id) : Wrapped(t)' <=> Wrapped(t)
    BY DEF Wrapped, JobTargets
  <2> QED
    BY <1>2, <2>1, <2>2 DEF WorkerWrap
<1> QED
  BY <1>1, <1>2 DEF WorkerStays

(* Rows are only added for a job that is only just enqueued. *)
RowsKept ==
    /\ \A j \in jobs' : j \in jobs \/ j.id = nextId
    /\ targets \subseteq targets' /\ \A t \in targets' : t \in targets \/ t.job = nextId
    /\ payloads' = payloads /\ published' = published
    /\ nextId' = nextId \/ nextId' = nextId + 1

LEMMA RowsFrame ==
    ASSUME BaseInv, WrapInv, RowsKept, WorkerStays, QuietWrites'
    PROVE  WrapInv'
<1> USE OutboxConstants DEF OutboxConstants
<1>1. nextId \in Nat
  BY DEF BaseInv, TypeInv, DatabaseType
<1>2. PayloadHasTarget'
  BY DEF RowsKept, WrapInv, PayloadHasTarget
<1>3. Working => job \in JobRow /\ job.id \in Nat /\ job.id < nextId
  BY DEF BaseInv, OrderInv, WorkerOnOldest, Working, TypeInv, JobHeld, JobRow
<1>4. JobIdentity'
  BY <1>1, <1>3 DEF RowsKept, WorkerStays, WrapInv, JobIdentity
<1>5. PublishedWrapped'
  <2> SUFFICES ASSUME NEW w \in published
               PROVE  /\ w.job < nextId'
                      /\ (\E j \in jobs' : j.id = w.job) =>
                             /\ \E t \in targets' : t.job = w.job
                             /\ \A t \in targets' : t.job = w.job =>
                                    [job |-> t.job, to |-> t.to] \in payloads'
    BY DEF RowsKept, PublishedWrapped, Wrapped
  <2>1. w.job \in Nat /\ w.job < nextId
    BY DEF WrapInv, PublishedWrapped, BaseInv, TypeInv, ObservedType, Payload
  <2>2. w.job < nextId'
    BY <1>1, <2>1 DEF RowsKept
  <2>3. ASSUME NEW j \in jobs', j.id = w.job
        PROVE  /\ \E t \in targets' : t.job = w.job
               /\ \A t \in targets' : t.job = w.job => [job |-> t.job, to |-> t.to] \in payloads'
    <3>1. j \in jobs /\ w.job # nextId
      BY <1>1, <2>1, <2>3 DEF RowsKept
    <3>2. /\ \E t \in targets : t.job = w.job
          /\ \A t \in targets : t.job = w.job => [job |-> t.job, to |-> t.to] \in payloads
      BY <2>3, <3>1 DEF WrapInv, PublishedWrapped, Wrapped
    <3> QED
      BY <3>1, <3>2 DEF RowsKept
  <2> QED
    BY <2>2, <2>3
<1>6. WorkerWrap'
  <2>1. CASE pc' \in Unclaimed
    BY <2>1 DEF WorkerWrap, Unclaimed
  <2>2. CASE pc' \notin Unclaimed
    <3>1. Working
      BY <2>2 DEF WorkerStays, Working, Unclaimed
    <3>2. job.id \in Nat /\ job.id < nextId
      BY <1>3, <3>1
    <3>3. job \in jobs' => job \in jobs
      BY <1>1, <3>2 DEF RowsKept
    <3>4. JobTargets(job.id)' = JobTargets(job.id)
      <4>1. job' = job
        BY <2>2 DEF WorkerStays
      <4> QED
        BY <1>1, <3>2, <4>1 DEF RowsKept, JobTargets
    <3> QED
      BY <3>3, <3>4, WorkerFrame DEF RowsKept, WrapInv
  <2> QED
    BY <2>1, <2>2
<1> QED
  BY <1>2, <1>4, <1>5, <1>6 DEF WrapInv

LEMMA WrapUser ==
    ASSUME BaseInv, WrapInv, User PROVE WrapInv'
<1>1. /\ UNCHANGED <<job, local, skipping, unready, writes, writeFailed, payloads, published>>
      /\ Wake \/ UNCHANGED wakeup
  BY DEF User, StoreRumor, EnqueueAll, EnqueueRetryTargets, WakeFor, locals, publish, database,
         observed
<1>2. RowsKept
  <2>1. ASSUME NEW m \in Message, NEW scope, EnqueueAll(m, scope) PROVE RowsKept
    BY <2>1, <1>1 DEF EnqueueAll, database, RowsKept
  <2>2. ASSUME NEW m \in Message, NEW enqueueRelay, StoreRumor(m, enqueueRelay) PROVE RowsKept
    BY <2>2, <1>1 DEF StoreRumor, RowsKept
  <2>3. ASSUME NEW m \in Message, NEW p, NEW requested, EnqueueRetryTargets(m, p, requested)
        PROVE  RowsKept
    BY <2>3, <1>1 DEF EnqueueRetryTargets, database, RowsKept
  <2> QED
    BY <2>1, <2>2, <2>3 DEF User
<1>3. WorkerStays /\ QuietWrites'
  BY <1>1 DEF Wake, StartDrain, wakeup, WorkerStays, Unclaimed, Working, WrapInv, QuietWrites
<1> QED
  BY <1>2, <1>3, RowsFrame

LEMMA WrapEnvironment ==
    ASSUME BaseInv, WrapInv, Environment PROVE WrapInv'
<1>1. RowsKept
  BY DEF Environment, Activate, RemoveAccount, Deactivate, GoOffline, GoOnline, EnterBackground,
         EnterForeground, Crash, database, observed, RowsKept
<1>2. WorkerStays /\ QuietWrites'
  BY DEF Environment, Activate, RemoveAccount, EndSession, Deactivate, GoOffline, GoOnline,
         EnterBackground, EnterForeground, Crash, Wake, StartDrain, wakeup, locals, publish,
         WorkerStays, Unclaimed, Working, WrapInv, QuietWrites
<1> QED
  BY <1>1, <1>2, RowsFrame

LEMMA WrapFaults ==
    ASSUME ~ SettleFaults, BaseInv, WrapInv, Faults PROVE WrapInv'
<1>1. RowsKept
  BY DEF Faults, StepFails, WorkerFails, WriteFails, database, observed, RowsKept
<1>2. WorkerStays /\ QuietWrites'
  BY DEF Faults, StepFails, WorkerFails, WriteFails, Goto, locals, publish,
         WorkerStays, Unclaimed, Working, WrapInv, QuietWrites
<1> QED
  BY <1>1, <1>2, RowsFrame

-----------------------------------------------------------------------------
(* Steps that delete rows. *)

LEMMA DeletedFrame ==
    ASSUME WrapInv, NEW ids, DeleteJobRows(ids), UNCHANGED <<published, nextId>>,
           WorkerStays, QuietWrites'
    PROVE  WrapInv'
<1>1. PayloadHasTarget' /\ PublishedWrapped'
  BY DeletedPayloads, DeletedPublished DEF WrapInv
<1>2. JobIdentity'
  BY DEF DeleteJobRows, WorkerStays, WrapInv, JobIdentity
<1>3. WorkerWrap'
  <2>1. CASE pc' \in Unclaimed
    BY <2>1 DEF WorkerWrap, Unclaimed
  <2>2. CASE pc' \notin Unclaimed
    <3>1. ASSUME job \in jobs'
          PROVE  /\ job \in jobs /\ JobTargets(job.id)' = JobTargets(job.id)
                 /\ \A p : [job |-> job.id, to |-> p] \in payloads'
                               <=> [job |-> job.id, to |-> p] \in payloads
      <4>1. job.id \notin ids /\ job \in jobs /\ job' = job
        BY <2>2, <3>1 DEF DeleteJobRows, WorkerStays
      <4> QED
        BY <4>1 DEF DeleteJobRows, JobTargets
    <3> QED
      BY <3>1, WorkerFrame DEF WrapInv
  <2> QED
    BY <2>1, <2>2
<1> QED
  BY <1>1, <1>2, <1>3 DEF WrapInv

LEMMA WrapRemoval ==
    ASSUME BaseInv, WrapInv, Removal PROVE WrapInv'
<1>1. WorkerStays /\ QuietWrites' /\ UNCHANGED <<published, nextId>>
  BY DEF Removal, WaitForIdle, DeleteAccountData, database, wakeup, locals, publish, observed,
         WorkerStays, Working, WrapInv, QuietWrites
<1>2. CASE UNCHANGED <<jobs, targets, payloads>>
  BY <1>1, <1>2, RowsFrame DEF RowsKept
<1>3. ASSUME NEW ids, DeleteJobRows(ids) PROVE WrapInv'
  BY <1>1, <1>3, DeletedFrame
<1> QED
  BY <1>2, <1>3 DEF Removal, WaitForIdle, DeleteAccountData, database

-----------------------------------------------------------------------------
(* The worker. *)

LEMMA WrapNextJob ==
    ASSUME BaseInv, WrapInv, NextJob PROVE WrapInv'
<1>1. /\ UNCHANGED <<jobs, nextId, targets, payloads, published, writes, writeFailed>>
      /\ pc = "loop" /\ pc' \in {"load", "ending"}
  BY DEF NextJob, Goto, database, publish, observed
<1>2. QuietWrites' /\ WorkerWrap'
  BY <1>1 DEF WrapInv, QuietWrites, WorkerWrap
<1>3. JobIdentity'
  <2> SUFFICES ASSUME Working' PROVE \A j \in jobs : j.id = job'.id => j = job'
    BY <1>1 DEF JobIdentity
  <2>1. AccountJobs(serving) \subseteq JobRow /\ AccountJobs(serving) # {}
    BY DEF NextJob, Goto, Working, AccountJobs, BaseInv, TypeInv, DatabaseType
  <2>2. job' \in AccountJobs(serving)
    BY <2>1, OldestJob DEF NextJob, Goto, Working
  <2> QED
    BY <2>2 DEF AccountJobs, BaseInv, OrderInv, IdsAreFresh
<1> QED
  BY <1>1, <1>2, <1>3 DEF WrapInv, PayloadHasTarget, PublishedWrapped, Wrapped

(* A step of the worker that only moves on: the rows stay. *)
LEMMA MoveOn ==
    ASSUME WrapInv, UNCHANGED <<jobs, nextId, targets, payloads, published, job, writes>>,
           ~ writeFailed', Working, pc # "publish", WorkerWrap'
    PROVE  WrapInv'
  BY DEF WrapInv, QuietWrites, JobIdentity, Working, PayloadHasTarget, PublishedWrapped, Wrapped

LEMMA WrapMoves ==
    ASSUME BaseInv, WrapInv,
           \/ FindSuccessful \/ SkipDone \/ StartWrap \/ WrapDone \/ MarkTargetsPending
    PROVE  WrapInv'
<1>1. /\ UNCHANGED <<jobs, nextId, targets, payloads, published, job, writes, writeFailed>>
      /\ Working /\ pc # "publish" /\ ~ writeFailed
  BY DEF FindSuccessful, SkipDone, StartWrap, WrapDone, MarkTargetsPending, Working, database,
         observed, publish, locals, WrapInv, QuietWrites
<1>2. ASSUME job \in jobs PROVE WorkerWrap'
  <2>1. JobTargets(job.id)' = JobTargets(job.id) /\ \A t : Wrapped(t)' <=> Wrapped(t)
    BY <1>1 DEF JobTargets, Wrapped
  <2>2. CASE FindSuccessful
    BY <1>1, <1>2, <2>1, <2>2 DEF FindSuccessful, Goto, WrapInv, WorkerWrap
  <2>3. CASE SkipDone
    <3>1. local = JobTargets(job.id)
      BY <1>2, <2>3 DEF SkipDone, WrapInv, WorkerWrap
    <3>2. unready' = {t.to : t \in {u \in local : ~ Wrapped(u)}} /\ pc' \in {"loop", "wrap"}
      BY <2>3 DEF SkipDone, Goto, Wrapped
    <3>3. \A t \in JobTargets(job.id) : t.to \in unready' \/ Wrapped(t)
      BY <3>1, <3>2
    <3>4. ASSUME NEW p \in unready'
          PROVE  /\ [job |-> job.id, to |-> p] \notin payloads
                 /\ \E t \in JobTargets(job.id) : t.to = p
      <4>1. PICK t \in local : ~ Wrapped(t) /\ t.to = p
        BY <3>2
      <4> QED
        BY <3>1, <4>1 DEF Wrapped, JobTargets
    <3> QED
      BY <1>1, <2>1, <3>2, <3>3, <3>4 DEF WorkerWrap
  <2>4. CASE StartWrap
    BY <1>1, <1>2, <2>1, <2>4 DEF StartWrap, Goto, locals, WrapInv, WorkerWrap
  <2>5. CASE WrapDone
    BY <1>1, <1>2, <2>1, <2>5 DEF WrapDone, Goto, WrapInv, WorkerWrap
  <2>6. CASE MarkTargetsPending
    BY <1>1, <1>2, <2>1, <2>6 DEF MarkTargetsPending, Goto, locals, WrapInv, WorkerWrap
  <2> QED
    BY <2>2, <2>3, <2>4, <2>5, <2>6
<1> QED
  BY <1>1, <1>2, MoveOn DEF WorkerWrap

LEMMA WrapLoad ==
    ASSUME BaseInv, WrapInv, LoadJob PROVE WrapInv'
<1>1. /\ UNCHANGED <<nextId, published, job, writes, writeFailed>>
      /\ Working /\ pc # "publish" /\ ~ writeFailed /\ writes = {}
  BY DEF LoadJob, Working, observed, publish, WrapInv, QuietWrites
<1>2. CASE status[job.msg] = "absent"
  <2>1. WorkerStays /\ DeleteJobRows({job.id}) /\ QuietWrites'
    BY <1>1, <1>2 DEF LoadJob, Goto, WorkerStays, Unclaimed, Working, QuietWrites
  <2> QED
    BY <1>1, <2>1, DeletedFrame
<1>3. CASE status[job.msg] # "absent"
  BY <1>1, <1>3, MoveOn DEF LoadJob, Goto, JobTargets, WorkerWrap
<1> QED
  BY <1>2, <1>3

LEMMA WrapEnds ==
    ASSUME BaseInv, WrapInv, FinishEmptyJob \/ AbandonJob PROVE WrapInv'
<1>1. /\ DeleteJobRows({job.id}) /\ UNCHANGED <<published, nextId>>
      /\ WorkerStays /\ QuietWrites'
  BY DEF FinishEmptyJob, AbandonJob, Goto, observed, publish, WorkerStays, Unclaimed, Working,
         WrapInv, QuietWrites
<1> QED
  BY <1>1, DeletedFrame

LEMMA WrapPrepare ==
    ASSUME BaseInv, WrapInv, PrepareAllTargets PROVE WrapInv'
<1>1. /\ UNCHANGED <<jobs, nextId, payloads, published, job, writes, writeFailed>>
      /\ Working /\ pc = "resolve" /\ pc' \in {"ending", "abandon", "finish", "check"}
      /\ ~ writeFailed
  <2>1. UNCHANGED <<published, writeFailed>>
    BY DEF PrepareAllTargets, publish
  <2> QED
    BY <2>1, PrepareShape DEF Working, WrapInv, QuietWrites
<1>2. CASE pc' # "check" /\ targets' = targets
  BY <1>1, <1>2, MoveOn DEF WorkerWrap
<1>3. CASE ~ (pc' # "check" /\ targets' = targets)
  <2>1. CanRun
    BY <1>3 DEF PrepareAllTargets, Goto
  <2>2. PICK resolved \in [Recipients -> RelayLists] :
            /\ job \in jobs \/ \A p \in Recipients : resolved[p] = {}
            /\ CommitTargets(resolved)
    BY <1>3, <2>1 DEF PrepareAllTargets, Goto
  <2>3. /\ targets \subseteq targets'
        /\ \A t \in targets' : t \in targets \/ (t.job = job.id /\ job \in jobs)
    <3>1. \A t \in targets' : t \in targets \/ (t.job = job.id /\ t.to \in Recipients
                                                /\ t.relay \in resolved[t.to])
      BY <2>2 DEF CommitTargets
    <3> QED
      BY <2>2, <3>1 DEF CommitTargets
  <2>4. WorkerWrap'
    BY <1>1, <2>2 DEF CommitTargets, JobTargets, WorkerWrap
  <2>5. PublishedWrapped'
    <3>1. job \in jobs => \A w \in published : w.job # job.id
      BY <1>1 DEF WrapInv, WorkerWrap, PublishedWrapped, JobTargets
    <3> SUFFICES ASSUME NEW w \in published, \E j \in jobs : j.id = w.job
                 PROVE  /\ \E t \in targets' : t.job = w.job
                        /\ \A t \in targets' : t.job = w.job =>
                               [job |-> t.job, to |-> t.to] \in payloads
      BY <1>1 DEF WrapInv, PublishedWrapped, Wrapped
    <3> QED
      BY <2>3, <3>1 DEF WrapInv, PublishedWrapped, Wrapped
  <2> QED
    BY <1>1, <2>3, <2>4, <2>5
       DEF WrapInv, QuietWrites, JobIdentity, Working, PayloadHasTarget
<1> QED
  BY <1>2, <1>3

LEMMA WrapSkip ==
    ASSUME BaseInv, WrapInv, NEW t \in skipping, SkipTarget(t) PROVE WrapInv'
<1>1. /\ UNCHANGED <<nextId, published, job, local, unready, pc, writes, writeFailed>>
      /\ pc = "skip" /\ Working /\ RemoveTargetRow(t) /\ skipping' = skipping \ {t}
  BY DEF SkipTarget, wakeup, publish, observed, Working
<1>2. PayloadHasTarget' /\ PublishedWrapped'
  BY <1>1, RemovedPayloads, RemovedPublished DEF WrapInv
<1>3. jobs' \subseteq jobs /\ targets' = targets \ {t}
  BY <1>1 DEF RemoveTargetRow
<1>4. WorkerWrap'
  BY <1>1, <1>3 DEF WrapInv, WorkerWrap, JobTargets
<1> QED
  BY <1>1, <1>2, <1>3, <1>4 DEF WrapInv, QuietWrites, JobIdentity, Working

LEMMA WrapSettle ==
    ASSUME BaseInv, WrapInv, NEW w \in writes, SettleTarget(w) PROVE WrapInv'
<1>1. /\ UNCHANGED <<nextId, published, job, pc, writeFailed>> /\ writes' \subseteq writes
      /\ pc = "publish"
  BY DEF SettleTarget, wakeup, locals, observed, WrapInv, QuietWrites
<1>2. PayloadHasTarget' /\ PublishedWrapped' /\ jobs' \subseteq jobs
  <2>1. CASE RemoveTargetRow(w.target)
    BY <1>1, <2>1, RemovedPayloads, RemovedPublished DEF WrapInv, RemoveTargetRow
  <2>2. CASE UNCHANGED <<jobs, targets, payloads>>
    BY <1>1, <2>2 DEF WrapInv, PayloadHasTarget, PublishedWrapped, Wrapped
  <2> QED
    BY <2>1, <2>2 DEF SettleTarget
<1>3. WorkerWrap'
  BY <1>1 DEF WorkerWrap
<1> QED
  BY <1>1, <1>2, <1>3 DEF WrapInv, QuietWrites, JobIdentity, Working

(* What ensurePayloads seals belongs to a recipient no relay was given.    *)
LEMMA UnreadyUnpublished ==
    ASSUME WrapInv, job \in jobs, pc \in {"wrap", "seal"}, NEW p \in unready
    PROVE  \A w \in published : w.job # job.id
<1>1. PICK t \in JobTargets(job.id) : t.to = p
  BY DEF WrapInv, WorkerWrap
<1>2. ~ Wrapped(t) /\ t \in targets /\ t.job = job.id
  BY <1>1 DEF WrapInv, WorkerWrap, JobTargets, Wrapped
<1> QED
  BY <1>2 DEF WrapInv, PublishedWrapped

LEMMA WrapStore ==
    ASSUME BaseInv, WrapInv, NEW p \in unready, StorePayload(p) PROVE WrapInv'
<1>1. /\ UNCHANGED <<jobs, nextId, targets, published, job, writes, writeFailed>>
      /\ pc = "seal" /\ pc' = "wrap" /\ job \in jobs
      /\ payloads' = payloads \cup {[job |-> job.id, to |-> p]} /\ unready' = unready \ {p}
  BY DEF StorePayload, Goto, publish, observed
<1>2. PICK t \in JobTargets(job.id) : t.to = p
  BY <1>1 DEF WrapInv, WorkerWrap
<1>3. PayloadHasTarget'
  BY <1>1, <1>2 DEF WrapInv, PayloadHasTarget, JobTargets
<1>4. PublishedWrapped'
  BY <1>1 DEF WrapInv, PublishedWrapped, Wrapped
<1>5. WorkerWrap'
  <2>1. \A q \in unready' : [job |-> job.id, to |-> q] # [job |-> job.id, to |-> p]
    BY <1>1
  <2>2. \A q \in unready' : /\ [job |-> job.id, to |-> q] \notin payloads'
                            /\ \E u \in JobTargets(job.id) : u.to = q
    BY <1>1, <2>1 DEF WrapInv, WorkerWrap
  <2>3. \A u \in JobTargets(job.id) : u.to \in unready' \/ [job |-> u.job, to |-> u.to] \in payloads'
    BY <1>1 DEF WrapInv, WorkerWrap, Wrapped, JobTargets
  <2> QED
    BY <1>1, <2>2, <2>3 DEF WorkerWrap, JobTargets, Wrapped
<1> QED
  BY <1>1, <1>3, <1>4, <1>5 DEF WrapInv, QuietWrites, JobIdentity, Working

LEMMA WrapFail ==
    ASSUME BaseInv, WrapInv, NEW p \in unready, FailRecipient(p) PROVE WrapInv'
<1>1. /\ UNCHANGED <<jobs, nextId, published, job, writes, writeFailed>>
      /\ pc = "seal" /\ Working /\ ~ writeFailed
  BY DEF FailRecipient, publish, observed, Working, WrapInv, QuietWrites
<1>2. CASE ~ CanRun
  <2>1. UNCHANGED <<targets, payloads>> /\ pc' = "ending"
    BY <1>2 DEF FailRecipient, Goto
  <2> QED
    BY <1>1, <2>1, MoveOn DEF WorkerWrap
<1>3. CASE CanRun
  <2>1. /\ targets' = {t \in targets : ~ (t.job = job.id /\ t.to = p)}
        /\ payloads' = payloads \ {[job |-> job.id, to |-> p]}
        /\ unready' = unready \ {p} /\ pc' = "wrap"
    BY <1>3 DEF FailRecipient, Goto, JobTargets
  <2>2. PayloadHasTarget'
    <3> SUFFICES ASSUME NEW w \in payloads'
                 PROVE  \E t \in targets' : t.job = w.job /\ t.to = w.to
      BY DEF PayloadHasTarget
    <3>1. PICK t \in targets : t.job = w.job /\ t.to = w.to
      BY <2>1 DEF WrapInv, PayloadHasTarget
    <3>2. w \in Payload /\ w # [job |-> job.id, to |-> p]
      BY <2>1 DEF BaseInv, TypeInv, DatabaseType
    <3>3. ~ (w.job = job.id /\ w.to = p)
      BY <3>2 DEF Payload
    <3> QED
      BY <2>1, <3>1, <3>3
  <2>3. PublishedWrapped'
    <3> SUFFICES ASSUME NEW w \in published, NEW j \in jobs, j.id = w.job
                 PROVE  /\ \E t \in targets' : t.job = w.job
                        /\ \A t \in targets' : t.job = w.job =>
                               [job |-> t.job, to |-> t.to] \in payloads'
      BY <1>1 DEF WrapInv, PublishedWrapped, Wrapped
    <3>1. w.job # job.id
      BY <1>1, UnreadyUnpublished DEF WrapInv, JobIdentity
    <3>2. \A t : t.job = w.job => [job |-> t.job, to |-> t.to] # [job |-> job.id, to |-> p]
      BY <3>1
    <3> QED
      BY <2>1, <3>1, <3>2 DEF WrapInv, PublishedWrapped, Wrapped
  <2>4. WorkerWrap'
    <3> SUFFICES ASSUME job \in jobs PROVE WorkerWrap'
      BY <1>1 DEF WorkerWrap
    <3>1. \A q \in unready' : /\ [job |-> job.id, to |-> q] \notin payloads'
                              /\ \E u \in targets' : u.job = job.id /\ u.to = q
      BY <1>1, <2>1 DEF WrapInv, WorkerWrap, JobTargets
    <3>2. \A u \in targets' : u.job = job.id =>
              u.to \in unready' \/ [job |-> u.job, to |-> u.to] \in payloads'
      BY <1>1, <2>1 DEF WrapInv, WorkerWrap, Wrapped, JobTargets
    <3> QED
      BY <1>1, <2>1, <3>1, <3>2 DEF WorkerWrap, JobTargets, Wrapped
  <2> QED
    BY <1>1, <2>2, <2>3, <2>4 DEF WrapInv, QuietWrites, JobIdentity, Working
<1> QED
  BY <1>2, <1>3

LEMMA WrapStart ==
    ASSUME BaseInv, WrapInv, StartPublish PROVE WrapInv'
<1>1. /\ UNCHANGED <<jobs, nextId, targets, payloads, job, writes>>
      /\ pc = "send" /\ pc' = "publish" /\ Working /\ ~ writeFailed'
      /\ published' = published \cup {[job |-> t.job, to |-> t.to] : t \in local}
  BY DEF StartPublish, Goto, locals, database, Working
<1>2. PublishedWrapped'
  <2> SUFFICES ASSUME NEW w \in published'
               PROVE  /\ w.job < nextId
                      /\ (\E j \in jobs : j.id = w.job) =>
                             /\ \E t \in targets : t.job = w.job
                             /\ \A t \in targets : t.job = w.job => Wrapped(t)
    BY <1>1 DEF PublishedWrapped, Wrapped
  <2>1. CASE w \in published
    BY <2>1 DEF WrapInv, PublishedWrapped
  <2>2. CASE w \notin published
    <3>1. PICK t \in local : w = [job |-> t.job, to |-> t.to]
      BY <1>1, <2>2
    <3>2. w.job = job.id /\ job.id < nextId
      BY <1>1, <3>1 DEF BaseInv, OrderInv, WorkerOnOldest
    <3>3. (\E j \in jobs : j.id = w.job) => job \in jobs
      BY <1>1, <3>2 DEF WrapInv, JobIdentity
    <3>4. job \in jobs => local = JobTargets(job.id) /\ \A u \in local : Wrapped(u)
      BY <1>1 DEF WrapInv, WorkerWrap
    <3> QED
      BY <3>1, <3>2, <3>3, <3>4 DEF JobTargets
  <2> QED
    BY <2>1, <2>2
<1> QED
  BY <1>1, <1>2 DEF WrapInv, QuietWrites, JobIdentity, Working, PayloadHasTarget, WorkerWrap

LEMMA WrapWorker ==
    ASSUME BaseInv, WrapInv, Worker PROVE WrapInv'
<1>1. CASE \/ DrainEnded \/ PublishDone
           \/ \E t \in inflight, ok \in BOOLEAN : RelayAnswers(t, ok)
  <2>1. RowsKept
    BY <1>1 DEF DrainEnded, PublishDone, RelayAnswers, database, observed, RowsKept
  <2>2. WorkerStays /\ QuietWrites'
    BY <1>1 DEF DrainEnded, StartDrain, PublishDone, RelayAnswers, Goto, wakeup, locals, publish,
                WorkerStays, Unclaimed, Working, WrapInv, QuietWrites
  <2> QED
    BY <2>1, <2>2, RowsFrame
<1> QED
  BY <1>1, WrapNextJob, WrapMoves, WrapLoad, WrapEnds, WrapPrepare, WrapSkip, WrapSettle,
     WrapStore, WrapFail, WrapStart DEF Worker

LEMMA BaseStep == BaseInv /\ [Next]_vars => BaseInv'
  BY TypeStep, OrderStep, RemovalStep DEF BaseInv

LEMMA WrapStep ==
    ASSUME ~ SettleFaults PROVE BaseInv /\ WrapInv /\ [Next]_vars => WrapInv'
<1> SUFFICES ASSUME BaseInv, WrapInv, [Next]_vars PROVE WrapInv'
  OBVIOUS
<1>1. CASE UNCHANGED vars
  <2>1. RowsKept /\ WorkerStays /\ QuietWrites'
    BY <1>1 DEF vars, database, wakeup, locals, publish, observed, RowsKept, WorkerStays, Working,
                WrapInv, QuietWrites
  <2> QED
    BY <2>1, RowsFrame
<1> QED
  BY <1>1, WrapUser, WrapEnvironment, WrapRemoval, WrapWorker, WrapFaults DEF Next

LEMMA WrapAlways == ASSUME ~ SettleFaults PROVE Spec => [](BaseInv /\ WrapInv)
<1>1. Init => BaseInv /\ WrapInv
  BY TypeInit, OrderInit, RemovalInit, WrapInit DEF BaseInv
<1>2. BaseInv /\ WrapInv /\ [Next]_vars => (BaseInv /\ WrapInv)'
  BY BaseStep, WrapStep
<1> QED
  BY <1>1, <1>2, PTL DEF Spec

-----------------------------------------------------------------------------
(* A gift wrap in the store always has an unfinished target to be sent to, *)
(* and processJob never reaches a publish whose gift wrap is missing.      *)
THEOREM WrapsFollowTargets == ASSUME ~ SettleFaults PROVE Spec => []WrapsMatchTargets
<1>1. BaseInv /\ WrapInv => PayloadHasTarget
  BY DEF WrapInv
<1>2. BaseInv /\ WrapInv => PublishHasPayload
  BY DEF WrapInv, WorkerWrap, PublishHasPayload, Wrapped
<1>3. BaseInv /\ WrapInv => WrapsMatchTargets
  BY <1>1, <1>2 DEF WrapsMatchTargets
<1> QED
  BY <1>3, WrapAlways, PTL

(* What WrapIsReused says of one step. *)
NoSecondWrap == \A w \in payloads' \ payloads : w \notin published

LEMMA StepReusesWrap ==
    ASSUME BaseInv, WrapInv, [Next]_vars PROVE NoSecondWrap
<1>1. ASSUME NEW p \in unready, StorePayload(p) PROVE NoSecondWrap
  <2>1. \A w \in published : w.job # job.id
    BY <1>1, UnreadyUnpublished DEF StorePayload
  <2> QED
    BY <1>1, <2>1 DEF StorePayload, NoSecondWrap
<1>2. CASE ~ \E p \in unready : StorePayload(p)
  <2>1. payloads' \subseteq payloads
    <3>1. CASE User
      BY <3>1 DEF User, StoreRumor, EnqueueAll, EnqueueRetryTargets, database
    <3>2. CASE Environment
      BY <3>2 DEF Environment, Activate, RemoveAccount, Deactivate, GoOffline, GoOnline,
                  EnterBackground, EnterForeground, Crash, database
    <3>3. CASE Removal
      BY <3>3 DEF Removal, WaitForIdle, DeleteAccountData, DeleteJobRows, database
    <3>4. CASE Worker
      <4>1. CASE PrepareAllTargets
        BY <4>1 DEF PrepareAllTargets
      <4>2. CASE LoadJob \/ FinishEmptyJob \/ AbandonJob
        BY <4>2 DEF LoadJob, FinishEmptyJob, AbandonJob, DeleteJobRows
      <4>3. CASE (\E t \in skipping : SkipTarget(t)) \/ (\E w \in writes : SettleTarget(w))
        BY <4>3 DEF SkipTarget, SettleTarget, RemoveTargetRow
      <4>4. CASE \E p \in unready : FailRecipient(p)
        BY <4>4 DEF FailRecipient
      <4>5. CASE \/ NextJob \/ DrainEnded \/ FindSuccessful \/ SkipDone \/ StartWrap \/ WrapDone
                 \/ MarkTargetsPending \/ StartPublish \/ PublishDone
                 \/ \E t \in inflight, ok \in BOOLEAN : RelayAnswers(t, ok)
        BY <4>5 DEF database, NextJob, DrainEnded, FindSuccessful, SkipDone, StartWrap, WrapDone,
                    MarkTargetsPending, StartPublish, RelayAnswers, PublishDone
      <4> QED
        BY <1>2, <3>4, <4>1, <4>2, <4>3, <4>4, <4>5 DEF Worker
    <3>5. CASE Faults
      BY <3>5 DEF Faults, StepFails, WorkerFails, WriteFails, database
    <3>6. CASE UNCHANGED vars
      BY <3>6 DEF vars, database
    <3> QED
      BY <3>1, <3>2, <3>3, <3>4, <3>5, <3>6 DEF Next
  <2> QED
    BY <2>1 DEF NoSecondWrap
<1> QED
  BY <1>1, <1>2

(* Once a relay was given a job's gift wrap for a recipient, no other wrap *)
(* is made for that recipient and job: a pause, a retry or a crash between *)
(* publishing and settling repeats the same event, which relays recognise. *)
THEOREM WrapsAreReused == ASSUME ~ SettleFaults PROVE Spec => WrapIsReused
<1>1. BaseInv /\ WrapInv /\ [Next]_vars => [NoSecondWrap]_vars
  BY StepReusesWrap
<1>2. Spec => [][NoSecondWrap]_vars
  BY <1>1, WrapAlways, PTL DEF Spec
<1> QED
  BY <1>2 DEF WrapIsReused, NoSecondWrap

-----------------------------------------------------------------------------
(* The rows of copies, jobs, targets and messages agree.  What goes wrong  *)
(* at once when it goes wrong: the job the worker holds is gone under it.  *)

(* It is gone where the last settlement or skip took it, or the account.   *)
JobPresent == Working /\ job \notin jobs =>
    \/ pc = "publish" \/ removal[Owner[job.msg]] = "done"
    \/ pc = "skip" /\ local = {} /\ skipping = {}

SkippedIsOk == pc = "skip" => \A t \in skipping :
    At(job.msg, t.to, t.relay) = "ok" \/ removal[Owner[job.msg]] \in {"jobs", "done"}

NothingLeft == pc \in {"finish", "abandon"} => JobTargets(job.id) = {}

(* What is not to be published again. *)
NotResend == job.msg \in Durable /\ job.scope # "resend_all"

LocalNotOk == pc \in {"skip", "wrap", "seal", "mark", "send"} /\ NotResend =>
    \A t \in local : At(job.msg, t.to, t.relay) # "ok"

LocalCovers == pc \in {"wrap", "seal"} => JobTargets(job.id) \subseteq local

HoldInv == JobPresent /\ SkippedIsOk /\ NothingLeft /\ LocalNotOk /\ LocalCovers

(* A message that no account stored or removed has left nothing anywhere.  *)
Unstored(m) == removal[Owner[m]] = "no" /\ status[m] = "absent" =>
    /\ ~ HasJob(m, jobs) /\ NoRows(m)
    /\ \A p \in Person, r \in Relay : At(m, p, r) = "none"

(* The parts of what the rows of one message say of each other.            *)
PlainStatus(m) == m \notin Durable => status[m] \in {"absent", "none"}

PendingRow(m) == \A p \in Person, r \in Relay : At(m, p, r) = "pending" => copies[m][p].row

PendingTarget(m) == \A p \in Person, r \in Relay :
    At(m, p, r) = "pending" /\ status[m] # "absent" =>
        \E j \in jobs : j.msg = m /\ [job |-> j.id, to |-> p, relay |-> r] \in targets

QueuedJob(m) == status[m] = "queued" => HasJob(m, jobs)

Quiescent(m) ==
    /\ m \in Durable /\ ~ HasJob(m, jobs) /\ ~ deliveryError[m]
    /\ status[m] \notin {"absent", "none", "sent"}
    => status[m] = MessageDeliveryVerdict(CopyRows(copies[m]), FALSE)

Agrees(m) ==
    /\ Unstored(m) /\ PlainStatus(m)
    /\ PendingRow(m) /\ PendingTarget(m) /\ QueuedJob(m) /\ Quiescent(m)

RowInv == HoldInv /\ \A m \in Message : Agrees(m)

EarlierInv == BaseInv /\ WrapInv /\ LinkInv /\ EntryInv

LEMMA RowInit == Init => RowInv
<1> SUFFICES ASSUME Init PROVE RowInv
  OBVIOUS
<1>1. HoldInv
  BY DEF Init, HoldInv, JobPresent, Working, SkippedIsOk, NothingLeft, LocalNotOk, LocalCovers
<1>2. ASSUME NEW m \in Message PROVE Agrees(m)
  <2>1. status[m] = "absent" /\ jobs = {}
    BY DEF Init
  <2>2. \A p \in Person : ~ copies[m][p].row /\ \A r \in Relay : At(m, p, r) = "none"
    BY DEF Init, At, NoCopy
  <2>3. Unstored(m)
    BY <2>1, <2>2 DEF Unstored, HasJob, NoRows
  <2>5. PendingRow(m) /\ PendingTarget(m)
    BY <2>1, <2>2 DEF PendingRow, PendingTarget
  <2>4. PlainStatus(m) /\ QueuedJob(m) /\ Quiescent(m)
    BY <2>1 DEF PlainStatus, QueuedJob, Quiescent
  <2> QED
    BY <2>3, <2>4, <2>5 DEF Agrees
<1> QED
  BY <1>1, <1>2 DEF RowInv

-----------------------------------------------------------------------------
(* What a step leaves to say about the removal of accounts and the worker. *)

LEMMA RemovalGoesOn ==
    ASSUME TypeInv, [Next]_vars, NEW a \in Account
    PROVE  /\ removal'[a] = "no" => removal[a] = "no"
           /\ removal[a] = "done" => removal'[a] = "done"
           /\ removal[a] = "jobs" /\ Working' => removal'[a] \in {"jobs", "done"}
<1> USE DEF process
<1>1. removal \in [Account -> RemovalStage]
  BY DEF TypeInv, ProcessType
<1>2. CASE User
  BY <1>2 DEF User, StoreRumor, EnqueueAll, EnqueueRetryTargets
<1>3. CASE Environment
  BY <1>1, <1>3 DEF Environment, Activate, RemoveAccount, Deactivate, GoOffline, GoOnline,
                    EnterBackground, EnterForeground, Crash, Working
<1>4. CASE Removal
  BY <1>1, <1>4 DEF Removal, WaitForIdle, DeleteAccountData
<1>5. CASE Worker
  <2>1. removal' = removal
    <3>1. CASE MarkTargetsPending
      BY <3>1, Zenon DEF MarkTargetsPending
    <3>2. CASE PrepareAllTargets \/ AbandonJob \/ \E w \in writes : SettleTarget(w)
      BY <3>2, PrepareShape DEF AbandonJob, SettleTarget
    <3>4. ASSUME NEW p \in unready, FailRecipient(p) PROVE removal' = removal
      BY <3>4 DEF FailRecipient
    <3>3. CASE \/ NextJob \/ DrainEnded \/ FinishEmptyJob \/ Preparing \/ Wrapping \/ Publishing
               \/ \E t \in inflight, ok \in BOOLEAN : RelayAnswers(t, ok)
      BY <3>3 DEF NextJob, DrainEnded, FinishEmptyJob, Preparing, LoadJob, FindSuccessful,
                  SkipTarget, SkipDone, Wrapping, StartWrap, StorePayload, WrapDone, Publishing,
                  StartPublish, PublishDone, RelayAnswers
    <3> QED
      BY <1>5, <3>1, <3>2, <3>3, <3>4, WorkerSteps DEF Ending
  <2> QED
    BY <2>1
<1>6. CASE Faults
  BY <1>6 DEF Faults, StepFails, WorkerFails, WriteFails
<1>7. CASE UNCHANGED vars
  BY <1>7 DEF vars
<1> QED
  BY <1>2, <1>3, <1>4, <1>5, <1>6, <1>7 DEF Next

(* The worker goes on with its job, which no step but its own takes away.  *)
LEMMA HeldJob ==
    ASSUME TypeInv, Working PROVE job \in JobRow /\ job.msg \in Message /\ Owner[job.msg] \in Account
  BY OutboxConstants DEF OutboxConstants, TypeInv, JobHeld, JobRow, Working

LEMMA PresentFrame ==
    ASSUME TypeInv, JobPresent, [Next]_vars,
           Working' => Working /\ job' = job,
           Working' /\ pc \in {"publish", "skip"} => UNCHANGED <<pc, local, skipping>>,
           Working' /\ pc # "publish" /\ job \in jobs =>
               job \in jobs' \/ removal'[Owner[job.msg]] = "done"
    PROVE  JobPresent'
<1> SUFFICES ASSUME Working', job' \notin jobs'
             PROVE  \/ pc' = "publish" \/ removal'[Owner[job.msg]] = "done"
                    \/ pc' = "skip" /\ local' = {} /\ skipping' = {}
  BY DEF JobPresent
<1>1. Owner[job.msg] \in Account
  BY HeldJob
<1>2. CASE removal[Owner[job.msg]] = "done"
  BY <1>1, <1>2, RemovalGoesOn
<1>3. CASE removal[Owner[job.msg]] # "done"
  BY <1>3 DEF JobPresent
<1> QED
  BY <1>2, <1>3

(* No relay acknowledges, and only a removal drops an acknowledgement.      *)
OksStay == \A m \in Message, p \in Person, r \in Relay :
    /\ copies'[m][p].relays[r] = "ok" => At(m, p, r) = "ok"
    /\ At(m, p, r) = "ok" => copies'[m][p].relays[r] = "ok" \/ removal'[Owner[m]] = "jobs"

LEMMA WorkerTargets ==
    ASSUME TypeInv, NEW t \in local \cup skipping
    PROVE  t.to \in Person /\ t.relay \in Relay
  BY DEF TypeInv, LocalsType, Target

LEMMA HoldFrame ==
    ASSUME TypeInv, OrderInv, HoldInv, [Next]_vars, JobPresent', TargetsMove,
           ~ Working' \/ (UNCHANGED <<pc, job, local, skipping>> /\ OksStay)
    PROVE  HoldInv'
<1> USE OutboxConstants DEF OutboxConstants
<1> SUFFICES ASSUME Working', UNCHANGED <<pc, job, local, skipping>>, OksStay
             PROVE  SkippedIsOk' /\ NothingLeft' /\ LocalNotOk' /\ LocalCovers'
  BY DEF HoldInv, SkippedIsOk, NothingLeft, LocalNotOk, LocalCovers, Working
<1>1. Working /\ job.msg \in Message /\ Owner[job.msg] \in Account /\ job.id # nextId
  BY HeldJob DEF Working, OrderInv, WorkerOnOldest, TypeInv, DatabaseType, JobRow
<1>2. SkippedIsOk'
  BY <1>1, WorkerTargets, RemovalGoesOn DEF HoldInv, SkippedIsOk, OksStay, At
<1>3. (JobTargets(job.id))' \subseteq JobTargets(job.id)
  BY <1>1 DEF JobTargets, TargetsMove
<1>4. NothingLeft' /\ LocalCovers'
  BY <1>3 DEF HoldInv, NothingLeft, LocalCovers
<1>5. LocalNotOk'
  BY <1>1, WorkerTargets DEF HoldInv, LocalNotOk, NotResend, OksStay, At
<1> QED
  BY <1>2, <1>4, <1>5

(* Where nothing is said of the worker but that its job is there. *)
LEMMA HoldElsewhere ==
    ASSUME JobPresent', pc' \notin {"skip", "finish", "abandon", "wrap", "seal", "mark", "send"}
    PROVE  HoldInv'
  BY DEF HoldInv, SkippedIsOk, NothingLeft, LocalNotOk, LocalCovers

LEMMA HoldUser ==
    ASSUME TypeInv, OrderInv, HoldInv, User PROVE HoldInv'
<1>1. jobs \subseteq jobs'
  BY DEF User, StoreRumor, EnqueueAll, EnqueueRetryTargets, database
<1>2. /\ UNCHANGED <<job, local, skipping, copies>> /\ TargetsMove
      /\ pc' = pc \/ (pc = "idle" /\ pc' \in {"loop", "ending"})
  BY UserMoves DEF OrderInv
<1>3. JobPresent'
  BY <1>1, <1>2, PresentFrame DEF HoldInv, Working, Next
<1> QED
  BY <1>2, <1>3, HoldFrame DEF OksStay, At, Working, Next

LEMMA HoldEnvironment ==
    ASSUME TypeInv, OrderInv, HoldInv, Environment PROVE HoldInv'
<1>1. /\ UNCHANGED <<jobs, copies>> /\ TargetsMove
      /\ pc' \in {"idle", "loop", "ending"} \/ UNCHANGED <<pc, job, local, skipping>>
  BY EnvironmentMoves DEF database
<1>2. JobPresent'
  BY <1>1, PresentFrame DEF HoldInv, Working, Next
<1> QED
  BY <1>1, <1>2, HoldFrame DEF OksStay, At, Working, Next

LEMMA HoldFaults ==
    ASSUME TypeInv, OrderInv, LinkInv, HoldInv, Faults PROVE HoldInv'
<1>1. /\ UNCHANGED <<jobs, copies, targets, job, local, skipping>> /\ TargetsMove
      /\ \/ pc' = pc \/ pc' = "ending"
         \/ pc = "resolve" /\ pc' = "abandon"
         \/ pc \in {"wrap", "seal"} /\ pc' = "abandonStrip"
  BY FaultMoves DEF database
<1>2. JobPresent'
  BY <1>1, PresentFrame DEF HoldInv, Working, Next
<1>3. CASE pc' = pc \/ pc' = "ending"
  BY <1>1, <1>2, <1>3, HoldFrame DEF OksStay, At, Working, Next
<1>4. CASE pc = "resolve" /\ pc' = "abandon"
  BY <1>1, <1>2, <1>4
     DEF LinkInv, PreparesOnce, JobTargets, HoldInv, SkippedIsOk, NothingLeft, LocalNotOk, LocalCovers
<1>5. CASE pc' = "abandonStrip"
  BY <1>2, <1>5, HoldElsewhere
<1> QED
  BY <1>1, <1>3, <1>4, <1>5

LEMMA HoldRemoval ==
    ASSUME TypeInv, OrderInv, LinkInv, HoldInv, Removal PROVE HoldInv'
<1>1. UNCHANGED <<pc, job, local, skipping>> /\ TargetsMove
  BY RemovalMoves DEF TargetsMove
<1>2. PICK a \in Account : WaitForIdle(a) \/ DeleteAccountData(a)
  BY DEF Removal
<1>3. ASSUME Working, job \in jobs, job \notin jobs'
      PROVE  removal'[Owner[job.msg]] = "done"
  <2>1. /\ removal[a] = "jobs" /\ removal' = [removal EXCEPT ![a] = "done"]
        /\ DeleteJobRows({j.id : j \in AccountJobs(a)})
    BY <1>2, <1>3 DEF WaitForIdle, DeleteAccountData, database
  <2>2. PICK j \in AccountJobs(a) : j.id = job.id
    BY <1>3, <2>1 DEF DeleteJobRows
  <2>3. j = job /\ Owner[job.msg] = a
    BY <1>3, <2>2 DEF AccountJobs, LinkInv, JobIdentity
  <2> QED
    BY <2>1, <2>3 DEF TypeInv, ProcessType
<1>4. JobPresent'
  BY <1>1, <1>3, PresentFrame DEF HoldInv, Working, Next
<1>5. OksStay
  <2>1. CASE copies' = copies
    BY <2>1 DEF OksStay, At
  <2>2. CASE copies' # copies
    <3>1. /\ removal' = [removal EXCEPT ![a] = "jobs"]
          /\ copies' = [m \in Message |->
                 IF Owner[m] = a THEN [p \in Person |-> NoCopy] ELSE copies[m]]
      BY <1>2, <2>2 DEF WaitForIdle, DeleteAccountData, database
    <3>2. \A r \in Relay : NoCopy.relays[r] = "none"
      BY DEF NoCopy
    <3>3. removal'[a] = "jobs"
      BY <3>1 DEF TypeInv, ProcessType
    <3> HIDE DEF NoCopy
    <3> QED
      BY <3>1, <3>2, <3>3 DEF OksStay, At
  <2> QED
    BY <2>1, <2>2
<1> QED
  BY <1>1, <1>4, <1>5, HoldFrame DEF Working, Next

LEMMA HoldPrepare ==
    ASSUME TypeInv, OrderInv, LinkInv, HoldInv, PrepareAllTargets PROVE HoldInv'
<1>1. /\ UNCHANGED <<jobs, job>> /\ pc = "resolve"
      /\ pc' \in {"ending", "abandon", "finish", "check"}
  BY PrepareShape
<1>2. JobPresent'
  BY <1>1, PresentFrame DEF HoldInv, Working, Next, Worker
<1>3. CASE pc' \in {"ending", "check"}
  BY <1>2, <1>3, HoldElsewhere
<1>4. CASE pc' \in {"abandon", "finish"}
  <2>1. (JobTargets(job.id))' = {}
    <3>1. CASE targets' = targets
      BY <1>1, <3>1 DEF LinkInv, PreparesOnce, JobTargets
    <3>2. CASE targets' # targets
      <4>1. PICK resolved \in [Recipients -> RelayLists] : CommitTargets(resolved)
        BY <3>2, PrepareCopies
      <4>2. local' = {t \in targets' : t.job = job.id} /\ local' = {}
        BY <1>4, <4>1 DEF CommitTargets, Goto
      <4> QED
        BY <1>1, <4>2 DEF JobTargets
    <3> QED
      BY <3>1, <3>2
  <2> QED
    BY <1>2, <1>4, <2>1 DEF HoldInv, SkippedIsOk, NothingLeft, LocalNotOk, LocalCovers
<1> QED
  BY <1>1, <1>3, <1>4

LEMMA HoldFind ==
    ASSUME TypeInv, OrderInv, HoldInv, FindSuccessful PROVE HoldInv'
<1>1. /\ UNCHANGED <<jobs, job, copies>> /\ pc = "check" /\ pc' \in {"skip", "ending"}
  BY DEF FindSuccessful, Goto, database
<1>2. JobPresent'
  BY <1>1, PresentFrame DEF HoldInv, Working, Next, Worker
<1>3. CASE pc' = "ending"
  BY <1>2, <1>3, HoldElsewhere
<1>4. CASE pc' = "skip"
  <2>1. PICK found : /\ skipping' = found /\ local' = local \ found
                     /\ found = IF IsDurable /\ job.scope # "resend_all"
                                THEN {t \in local : At(job.msg, t.to, t.relay) = "ok"} ELSE {}
    BY <1>4 DEF FindSuccessful, Goto, At
  <2>2. SkippedIsOk'
    BY <1>1, <2>1 DEF SkippedIsOk, At
  <2>3. LocalNotOk'
    BY <1>1, <2>1 DEF LocalNotOk, NotResend, IsDurable, At
  <2> QED
    BY <1>2, <1>4, <2>2, <2>3 DEF HoldInv, NothingLeft, LocalCovers
<1> QED
  BY <1>1, <1>3, <1>4

(* The last target that is skipped takes the job.                          *)
LEMMA HoldSkip ==
    ASSUME TypeInv, OrderInv, WrapInv, HoldInv, NEW t \in skipping, SkipTarget(t)
    PROVE  HoldInv'
<1>1. /\ UNCHANGED <<pc, job, local, copies, removal>> /\ pc = "skip" /\ Working
      /\ RemoveTargetRow(t) /\ skipping' = skipping \ {t}
  BY DEF SkipTarget, wakeup, process, Working
<1>2. JobPresent'
  <2>1. CASE job \notin jobs
    BY <1>1, <2>1 DEF HoldInv, JobPresent, RemoveTargetRow
  <2>2. CASE job \in jobs /\ job \notin jobs'
    <3>1. \A u \in targets \ {t} : u.job # t.job
      BY <2>2, <1>1 DEF RemoveTargetRow
    <3>2. /\ local \cup skipping = JobTargets(job.id) /\ local \cap skipping = {}
      BY <1>1, <2>2 DEF WrapInv, WorkerWrap
    <3>3. local = {} /\ skipping \ {t} = {}
      BY <3>1, <3>2 DEF JobTargets
    <3> QED
      BY <1>1, <3>3 DEF JobPresent
  <2>3. CASE job \in jobs'
    BY <1>1, <2>3 DEF JobPresent
  <2> QED
    BY <2>1, <2>2, <2>3
<1>3. SkippedIsOk' /\ LocalNotOk'
  BY <1>1 DEF HoldInv, SkippedIsOk, LocalNotOk, NotResend, At
<1> QED
  BY <1>1, <1>2, <1>3 DEF HoldInv, NothingLeft, LocalCovers

LEMMA HoldPreparing ==
    ASSUME TypeInv, OrderInv, RemovalInv, WrapInv, LinkInv, HoldInv, LoadJob \/ SkipDone PROVE HoldInv'
<1>1. CASE LoadJob
  <2>1. /\ job' = job /\ pc = "load" /\ pc' \in {"loop", "resolve", "check"}
        /\ pc' # "loop" => jobs' = jobs
    BY <1>1 DEF LoadJob, Goto
  <2>2. JobPresent'
    BY <1>1, <2>1, PresentFrame DEF HoldInv, Working, Next, Worker
  <2> QED
    BY <2>1, <2>2, HoldElsewhere
<1>2. CASE SkipDone
  <2>1. /\ UNCHANGED <<jobs, job, local, skipping, copies, targets, removal>>
        /\ pc = "skip" /\ skipping = {} /\ pc' = IF local = {} THEN "loop" ELSE "wrap"
    BY <1>2 DEF SkipDone, Goto, database, process
  <2>2. JobPresent'
    BY <2>1 DEF HoldInv, JobPresent, Working
  <2>3. CASE local = {}
    BY <2>1, <2>2, <2>3, HoldElsewhere
  <2>4. CASE local # {}
    <3>1. job \in jobs => local = JobTargets(job.id)
      BY <2>1 DEF WrapInv, WorkerWrap
    <3>2. LocalCovers'
      <4>1. CASE job \in jobs
        BY <2>1, <3>1, <4>1 DEF LocalCovers, JobTargets
      <4>2. CASE job \notin jobs
        BY <2>1, <4>2 DEF LinkInv, JobIdentity, Working, RemovalInv, KeyInv, LocalCovers, JobTargets
      <4> QED
        BY <4>1, <4>2
    <3>3. LocalNotOk'
      BY <2>1 DEF HoldInv, LocalNotOk, NotResend, At
    <3> QED
      BY <2>1, <2>2, <2>4, <3>2, <3>3 DEF HoldInv, SkippedIsOk, NothingLeft
  <2> QED
    BY <2>3, <2>4
<1> QED
  BY <1>1, <1>2

LEMMA HoldWrapping ==
    ASSUME TypeInv, OrderInv, HoldInv, Wrapping PROVE HoldInv'
<1>1. UNCHANGED <<copies, jobs, targets, skipping, job>> /\ pc \in {"wrap", "seal"}
  BY WrappingShape DEF Wrapping, StartWrap, StorePayload, WrapDone
<1>5. \/ local' = local /\ pc' \in {"wrap", "seal", "ending"}
      \/ local' = JobTargets(job.id) /\ pc = "wrap"
         /\ pc' = IF local' = {} THEN "finish" ELSE "mark"
  BY DEF Wrapping, StartWrap, StorePayload, WrapDone, Goto, locals
<1>2. JobPresent'
  BY <1>1, <1>5, PresentFrame DEF HoldInv, Working, Next, Worker, Wrapping
<1>3. local' \subseteq local /\ LocalNotOk'
  BY <1>1, <1>5 DEF HoldInv, LocalCovers, LocalNotOk, NotResend, At
<1>4. LocalCovers' /\ NothingLeft'
  BY <1>1, <1>5 DEF HoldInv, LocalCovers, NothingLeft, JobTargets
<1> QED
  BY <1>2, <1>3, <1>4, <1>5 DEF HoldInv, SkippedIsOk

LEMMA HoldFail ==
    ASSUME TypeInv, OrderInv, HoldInv, NEW p \in unready, FailRecipient(p) PROVE HoldInv'
<1>0. local' = local
  BY DEF FailRecipient
<1>1. /\ UNCHANGED <<jobs, job, local>> /\ targets' \subseteq targets
      /\ pc = "seal" /\ pc' \in {"wrap", "ending"}
  BY <1>0, FailShape
<1>2. JobPresent'
  BY <1>1, PresentFrame DEF HoldInv, Working, Next, Worker
<1>3. \A t \in local : copies'[job.msg][t.to].relays[t.relay] = "ok" =>
          At(job.msg, t.to, t.relay) = "ok"
  BY WorkerTargets, FailCopies DEF SameCopy, CopyDrops, At
<1> QED
  BY <1>1, <1>2, <1>3 DEF HoldInv, SkippedIsOk, NothingLeft, LocalNotOk, LocalCovers, NotResend,
                          JobTargets, At

LEMMA HoldMark ==
    ASSUME TypeInv, OrderInv, HoldInv, MarkTargetsPending PROVE HoldInv'
<1>1. pc = "mark" /\ pc' = "send" /\ UNCHANGED <<jobs, targets, job, local, skipping>>
  BY MarkShape
<1>2. JobPresent'
  BY <1>1, PresentFrame DEF HoldInv, Working, Next, Worker
<1>3. \A t \in local : copies'[job.msg][t.to].relays[t.relay] = "ok" =>
          At(job.msg, t.to, t.relay) = "ok"
  BY WorkerTargets, MarkCopies DEF Marks, SameCopy, CopyBegins, At
<1> QED
  BY <1>1, <1>2, <1>3 DEF HoldInv, SkippedIsOk, NothingLeft, LocalNotOk, LocalCovers, NotResend,
                          At

LEMMA HoldWorker ==
    ASSUME TypeInv, OrderInv, WrapInv, LinkInv, HoldInv, RemovalInv, Worker PROVE HoldInv'
<1>1. CASE NextJob
  <2>1. UNCHANGED jobs /\ pc' \in {"load", "ending"}
    BY <1>1 DEF NextJob, Goto, database
  <2>2. Working' => job' \in jobs
    <3> SUFFICES ASSUME Working' PROVE job' \in jobs
      OBVIOUS
    <3>1. AccountJobs(serving) \subseteq JobRow /\ AccountJobs(serving) # {}
      BY <1>1 DEF NextJob, Goto, Working, AccountJobs, TypeInv, DatabaseType
    <3> QED
      BY <1>1, <3>1, OldestJob DEF NextJob, Goto, Working, AccountJobs
  <2> QED
    BY <2>1, <2>2, HoldElsewhere DEF JobPresent
<1>2. CASE Ending
  <2>1. ~ Working'
    BY <1>2, EndingShape DEF Working
  <2> QED
    BY <2>1, HoldElsewhere DEF JobPresent, Working
<1>3. CASE Publishing
  <2>1. /\ UNCHANGED <<jobs, job, local, skipping>>
        /\ \/ pc = "send" /\ pc' = "publish"
           \/ pc = "publish" /\ pc' \in {"ending", "loop"}
    BY <1>3, PublishingShape
  <2> QED
    BY <2>1, HoldElsewhere DEF JobPresent, Working
<1>4. CASE \/ \E t \in inflight, ok \in BOOLEAN : RelayAnswers(t, ok)
           \/ \E w \in writes : SettleTarget(w)
  <2>1. pc' = "publish"
    BY <1>4, SettleShape DEF RelayAnswers, wakeup, WrapInv, QuietWrites
  <2> QED
    BY <2>1, HoldElsewhere DEF JobPresent
<1> QED
  BY <1>1, <1>2, <1>3, <1>4, WorkerSteps, HoldPrepare, HoldFind, HoldSkip, HoldPreparing,
     HoldWrapping, HoldFail, HoldMark DEF Preparing

LEMMA HoldStep ==
    ASSUME BaseInv, WrapInv, LinkInv, HoldInv, [Next]_vars PROVE HoldInv'
<1>1. CASE UNCHANGED vars
  <2>1. UNCHANGED <<pc, job, local, skipping, copies, targets, jobs, removal>>
    BY <1>1 DEF vars, database, process, wakeup, locals
  <2> QED
    BY <2>1 DEF HoldInv, JobPresent, Working, SkippedIsOk, NothingLeft, LocalNotOk, LocalCovers,
                NotResend, JobTargets, At
<1> QED
  BY <1>1, HoldUser, HoldEnvironment, HoldFaults, HoldRemoval, HoldWorker DEF Next, BaseInv

-----------------------------------------------------------------------------
(* What a step does to the rows of one message.                            *)

(* It leaves them alone. *)
Untouched(m) ==
    /\ status'[m] = status[m] /\ deliveryError'[m] = deliveryError[m]
    /\ copies'[m] = copies[m]
    /\ HasJob(m, jobs') => HasJob(m, jobs)
    /\ \A j \in jobs : j.msg = m =>
           j \in jobs' /\ \A t \in targets : t.job = j.id => t \in targets'

LEMMA UntouchedAgrees ==
    ASSUME NEW m \in Message, Agrees(m), Untouched(m),
           removal'[Owner[m]] = "no" => removal[Owner[m]] = "no"
    PROVE  Agrees(m)'
<1>1. HasJob(m, jobs') <=> HasJob(m, jobs)
  BY DEF Untouched, HasJob
<1>2. Unstored(m)' /\ PlainStatus(m)' /\ PendingRow(m)'
  BY <1>1 DEF Agrees, Untouched, Unstored, NoRows, At, PlainStatus, PendingRow
<1>3. PendingTarget(m)'
  <2> SUFFICES ASSUME NEW p \in Person, NEW r \in Relay, copies'[m][p].relays[r] = "pending",
                      status'[m] # "absent"
               PROVE  \E j \in jobs' :
                          j.msg = m /\ [job |-> j.id, to |-> p, relay |-> r] \in targets'
    BY DEF PendingTarget, At
  <2>1. PICK j \in jobs : j.msg = m /\ [job |-> j.id, to |-> p, relay |-> r] \in targets
    BY DEF Agrees, PendingTarget, Untouched, At
  <2> QED
    BY <2>1 DEF Untouched
<1>4. QueuedJob(m)' /\ Quiescent(m)'
  BY <1>1 DEF Agrees, Untouched, QueuedJob, Quiescent
<1> QED
  BY <1>2, <1>3, <1>4 DEF Agrees

(* It leaves nothing to say of a message that is not there. *)
LEMMA AbsentAgrees ==
    ASSUME NEW m \in Message, status'[m] = "absent", Unstored(m)', PendingRow(m)'
    PROVE  Agrees(m)'
  BY DEF Agrees, PlainStatus, PendingTarget, QueuedJob, Quiescent

(* It enqueues a job for the message. *)
LEMMA EnqueuedAgrees ==
    ASSUME NEW m \in Message, Agrees(m), m \in Durable,
           copies'[m] = copies[m], jobs \subseteq jobs', targets \subseteq targets',
           HasJob(m, jobs'), removal'[Owner[m]] # "no" \/ status[m] # "absent",
           status'[m] = "absent" <=> status[m] = "absent"
    PROVE  Agrees(m)'
<1>1. Unstored(m)' /\ PlainStatus(m)' /\ QueuedJob(m)' /\ Quiescent(m)'
  BY DEF Unstored, PlainStatus, QueuedJob, Quiescent
<1>2. PendingRow(m)'
  BY DEF Agrees, PendingRow, At
<1>3. PendingTarget(m)'
  BY DEF Agrees, PendingTarget, At
<1> QED
  BY <1>1, <1>2, <1>3 DEF Agrees

(* It writes rows that exist: a message that is not there stays empty. *)
LEMMA UnstoredStays ==
    ASSUME NEW m \in Message, Unstored(m), jobs' \subseteq jobs,
           removal'[Owner[m]] = "no" => removal[Owner[m]] = "no",
           status'[m] = "absent" => status[m] = "absent",
           \A p \in Person :
               /\ copies'[m][p].row => copies[m][p].row
               /\ \A r \in Relay : ~ copies[m][p].row /\ At(m, p, r) = "none" =>
                      copies'[m][p].relays[r] = "none"
    PROVE  Unstored(m)'
  BY DEF Unstored, HasJob, NoRows, At

(* It tries no relay, and drops no target that is pending. *)
LEMMA PendingStays ==
    ASSUME NEW m \in Message, PendingTarget(m),
           status'[m] = "absent" \/ status[m] # "absent",
           \A p \in Person, r \in Relay : copies'[m][p].relays[r] = "pending" =>
               /\ At(m, p, r) = "pending"
               /\ \A j \in jobs : j.msg = m /\ [job |-> j.id, to |-> p, relay |-> r] \in targets =>
                      j \in jobs' /\ [job |-> j.id, to |-> p, relay |-> r] \in targets'
    PROVE  PendingTarget(m)'
<1> SUFFICES ASSUME NEW p \in Person, NEW r \in Relay, copies'[m][p].relays[r] = "pending",
                    status'[m] # "absent"
             PROVE  \E j \in jobs' :
                        j.msg = m /\ [job |-> j.id, to |-> p, relay |-> r] \in targets'
  BY DEF PendingTarget, At
<1>1. PICK j \in jobs : j.msg = m /\ [job |-> j.id, to |-> p, relay |-> r] \in targets
  BY DEF PendingTarget
<1> QED
  BY <1>1

(* It recomputes the status: queued then means a pending relay or a job.   *)
LEMMA RecomputedAgrees ==
    ASSUME TypeInv', NEW m \in Message, m \in Durable,
           status'[m] = RecomputedStatus(m, copies', jobs'),
           Unstored(m)', PendingRow(m)', PendingTarget(m)'
    PROVE  Agrees(m)'
<1> DEFINE rows == CopyRows(copies'[m])
<1>1. CASE status[m] \in {"absent", "sent"}
  BY <1>1 DEF RecomputedStatus, Agrees, PlainStatus, QueuedJob, Quiescent
<1>2. CASE status[m] \notin {"absent", "sent"}
  <2>1. status'[m] = MessageDeliveryVerdict(rows, HasJob(m, jobs'))
    BY <1>2 DEF RecomputedStatus
  <2>2. QueuedJob(m)'
    <3> SUFFICES ASSUME status'[m] = "queued", ~ HasJob(m, jobs') PROVE FALSE
      BY DEF QueuedJob
    <3>1. PICK row \in rows : DeliveryCopyVerdict(row.relays) = "pending"
      <4> HIDE DEF rows
      <4> QED
        BY <2>1 DEF MessageDeliveryVerdict
    <3>2. PICK p \in Person : row = copies'[m][p]
      BY DEF CopyRows
    <3>3. WithEntry(row.relays, "pending") # {}
      BY <3>1 DEF DeliveryCopyVerdict
    <3>4. row.relays \in [Relay -> Entry]
      BY <3>2 DEF TypeInv, DatabaseType, Copy
    <3>5. PICK r \in Relay : row.relays[r] = "pending"
      BY <3>3, <3>4 DEF WithEntry
    <3>6. \E j \in jobs' : j.msg = m
      BY <3>2, <3>5 DEF PendingTarget, At
    <3> QED
      BY <3>6 DEF HasJob
  <2>3. Quiescent(m)'
    <3> HIDE DEF rows
    <3>1. ~ HasJob(m, jobs') => status'[m] = MessageDeliveryVerdict(rows, FALSE)
      BY <2>1 DEF MessageDeliveryVerdict
    <3> QED
      BY <3>1 DEF Quiescent, rows
  <2> QED
    BY <2>2, <2>3 DEF Agrees, PlainStatus
<1> QED
  BY <1>1, <1>2

(* A message that is not durable has no copies, hence nothing pending. *)
LEMMA PlainAgrees ==
    ASSUME OnlyDurable, NEW m \in Message, m \notin Durable, Agrees(m), jobs' \subseteq jobs,
           status'[m] = status[m], copies'[m] = copies[m],
           removal'[Owner[m]] = "no" => removal[Owner[m]] = "no"
    PROVE  Agrees(m)'
<1>1. Unstored(m)' /\ PlainStatus(m)' /\ PendingRow(m)'
  BY DEF Agrees, Unstored, HasJob, NoRows, At, PlainStatus, PendingRow
<1>2. \A p \in Person, r \in Relay : copies'[m][p].relays[r] # "pending"
  BY DEF Agrees, PendingRow, At, OnlyDurable
<1>3. PendingTarget(m)' /\ QueuedJob(m)' /\ Quiescent(m)'
  BY <1>1, <1>2 DEF PendingTarget, At, PlainStatus, QueuedJob, Quiescent
<1> QED
  BY <1>1, <1>3 DEF Agrees

(* It leaves the rows of other messages than the worker's alone. *)
JobOnly ==
    /\ \A n \in Message : n # job.msg =>
           /\ status'[n] = status[n] /\ deliveryError'[n] = deliveryError[n]
           /\ copies'[n] = copies[n]
    /\ jobs' \subseteq jobs
    /\ \A j \in jobs : j.id # job.id => j \in jobs'
    /\ \A t \in targets : t.job # job.id => t \in targets'

LEMMA OthersAgree ==
    ASSUME LinkInv, Working, JobOnly, removal' = removal,
           NEW n \in Message, n # job.msg, Agrees(n)
    PROVE  Agrees(n)'
<1>1. ASSUME NEW j \in jobs, j.msg = n PROVE j.id # job.id
  BY <1>1 DEF LinkInv, JobIdentity
<1>2. Untouched(n)
  BY <1>1 DEF JobOnly, Untouched, HasJob
<1> QED
  BY <1>2, UntouchedAgrees

-----------------------------------------------------------------------------
(* The steps of the user, the environment and the removal.                 *)

LEMMA Enqueues ==
    ASSUME NEW m, NEW row, row.msg = m, jobs' = jobs \cup {row}
    PROVE  jobs \subseteq jobs' /\ HasJob(m, jobs') /\ \A j \in jobs' : j \in jobs \/ j.msg = m
  BY DEF HasJob

LEMMA AgreeUser ==
    ASSUME TypeInv, EntryInv, \A m \in Message : Agrees(m), User, NEW n \in Message
    PROVE  Agrees(n)'
<1>1. ASSUME NEW m \in Message, NEW enqueueRelay \in BOOLEAN, StoreRumor(m, enqueueRelay)
      PROVE  Agrees(n)'
  <2>1. /\ removal' = removal /\ copies' = copies /\ deliveryError' = deliveryError
        /\ targets' = targets /\ jobs \subseteq jobs' /\ \A j \in jobs' : j \in jobs \/ j.msg = m
        /\ status[m] = "absent" /\ removal[Owner[m]] = "no"
    BY <1>1 DEF StoreRumor, process
  <2>2. status' = [status EXCEPT ![m] = IF enqueueRelay /\ m \in Durable THEN "queued" ELSE "none"]
    BY <1>1 DEF StoreRumor
  <2>3. CASE n # m
    <3>1. Untouched(n)
      BY <2>1, <2>2, <2>3 DEF Untouched, HasJob, TypeInv, DatabaseType
    <3> QED
      BY <2>1, <3>1, UntouchedAgrees
  <2>4. CASE n = m
    <3>1. status'[n] = IF enqueueRelay /\ n \in Durable THEN "queued" ELSE "none"
      BY <2>2, <2>4 DEF TypeInv, DatabaseType
    <3>2. enqueueRelay => HasJob(n, jobs')
      <4> DEFINE row == [id |-> nextId, msg |-> m, scope |-> "all_recipient_relays", to |-> {}]
      <4>1. enqueueRelay => jobs' = jobs \cup {row}
        BY <1>1 DEF StoreRumor
      <4>2. row.msg = m
        OBVIOUS
      <4> HIDE DEF row
      <4> QED
        BY <2>4, <4>1, <4>2, Enqueues
    <3>3. \A p \in Person, r \in Relay : At(n, p, r) = "none"
      BY <2>1, <2>4 DEF Agrees, Unstored
    <3>4. PendingRow(n)' /\ PendingTarget(n)'
      BY <2>1, <3>3 DEF PendingRow, PendingTarget, At
    <3>5. Unstored(n)' /\ PlainStatus(n)' /\ QueuedJob(n)' /\ Quiescent(n)'
      BY <3>1, <3>2 DEF Unstored, PlainStatus, QueuedJob, Quiescent
    <3> QED
      BY <3>4, <3>5 DEF Agrees
  <2> QED
    BY <2>3, <2>4
<1>2. ASSUME NEW m \in Message, NEW scope, EnqueueAll(m, scope) PROVE Agrees(n)'
  <2>1. removal' = removal /\ copies' = copies /\ m \in Durable /\ status[m] # "absent"
        /\ targets' = targets
    BY <1>2 DEF EnqueueAll, process, database
  <2>2. CASE UNCHANGED database
    BY <2>1, <2>2, UntouchedAgrees DEF Untouched, database
  <2>3. CASE ~ UNCHANGED database
    <3> DEFINE row == [id |-> nextId, msg |-> m, scope |-> scope, to |-> {}]
    <3>0. row.msg = m
      OBVIOUS
    <3>1. /\ jobs' = jobs \cup {row}
          /\ MarkQueued(m) \/ UNCHANGED <<status, deliveryError>>
      BY <1>2, <2>3 DEF EnqueueAll
    <3>2. jobs \subseteq jobs' /\ HasJob(m, jobs') /\ \A j \in jobs' : j \in jobs \/ j.msg = m
      <4> HIDE DEF row
      <4> QED
        BY <3>0, <3>1, Enqueues
    <3>3. CASE n # m
      <4>1. Untouched(n)
        BY <2>1, <3>1, <3>2, <3>3 DEF Untouched, HasJob, MarkQueued, TypeInv, DatabaseType
      <4> QED
        BY <2>1, <4>1, UntouchedAgrees
    <3>4. CASE n = m
      <4>1. status'[m] # "absent"
        BY <2>1, <3>1 DEF MarkQueued, TypeInv, DatabaseType
      <4> QED
        BY <2>1, <3>2, <3>4, <4>1, EnqueuedAgrees
    <3> QED
      BY <3>3, <3>4
  <2> QED
    BY <2>2, <2>3
<1>3. ASSUME NEW m \in Message, NEW p \in Person, NEW requested,
             EnqueueRetryTargets(m, p, requested)
      PROVE  Agrees(n)'
  <2>1. removal' = removal /\ copies' = copies /\ copies[m][p].row
    BY <1>3 DEF EnqueueRetryTargets, process, database
  <2>2. CASE UNCHANGED database
    BY <2>1, <2>2, UntouchedAgrees DEF Untouched, database
  <2>3. CASE ~ UNCHANGED database
    <3> DEFINE row == [id |-> nextId, msg |-> m, scope |-> "selected_copy", to |-> {p}]
    <3>0. row.msg = m
      OBVIOUS
    <3>1. /\ jobs' = jobs \cup {row}
          /\ targets \subseteq targets'
          /\ (status[m] # "absent" /\ MarkQueued(m)) \/ UNCHANGED <<status, deliveryError>>
      BY <1>3, <2>3 DEF EnqueueRetryTargets, database
    <3>2. jobs \subseteq jobs' /\ HasJob(m, jobs') /\ \A j \in jobs' : j \in jobs \/ j.msg = m
      <4> HIDE DEF row
      <4> QED
        BY <3>0, <3>1, Enqueues
    <3>3. CASE n # m
      <4>1. Untouched(n)
        BY <2>1, <3>1, <3>2, <3>3 DEF Untouched, HasJob, MarkQueued, TypeInv, DatabaseType
      <4> QED
        BY <2>1, <4>1, UntouchedAgrees
    <3>4. CASE n = m
      <4>1. status'[m] = "absent" <=> status[m] = "absent"
        BY <3>1 DEF MarkQueued, TypeInv, DatabaseType
      <4>2. m \in Durable
        BY <2>1 DEF EntryInv, OnlyDurable
      <4>3. removal'[Owner[m]] # "no" \/ status[m] # "absent"
        BY <2>1 DEF Agrees, Unstored, NoRows
      <4> QED
        BY <2>1, <3>1, <3>2, <3>4, <4>1, <4>2, <4>3, EnqueuedAgrees
    <3> QED
      BY <3>3, <3>4
  <2> QED
    BY <2>2, <2>3
<1> QED
  BY <1>1, <1>2, <1>3 DEF User

LEMMA AgreeUnchanged ==
    ASSUME TypeInv, [Next]_vars, UNCHANGED <<status, deliveryError, copies, jobs, targets>>,
           NEW n \in Message, Agrees(n)
    PROVE  Agrees(n)'
<1>1. Untouched(n)
  BY DEF Untouched
<1>2. Owner[n] \in Account
  BY OutboxConstants DEF OutboxConstants
<1> QED
  BY <1>1, <1>2, UntouchedAgrees, RemovalGoesOn

LEMMA AgreeRemoval ==
    ASSUME TypeInv, OrderInv, StageInv, Removal, NEW n \in Message, Agrees(n)
    PROVE  Agrees(n)'
<1>1. Owner[n] \in Account
  BY OutboxConstants DEF OutboxConstants
<1>2. removal'[Owner[n]] = "no" => removal[Owner[n]] = "no"
  BY <1>1, RemovalGoesOn DEF Next
<1>3. PICK a \in Account : WaitForIdle(a) \/ DeleteAccountData(a)
  BY DEF Removal
<1>4. CASE UNCHANGED database
  BY <1>2, <1>4, UntouchedAgrees DEF Untouched, database
<1>5. CASE ~ UNCHANGED database
  <2>1. DeleteAccountData(a)
    BY <1>3, <1>5 DEF WaitForIdle
  <2>2. CASE Owner[n] # a
    <3>1. /\ UNCHANGED <<jobs, targets>> \/ DeleteJobRows({j.id : j \in AccountJobs(a)})
          /\ status'[n] = status[n] /\ deliveryError'[n] = deliveryError[n]
          /\ copies'[n] = copies[n]
      BY <2>1, <2>2 DEF DeleteAccountData, TypeInv, DatabaseType
    <3>2. ASSUME NEW j \in jobs, j.msg = n PROVE j.id \notin {k.id : k \in AccountJobs(a)}
      BY <2>2, <3>2 DEF AccountJobs, OrderInv, IdsAreFresh
    <3>3. Untouched(n)
      BY <3>1, <3>2 DEF DeleteJobRows, Untouched, HasJob
    <3> QED
      BY <1>2, <3>3, UntouchedAgrees
  <2>3. CASE Owner[n] = a
    <3>1. status'[n] = "absent"
      BY <2>1, <2>3 DEF DeleteAccountData, StageInv
    <3>2. removal'[a] \in {"copies", "jobs", "done"}
      BY <2>1 DEF DeleteAccountData, TypeInv, ProcessType
    <3>3. copies'[n] = copies[n] \/ copies'[n] = [p \in Person |-> NoCopy]
      BY <2>1 DEF DeleteAccountData
    <3>4. \A r \in Relay : NoCopy.relays[r] = "none"
      BY DEF NoCopy
    <3>5. PendingRow(n)'
      <4> HIDE DEF NoCopy
      <4> QED
        BY <3>3, <3>4 DEF Agrees, PendingRow, At
    <3>6. Unstored(n)'
      BY <2>3, <3>2 DEF Unstored
    <3> QED
      BY <3>1, <3>5, <3>6, AbsentAgrees
  <2> QED
    BY <2>2, <2>3
<1> QED
  BY <1>4, <1>5

-----------------------------------------------------------------------------
(* The steps of the worker.                                                *)

(* A deleted job takes only its own targets with it. *)
LEMMA DeletesJobOnly ==
    ASSUME DeleteJobRows({job.id}),
           \A n \in Message : n # job.msg =>
               /\ status'[n] = status[n] /\ deliveryError'[n] = deliveryError[n]
               /\ copies'[n] = copies[n]
    PROVE  JobOnly
  BY DEF JobOnly, DeleteJobRows

(* Recomputing the status writes no other message. *)
LEMMA RecomputesOne ==
    ASSUME TypeInv, NEW m \in Message, RecomputeMessageStatus(m)
    PROVE  /\ status'[m] = RecomputedStatus(m, copies', jobs')
           /\ status'[m] = "absent" => status[m] = "absent"
           /\ status[m] = "absent" => status'[m] = "absent"
           /\ \A n \in Message : n # m =>
                  status'[n] = status[n] /\ deliveryError'[n] = deliveryError[n]
<1>1. /\ status'[m] = RecomputedStatus(m, copies', jobs')
      /\ \A n \in Message : n # m =>
             status'[n] = status[n] /\ deliveryError'[n] = deliveryError[n]
  BY DEF RecomputeMessageStatus, TypeInv, DatabaseType
<1>2. \A rows, unfinished : MessageDeliveryVerdict(rows, unfinished) # "absent"
  BY DEF MessageDeliveryVerdict
<1>3. status'[m] = "absent" <=> status[m] = "absent"
  BY <1>1, <1>2 DEF RecomputedStatus
<1> QED
  BY <1>1, <1>3

LEMMA AgreeLoad ==
    ASSUME TypeInv, OrderInv, LinkInv, LoadJob, NEW n \in Message, Agrees(n)
    PROVE  Agrees(n)'
<1>1. /\ UNCHANGED <<status, deliveryError, copies, removal>> /\ Working
      /\ \/ UNCHANGED <<jobs, targets>>
         \/ status[job.msg] = "absent" /\ DeleteJobRows({job.id})
  BY DEF LoadJob, process, Working
<1>2. CASE UNCHANGED <<jobs, targets>>
  BY <1>1, <1>2, AgreeUnchanged DEF Next, Worker
<1>3. CASE status[job.msg] = "absent" /\ DeleteJobRows({job.id})
  <2>1. JobOnly
    BY <1>1, <1>3, DeletesJobOnly
  <2>2. CASE n = job.msg
    <3>1. Unstored(n)' /\ PendingRow(n)'
      BY <1>1, <2>1 DEF JobOnly, Agrees, Unstored, HasJob, NoRows, PendingRow, At
    <3> QED
      BY <1>1, <1>3, <2>2, <3>1, AbsentAgrees
  <2> QED
    BY <1>1, <2>1, <2>2, OthersAgree
<1> QED
  BY <1>1, <1>2, <1>3

(* The message of the job gets copies, and what they try gets targets.     *)
LEMMA AgreePrepare ==
    ASSUME TypeInv, TypeInv', OrderInv, RemovalInv, EntryInv, HoldInv, PrepareAllTargets,
           NEW n \in Message, Agrees(n)
    PROVE  Agrees(n)'
<1>1. /\ UNCHANGED <<jobs, removal>> /\ pc = "resolve" /\ Working /\ job.msg \in Message
  BY PrepareShape, HeldJob DEF Working
<1>2. CASE UNCHANGED <<copies, status, deliveryError, targets>>
  BY <1>1, <1>2, AgreeUnchanged DEF Next, Worker
<1>3. ASSUME NEW resolved \in [Recipients -> RelayLists],
             CommitTargets(resolved), Prepares(resolved)
      PROVE  Agrees(n)'
  <2>1. targets \subseteq targets'
    BY <1>3 DEF Prepares
  <2>2. /\ \A m \in Message : m # job.msg => status'[m] = status[m]
        /\ \A m \in Message : m # job.msg => deliveryError'[m] = deliveryError[m]
    BY <1>1, <1>3 DEF CommitTargets, TypeInv, DatabaseType
  <2>3. CASE n # job.msg
    <3>1. Untouched(n)
      BY <1>1, <1>3, <2>1, <2>2, <2>3 DEF Untouched, Prepares, OthersKept
    <3> QED
      BY <1>1, <3>1, UntouchedAgrees
  <2>4. CASE n = job.msg /\ n \notin Durable
    <3>1. UNCHANGED <<copies, status, deliveryError>>
      BY <1>3, <2>4 DEF CommitTargets, IsDurable
    <3> QED
      BY <1>1, <2>4, <3>1, PlainAgrees DEF EntryInv
  <2>5. CASE n = job.msg /\ n \in Durable
    <3>1. /\ status'[n] = RecomputedStatus(n, copies', jobs')
      BY <1>1, <1>3, <2>5 DEF CommitTargets, IsDurable, TypeInv, DatabaseType
    <3>2. status'[n] = "absent" => status[n] = "absent"
      BY <3>1 DEF RecomputedStatus, MessageDeliveryVerdict
    <3>3. Unstored(n)'
      <4>1. removal[Owner[n]] = "no" => status[n] # "absent"
        <5>1. CASE job \in jobs
          BY <2>5, <5>1 DEF Agrees, Unstored, HasJob
        <5>2. CASE job \notin jobs
          BY <1>1, <2>5, <5>2 DEF HoldInv, JobPresent
        <5> QED
          BY <5>1, <5>2
      <4> QED
        BY <1>1, <3>2, <4>1 DEF Unstored
    <3>4. ASSUME NEW p \in Person
          PROVE  SameCopy(n, p) \/ (p \in Recipients /\ CopyBegins(n, p, resolved[p]))
      BY <1>3, <2>5 DEF Prepares
    <3>5. PendingRow(n)'
      BY <3>4 DEF Agrees, PendingRow, SameCopy, CopyBegins, At
    <3>6. PendingTarget(n)'
      <4> SUFFICES ASSUME NEW p \in Person, NEW r \in Relay, copies'[n][p].relays[r] = "pending",
                          status'[n] # "absent"
                   PROVE  \E j \in jobs' :
                              j.msg = n /\ [job |-> j.id, to |-> p, relay |-> r] \in targets'
        BY DEF PendingTarget, At
      <4>1. CASE At(n, p, r) = "pending" /\ status[n] # "absent"
        BY <1>1, <2>1, <4>1 DEF Agrees, PendingTarget
      <4>2. CASE At(n, p, r) # "pending"
        <5>1. p \in Recipients /\ r \in resolved[p]
          BY <3>4, <4>2 DEF SameCopy, CopyBegins, At
        <5> QED
          BY <1>1, <1>3, <2>5, <5>1 DEF Prepares
      <4>3. status[n] = "absent" => status'[n] = "absent"
        BY <3>1 DEF RecomputedStatus
      <4> QED
        BY <4>1, <4>2, <4>3
    <3> QED
      BY <2>5, <3>1, <3>3, <3>5, <3>6, RecomputedAgrees
  <2> QED
    BY <2>3, <2>4, <2>5
<1> QED
  BY <1>2, <1>3, PrepareCopies

LEMMA AgreeFinish ==
    ASSUME TypeInv, TypeInv', OrderInv, LinkInv, EntryInv, HoldInv, FinishEmptyJob,
           NEW n \in Message, Agrees(n)
    PROVE  Agrees(n)'
<1>1. /\ UNCHANGED <<copies, removal>> /\ Working /\ job.msg \in Message
      /\ DeleteJobRows({job.id}) /\ pc = "finish"
  BY HeldJob DEF FinishEmptyJob, process, Working
<1>2. IF IsDurable THEN RecomputeMessageStatus(job.msg) ELSE UNCHANGED <<status, deliveryError>>
  BY DEF FinishEmptyJob
<1>3. JobOnly
  BY <1>1, <1>2, RecomputesOne, DeletesJobOnly
<1>4. CASE n # job.msg
  BY <1>1, <1>3, <1>4, OthersAgree
<1>5. CASE n = job.msg /\ n \notin Durable
  BY <1>1, <1>2, <1>3, <1>5, PlainAgrees DEF EntryInv, IsDurable, JobOnly
<1>6. CASE n = job.msg /\ n \in Durable
  <2>1. RecomputeMessageStatus(n)
    BY <1>2, <1>6 DEF IsDurable
  <2>2. Unstored(n)'
    BY <1>1, <1>3, <2>1, RecomputesOne, UnstoredStays DEF Agrees, JobOnly, At
  <2>3. PendingRow(n)'
    BY <1>1 DEF Agrees, PendingRow, At
  <2>4. PendingTarget(n)'
    <3>1. \A t \in targets : t.job # job.id
      BY <1>1 DEF HoldInv, NothingLeft, JobTargets
    <3>2. targets' = targets /\ \A j \in jobs, t \in targets : t.job = j.id => j \in jobs'
      BY <1>1, <3>1 DEF DeleteJobRows
    <3> QED
      BY <1>1, <2>1, <3>2, RecomputesOne, PendingStays DEF Agrees, At
  <2> QED
    BY <1>6, <2>1, <2>2, <2>3, <2>4, RecomputesOne, RecomputedAgrees
<1> QED
  BY <1>4, <1>5, <1>6

(* A skipped target is acknowledged, so that no pending entry loses it.    *)
LEMMA AgreeSkip ==
    ASSUME TypeInv, TypeInv', OrderInv, StageInv, LinkInv, EntryInv, HoldInv,
           NEW t \in skipping, SkipTarget(t), NEW n \in Message, Agrees(n)
    PROVE  Agrees(n)'
<1>1. /\ UNCHANGED <<copies, removal>> /\ Working /\ job.msg \in Message /\ pc = "skip"
      /\ RemoveTargetRow(t) /\ RecomputeMessageStatus(job.msg)
  BY HeldJob DEF SkipTarget, process, Working
<1>2. t.job = job.id /\ job.msg \in Durable
  BY <1>1 DEF OrderInv, WorkerOnOldest, EntryInv, SkippedDurable
<1>3. JobOnly
  BY <1>1, <1>2, RecomputesOne DEF RemoveTargetRow, JobOnly
<1>4. CASE n # job.msg
  BY <1>1, <1>3, <1>4, OthersAgree
<1>5. CASE n = job.msg
  <2>1. Unstored(n)'
    BY <1>1, <1>3, <1>5, RecomputesOne, UnstoredStays DEF Agrees, JobOnly, At
  <2>2. PendingRow(n)'
    BY <1>1 DEF Agrees, PendingRow, At
  <2>3. PendingTarget(n)'
    <3>1. status'[n] = "absent" \/ At(n, t.to, t.relay) = "ok"
      <4>1. Owner[n] \in Account
        BY OutboxConstants DEF OutboxConstants
      <4> QED
        BY <1>1, <1>5, <4>1, RecomputesOne DEF HoldInv, SkippedIsOk, StageInv
    <3>2. CASE status'[n] = "absent"
      BY <3>2 DEF PendingTarget
    <3>3. CASE At(n, t.to, t.relay) = "ok"
      <4>1. ASSUME NEW p \in Person, NEW r \in Relay, At(n, p, r) = "pending",
                   NEW j \in jobs, [job |-> j.id, to |-> p, relay |-> r] \in targets
            PROVE  j \in jobs' /\ [job |-> j.id, to |-> p, relay |-> r] \in targets'
        <5> DEFINE u == [job |-> j.id, to |-> p, relay |-> r]
        <5>1. u.job = j.id /\ u.to = p /\ u.relay = r
          OBVIOUS
        <5> HIDE DEF u
        <5>2. u # t /\ u \in targets
          BY <3>3, <4>1, <5>1 DEF u
        <5>3. u \in targets \ {t} /\ j \in jobs'
          BY <1>1, <5>1, <5>2 DEF RemoveTargetRow
        <5> QED
          BY <1>1, <5>3 DEF RemoveTargetRow, u
      <4> QED
        BY <1>1, <1>5, <4>1, RecomputesOne, PendingStays DEF Agrees, At
    <3> QED
      BY <3>1, <3>2, <3>3
  <2> QED
    BY <1>1, <1>2, <1>5, <2>1, <2>2, <2>3, RecomputesOne, RecomputedAgrees
<1> QED
  BY <1>4, <1>5

(* A recipient that cannot be wrapped loses entries and targets together.  *)
LEMMA AgreeFail ==
    ASSUME TypeInv, TypeInv', OrderInv, LinkInv, EntryInv, HoldInv,
           NEW p \in unready, FailRecipient(p), NEW n \in Message, Agrees(n)
    PROVE  Agrees(n)'
<1>1. /\ jobs' = jobs /\ Working /\ job.msg \in Message /\ p \in Person
      /\ pc = "seal" /\ targets' \subseteq targets
  BY FailShape, HeldJob DEF Working, TypeInv, LocalsType
<1>2. removal' = removal
  BY DEF FailRecipient, process
<1>3. CASE ~ CanRun
  <2>1. UNCHANGED <<status, deliveryError, copies, jobs, targets>>
    BY <1>3 DEF FailRecipient
  <2> QED
    BY <2>1, AgreeUnchanged DEF Next, Worker
<1>4. CASE CanRun
  <2>1. targets' = {t \in targets : ~ (t.job = job.id /\ t.to = p)}
    BY <1>4 DEF FailRecipient, JobTargets
  <2>2. IF IsDurable THEN RecomputeMessageStatus(job.msg)
        ELSE UNCHANGED <<copies, status, deliveryError>>
    BY <1>4 DEF FailRecipient
  <2>3. OthersKept(job.msg)
    BY <1>1, FailCopies
  <2>4. JobOnly
    BY <1>1, <2>1, <2>2, <2>3, RecomputesOne DEF JobOnly, OthersKept
  <2>5. CASE n # job.msg
    BY <1>1, <1>2, <2>4, <2>5, OthersAgree
  <2>6. CASE n = job.msg /\ n \notin Durable
    BY <1>1, <1>2, <2>2, <2>6, PlainAgrees DEF EntryInv, IsDurable
  <2>7. CASE n = job.msg /\ n \in Durable
    <3>1. RecomputeMessageStatus(n)
      BY <2>2, <2>7 DEF IsDurable
    <3>2. ASSUME NEW q \in Person
          PROVE  /\ (SameCopy(n, q) /\ q # p) \/ (q = p /\ CopyDrops(n, p, JobRelays(p)))
                 /\ copies'[n][q].row = copies[n][q].row
      BY <1>4, <2>7, FailCopies DEF IsDurable, SameCopy
    <3>3. Unstored(n)'
      BY <1>1, <1>2, <3>1, <3>2, RecomputesOne, UnstoredStays
         DEF Agrees, SameCopy, CopyDrops, At
    <3>4. PendingRow(n)'
      BY <3>2 DEF Agrees, PendingRow, SameCopy, CopyDrops, At
    <3>5. PendingTarget(n)'
      <4>1. ASSUME NEW q \in Person, NEW r \in Relay, copies'[n][q].relays[r] = "pending"
            PROVE  /\ At(n, q, r) = "pending"
                   /\ ~ (q = p /\ r \in JobRelays(p))
        BY <3>2, <4>1 DEF Agrees, PendingRow, SameCopy, CopyDrops, At
      <4>2. ASSUME NEW q \in Person, NEW r \in Relay, ~ (q = p /\ r \in JobRelays(p)),
                   NEW j \in jobs, [job |-> j.id, to |-> q, relay |-> r] \in targets
            PROVE  [job |-> j.id, to |-> q, relay |-> r] \in targets'
        <5> DEFINE u == [job |-> j.id, to |-> q, relay |-> r]
        <5>1. u.job = j.id /\ u.to = q /\ u.relay = r
          OBVIOUS
        <5> HIDE DEF u
        <5>2. u \in targets
          BY <4>2 DEF u
        <5>3. ~ (u.job = job.id /\ u.to = p)
          BY <4>2, <5>1, <5>2 DEF JobRelays, JobTargets
        <5> QED
          BY <2>1, <5>2, <5>3 DEF u
      <4> QED
        BY <1>1, <3>1, <4>1, <4>2, RecomputesOne, PendingStays DEF Agrees
    <3> QED
      BY <2>7, <3>1, <3>3, <3>4, <3>5, RecomputesOne, RecomputedAgrees
  <2> QED
    BY <2>5, <2>6, <2>7
<1> QED
  BY <1>3, <1>4

(* What is marked is a target of the job, which is there.                  *)
LEMMA AgreeMark ==
    ASSUME TypeInv, OrderInv, RemovalInv, WrapInv, LinkInv, HoldInv, MarkTargetsPending,
           NEW n \in Message, Agrees(n)
    PROVE  Agrees(n)'
<1>1. /\ UNCHANGED <<status, deliveryError, jobs, targets>>
      /\ Working /\ job.msg \in Message /\ pc = "mark"
  BY MarkShape, HeldJob DEF Working
<1>2. removal' = removal
  BY Zenon DEF MarkTargetsPending, process
<1>3. OthersKept(job.msg) /\ \A p \in Person : Marks(p)
  BY MarkCopies
<1>4. CASE n # job.msg
  <2>1. Untouched(n)
    BY <1>1, <1>3, <1>4 DEF OthersKept, Untouched
  <2> QED
    BY <1>2, <2>1, UntouchedAgrees
<1>5. CASE n = job.msg
  <2>1. ASSUME NEW p \in Person
        PROVE  \/ SameCopy(n, p)
               \/ copies[n][p].row /\ CopyBegins(n, p, LocalRelays(p))
    BY <1>3, <1>5 DEF Marks
  <2>2. job \in jobs \/ (status[n] = "absent" /\ NoRows(n))
    <3>1. Owner[n] \in Account
      BY OutboxConstants DEF OutboxConstants
    <3> QED
      BY <1>1, <1>5, <3>1 DEF HoldInv, JobPresent, RemovalInv, StageInv
  <2>3. Unstored(n)'
    BY <1>1, <1>2, <2>1, UnstoredStays DEF Agrees, SameCopy, At
  <2>4. PlainStatus(n)' /\ QueuedJob(n)'
    BY <1>1 DEF Agrees, PlainStatus, QueuedJob
  <2>5. PendingRow(n)'
    BY <2>1 DEF Agrees, PendingRow, SameCopy, CopyBegins, At
  <2>6. Quiescent(n)'
    BY <1>1, <1>5, <2>2 DEF HasJob, Quiescent
  <2>7. PendingTarget(n)'
    <3> SUFFICES ASSUME NEW p \in Person, NEW r \in Relay, copies'[n][p].relays[r] = "pending",
                        status[n] # "absent"
                 PROVE  \E j \in jobs :
                            j.msg = n /\ [job |-> j.id, to |-> p, relay |-> r] \in targets
      BY <1>1 DEF PendingTarget, At
    <3>1. CASE At(n, p, r) = "pending"
      BY <3>1 DEF Agrees, PendingTarget
    <3>2. CASE At(n, p, r) # "pending"
      <4>1. r \in LocalRelays(p) /\ job \in jobs
        BY <2>1, <2>2, <3>2 DEF SameCopy, CopyBegins, At
      <4>2. PICK u \in local : u.to = p /\ u.relay = r
        BY <4>1 DEF LocalRelays
      <4>3. u \in targets /\ u.job = job.id /\ u \in Target
        BY <1>1, <4>1, <4>2 DEF WrapInv, WorkerWrap, JobTargets, TypeInv, DatabaseType
      <4>4. u = [job |-> job.id, to |-> p, relay |-> r]
        BY <4>2, <4>3 DEF Target
      <4> QED
        BY <1>5, <4>1, <4>3, <4>4
    <3> QED
      BY <3>1, <3>2
  <2> QED
    BY <2>3, <2>4, <2>5, <2>6, <2>7 DEF Agrees
<1> QED
  BY <1>4, <1>5

(* A settlement takes the entry that is pending along with its target.     *)
LEMMA AgreeSettle ==
    ASSUME TypeInv, TypeInv', OrderInv, LinkInv, EntryInv,
           NEW w \in writes, SettleTarget(w), NEW n \in Message, Agrees(n)
    PROVE  Agrees(n)'
<1>1. w.target \in Target /\ w.msg \in Message /\ jobs' \subseteq jobs
  BY SettleShape DEF TypeInv, PublishType
<1>2. removal' = removal
  BY DEF SettleTarget, process
<1>3. CASE w.target \notin targets
  <2>1. UNCHANGED <<status, deliveryError, copies, jobs, targets>>
    BY <1>3 DEF SettleTarget
  <2> QED
    BY <2>1, AgreeUnchanged DEF Next, Worker
<1>4. CASE w.target \in targets
  <2>1. RemoveTargetRow(w.target)
    BY <1>4 DEF SettleTarget
  <2>2. IF w.msg \in Durable THEN RecomputeMessageStatus(w.msg)
        ELSE UNCHANGED <<status, deliveryError>>
    BY <1>4 DEF SettleTarget
  <2>3. ASSUME NEW j \in jobs, NEW u \in targets, u.job = j.id, u # w.target
        PROVE  j \in jobs' /\ u \in targets'
    BY <2>1, <2>3 DEF RemoveTargetRow
  <2>4. CASE n # w.msg
    <3>1. \A j \in jobs : j.msg = n => j.id # w.target.job
      BY <2>4 DEF LinkInv, MessageOfTarget
    <3>2. \A j \in jobs : j.msg = n => j \in jobs'
      BY <2>1, <3>1 DEF RemoveTargetRow
    <3>3. /\ status'[n] = status[n] /\ deliveryError'[n] = deliveryError[n]
          /\ copies'[n] = copies[n]
      <4>1. copies'[n] = copies[n] \/ Person = {}
        BY <2>4, SettleCopies DEF OthersKept
      <4>2. Person # {}
        BY <1>1 DEF Target
      <4> QED
        BY <1>1, <2>2, <2>4, <4>1, <4>2, RecomputesOne
    <3>4. Untouched(n)
      BY <1>1, <2>3, <3>1, <3>2, <3>3 DEF Untouched, HasJob
    <3> QED
      BY <1>2, <3>4, UntouchedAgrees
  <2>5. CASE n = w.msg /\ n \notin Durable
    <3>1. copies' = copies
      BY <1>4, <2>5 DEF SettleTarget
    <3> QED
      BY <1>1, <1>2, <2>2, <2>5, <3>1, PlainAgrees DEF EntryInv
  <2>6. CASE n = w.msg /\ n \in Durable
    <3>1. RecomputeMessageStatus(n)
      BY <2>2, <2>6
    <3>2. ASSUME NEW p \in Person
          PROVE  /\ copies'[n][p].row = copies[n][p].row
                 /\ \A r \in Relay :
                        \/ copies'[n][p].relays[r] = At(n, p, r)
                           /\ ~ (Settles(w) /\ p = w.target.to /\ r = w.target.relay
                                 /\ At(n, p, r) = "pending")
                        \/ copies[n][p].row /\ copies'[n][p].relays[r] \in {"ok", "failed"}
      BY <2>6, SettleCopies DEF Settles
    <3>3. Unstored(n)'
      BY <1>1, <1>2, <3>1, <3>2, RecomputesOne, UnstoredStays DEF Agrees
    <3>4. PendingRow(n)'
      BY <3>2 DEF Agrees, PendingRow, At
    <3>5. PendingTarget(n)'
      <4>1. ASSUME NEW p \in Person, NEW r \in Relay, copies'[n][p].relays[r] = "pending",
                   NEW j \in jobs, [job |-> j.id, to |-> p, relay |-> r] \in targets
            PROVE  /\ j \in jobs' /\ [job |-> j.id, to |-> p, relay |-> r] \in targets'
        <5> DEFINE u == [job |-> j.id, to |-> p, relay |-> r]
        <5>1. u.job = j.id /\ u.to = p /\ u.relay = r
          OBVIOUS
        <5> HIDE DEF u
        <5>2. At(n, p, r) = "pending" /\ ~ (Settles(w) /\ p = w.target.to /\ r = w.target.relay)
          BY <3>2, <4>1
        <5>3. copies[n][p].row
          BY <5>2 DEF Agrees, PendingRow
        <5>4. u # w.target
          BY <1>4, <2>6, <5>1, <5>2, <5>3 DEF Settles
        <5> QED
          BY <2>3, <4>1, <5>1, <5>4 DEF u
      <4>2. \A p \in Person, r \in Relay :
                copies'[n][p].relays[r] = "pending" => At(n, p, r) = "pending"
        BY <3>2
      <4> QED
        BY <3>1, <4>1, <4>2, RecomputesOne, PendingStays DEF Agrees
    <3> QED
      BY <2>6, <3>1, <3>3, <3>4, <3>5, RecomputesOne, RecomputedAgrees
  <2> QED
    BY <2>4, <2>5, <2>6
<1> QED
  BY <1>3, <1>4

(* A job given up takes what was pending for it, and fails its message.    *)
LEMMA AgreeAbandon ==
    ASSUME TypeInv, OrderInv, LinkInv, EntryInv, HoldInv, AbandonJob,
           NEW n \in Message, Agrees(n)
    PROVE  Agrees(n)'
<1>1. /\ removal' = removal /\ Working /\ job.msg \in Message
      /\ DeleteJobRows({job.id}) /\ pc \in {"abandon", "abandonStrip"}
  BY HeldJob DEF AbandonJob, process, Working
<1>2. IF IsDurable /\ status[job.msg] \notin {"absent", "sent"}
      THEN /\ status' = [status EXCEPT
                  ![job.msg] = IF HasJob(job.msg, jobs') THEN "queued" ELSE "failed"]
           /\ deliveryError' = [deliveryError EXCEPT ![job.msg] = TRUE]
      ELSE UNCHANGED <<status, deliveryError>>
  BY DEF AbandonJob
<1>3. OthersKept(job.msg)
  <2>1. OthersKept(job.msg) \/ Person = {}
    BY AbandonCopies
  <2>2. Person # {}
    BY <1>1, OutboxConstants DEF OutboxConstants
  <2> QED
    BY <2>1, <2>2
<1>4. JobOnly
  BY <1>1, <1>2, <1>3, DeletesJobOnly DEF OthersKept, TypeInv, DatabaseType
<1>5. CASE n # job.msg
  BY <1>1, <1>4, <1>5, OthersAgree
<1>6. CASE n = job.msg /\ n \notin Durable
  <2>1. copies' = copies /\ status' = status
    BY <1>2, <1>6 DEF AbandonJob, IsDurable
  <2> QED
    BY <1>1, <1>4, <1>6, <2>1, PlainAgrees DEF EntryInv, JobOnly
<1>7. CASE n = job.msg /\ n \in Durable
  <2>1. \/ /\ status[n] \notin {"absent", "sent"}
           /\ status'[n] = IF HasJob(n, jobs') THEN "queued" ELSE "failed"
           /\ deliveryError'[n]
        \/ status[n] \in {"absent", "sent"} /\ status'[n] = status[n]
    BY <1>1, <1>2, <1>7 DEF IsDurable, TypeInv, DatabaseType
  <2>2. ASSUME NEW p \in Person
        PROVE  \/ SameCopy(n, p) /\ pc = "abandon"
               \/ CopyDrops(n, p, JobRelays(p))
    BY <1>1, <1>7, AbandonCopies DEF IsDurable
  <2>3. Unstored(n)'
    BY <1>1, <1>4, <2>1, <2>2, UnstoredStays DEF Agrees, JobOnly, SameCopy, CopyDrops, At
  <2>4. PendingRow(n)'
    BY <2>2 DEF Agrees, PendingRow, SameCopy, CopyDrops, At
  <2>5. PlainStatus(n)' /\ QueuedJob(n)' /\ Quiescent(n)'
    BY <1>7, <2>1 DEF PlainStatus, QueuedJob, Quiescent
  <2>6. PendingTarget(n)'
    <3>1. ASSUME NEW p \in Person, NEW r \in Relay, copies'[n][p].relays[r] = "pending"
          PROVE  /\ At(n, p, r) = "pending"
                 /\ pc = "abandon" \/ r \notin JobRelays(p)
      BY <2>2, <3>1 DEF Agrees, PendingRow, SameCopy, CopyDrops, At
    <3>2. ASSUME NEW p \in Person, NEW r \in Relay, pc = "abandon" \/ r \notin JobRelays(p),
                 NEW j \in jobs, [job |-> j.id, to |-> p, relay |-> r] \in targets
          PROVE  j \in jobs' /\ [job |-> j.id, to |-> p, relay |-> r] \in targets'
      <4> DEFINE u == [job |-> j.id, to |-> p, relay |-> r]
      <4>1. u.job = j.id /\ u.to = p /\ u.relay = r
        OBVIOUS
      <4> HIDE DEF u
      <4>2. u \in targets
        BY <3>2 DEF u
      <4>3. CASE pc = "abandon"
        BY <1>1, <4>1, <4>2, <4>3 DEF HoldInv, NothingLeft, JobTargets, DeleteJobRows, u
      <4>4. CASE r \notin JobRelays(p)
        <5>1. u.job # job.id
          BY <4>1, <4>2, <4>4 DEF JobRelays, JobTargets
        <5> QED
          BY <1>1, <4>1, <4>2, <5>1 DEF DeleteJobRows, u
      <4> QED
        BY <3>2, <4>3, <4>4
    <3>3. status'[n] = "absent" \/ status[n] # "absent"
      BY <2>1
    <3> QED
      BY <3>1, <3>2, <3>3, PendingStays DEF Agrees
  <2> QED
    BY <2>3, <2>4, <2>5, <2>6 DEF Agrees
<1> QED
  BY <1>5, <1>6, <1>7

LEMMA AgreeWorker ==
    ASSUME BaseInv, TypeInv', WrapInv, LinkInv, EntryInv, HoldInv, Worker,
           NEW n \in Message, Agrees(n)
    PROVE  Agrees(n)'
<1> USE DEF BaseInv, RemovalInv
<1>1. CASE LoadJob \/ PrepareAllTargets \/ FinishEmptyJob
  BY <1>1, AgreeLoad, AgreePrepare, AgreeFinish
<1>2. CASE MarkTargetsPending \/ AbandonJob
  BY <1>2, AgreeMark, AgreeAbandon
<1>3. ASSUME NEW t \in skipping, SkipTarget(t) PROVE Agrees(n)'
  BY <1>3, AgreeSkip
<1>4. ASSUME NEW p \in unready, FailRecipient(p) PROVE Agrees(n)'
  BY <1>4, AgreeFail
<1>5. ASSUME NEW w \in writes, SettleTarget(w) PROVE Agrees(n)'
  BY <1>5, AgreeSettle
<1>6. CASE \/ NextJob \/ DrainEnded \/ FindSuccessful \/ SkipDone \/ StartWrap \/ WrapDone
           \/ (\E p \in unready : StorePayload(p)) \/ StartPublish \/ PublishDone
           \/ \E t \in inflight, ok \in BOOLEAN : RelayAnswers(t, ok)
  <2>1. UNCHANGED <<status, deliveryError, copies, jobs, targets>>
    BY <1>6 DEF database, NextJob, DrainEnded, FindSuccessful, SkipDone, StartWrap, WrapDone,
                StorePayload, StartPublish, PublishDone, RelayAnswers
  <2> QED
    BY <2>1, AgreeUnchanged DEF Next
<1> QED
  BY <1>1, <1>2, <1>3, <1>4, <1>5, <1>6 DEF Worker

LEMMA RowStep ==
    ASSUME ~ SettleFaults PROVE EarlierInv /\ RowInv /\ [Next]_vars => RowInv'
<1> SUFFICES ASSUME EarlierInv, RowInv, [Next]_vars PROVE RowInv'
  OBVIOUS
<1> USE DEF EarlierInv
<1>1. HoldInv'
  BY HoldStep DEF RowInv
<1>2. TypeInv'
  BY TypeStep DEF BaseInv
<1>3. ASSUME NEW n \in Message PROVE Agrees(n)'
  <2>1. Agrees(n)
    BY DEF RowInv
  <2>2. CASE User
    BY <2>2, AgreeUser DEF RowInv, BaseInv
  <2>3. CASE Removal
    BY <2>1, <2>3, AgreeRemoval DEF BaseInv, RemovalInv
  <2>4. CASE Worker
    BY <1>2, <2>1, <2>4, AgreeWorker DEF RowInv
  <2>5. CASE Environment \/ Faults \/ UNCHANGED vars
    <3>1. UNCHANGED database
      BY <2>5, EnvironmentMoves, FaultMoves DEF vars
    <3>2. UNCHANGED <<status, deliveryError, copies, jobs, targets>>
      BY <3>1 DEF database
    <3> QED
      BY <2>1, <3>2, AgreeUnchanged DEF BaseInv
  <2> QED
    BY <2>2, <2>3, <2>4, <2>5 DEF Next
<1> QED
  BY <1>1, <1>3 DEF RowInv

LEMMA RowAlways == ASSUME ~ SettleFaults PROVE Spec => [](EarlierInv /\ RowInv)
<1>1. Init => EarlierInv /\ RowInv
  BY TypeInit, OrderInit, RemovalInit, WrapInit, LinkInit, EntryInit, RowInit
     DEF BaseInv, EarlierInv
<1>2. EarlierInv /\ RowInv /\ [Next]_vars => (EarlierInv /\ RowInv)'
  BY BaseStep, WrapStep, LinkStep, EntryStep, RowStep DEF BaseInv, EarlierInv, RemovalInv
<1> QED
  BY <1>1, <1>2, PTL DEF Spec

-----------------------------------------------------------------------------
(* A relay the user reads as pending is the unfinished target of a queued  *)
(* job, a message shown as queued has one, and an answer that waits to be  *)
(* recorded finds its relay pending or acknowledged: the transactions that *)
(* prepare, skip, fail, settle, abandon and delete leave no orphan behind, *)
(* whatever happens between two of them.                                   *)
THEOREM RowsAlwaysAgree == ASSUME ~ SettleFaults PROVE Spec => []RowsAgree
<1>1. RowInv => PendingHasTarget
  BY DEF RowInv, Agrees, PendingTarget, PendingHasTarget, At
<1>2. RowInv => QueuedHasJob
  BY DEF RowInv, Agrees, QueuedJob, QueuedHasJob
<1>3. EarlierInv /\ RowInv => RowsAgree
  BY <1>1, <1>2 DEF EarlierInv, EntryInv, RowsAgree
<1> QED
  BY <1>3, RowAlways, PTL

(* What the user reads of a message without jobs is the verdict of its     *)
(* copies: no path that deletes the last job leaves a stale status.        *)
THEOREM QuiescentVerdict == ASSUME ~ SettleFaults PROVE Spec => []QuiescentStatus
<1>1. Durable \subseteq Message
  BY OutboxConstants DEF OutboxConstants
<1>2. EarlierInv /\ RowInv => QuiescentStatus
  BY <1>1 DEF RowInv, Agrees, Quiescent, QuiescentStatus
<1> QED
  BY <1>2, RowAlways, PTL

(* What SkipsAcknowledged says of one step. *)
NoneAcknowledged ==
    pc = "send" /\ pc' = "publish" /\ IsDurable /\ job.scope # "resend_all" =>
        \A t \in local : copies[job.msg][t.to].relays[t.relay] # "ok"

(* A job publishes to no relay that has acknowledged the copy, unless the  *)
(* user asked to resend: what findSuccessfulTargets read is still so after *)
(* the gift wraps were sealed and stored.                                  *)
THEOREM AcknowledgedAreSkipped == ASSUME ~ SettleFaults PROVE Spec => SkipsAcknowledged
<1>1. EarlierInv /\ RowInv /\ [Next]_vars => [NoneAcknowledged]_vars
  BY DEF RowInv, HoldInv, LocalNotOk, NotResend, NoneAcknowledged, IsDurable, At
<1>2. Spec => [][NoneAcknowledged]_vars
  BY <1>1, RowAlways, PTL DEF Spec
<1> QED
  BY <1>2 DEF SkipsAcknowledged, NoneAcknowledged
=============================================================================
