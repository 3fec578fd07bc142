----------------------------- MODULE NearbyOutbox -----------------------------
(***************************************************************************)
(* The durable outbox of Nearby messages (proximity-runtime.service.ts):   *)
(* the worker that drains it, the acknowledgements, their timers, and the  *)
(* session and links these come and go with; one account, and the peers'   *)
(* receivers as far as an acknowledgement tells.                           *)
(*                                                                         *)
(* An action is what runs between two awaits; a statement of the database  *)
(* executes when its await ends.  Retry delays are only now or later.      *)
(***************************************************************************)
EXTENDS Integers, Sequences, FiniteSets, SequencesExt

CONSTANTS
  Peer,
  Message,
  To,          \* the peer each message is for
  MaxFaults,   \* bound: links and sessions lost, crashes, late answers, refusals
  MaxRejects,  \* bound: messages a receiver rejects for good
  MaxResends   \* bound: resends by the user

ASSUME NearbyConstants ==
  /\ IsFiniteSet(Message) /\ Message # {} /\ To \in [Message -> Peer]
  /\ {MaxFaults, MaxRejects, MaxResends} \subseteq Nat

VARIABLES
  timeline,   \* the messages composed, in the order of their orderAt
  row,        \* deliveryStatus of each message
  job,        \* status of its outbox row
  later,      \* jobs whose nextAttemptAt is ahead
  composing,  \* messages stored whose job is not inserted yet
  session,    \* off, account (known, no radio) or on
  ready,      \* peers with a canonical link in the ready phase
  wire,       \* MESSAGE records on their way to a peer
  reply,      \* MESSAGE_ACK records on their way back
  stored,     \* what the receivers have stored
  pending,    \* pendingMessages
  timers,     \* ackTimers
  requeuing,  \* deferrals begun by a timer, whose statement has not run
  retry,      \* is the retry timer set
  drain,      \* the worker
  requested,  \* drainRequested
  ack,        \* peer -> the acknowledgement being handled
  faults,
  rejected,   \* messages the peer has rejected for good
  resent      \* messages the user has sent again

durable == <<timeline, row, job, later>>
radio == <<ready, wire, reply>>
worker == <<drain, requested>>
bounds == <<faults, rejected, resent>>
vars == <<durable, composing, session, radio, stored, pending, timers, requeuing,
          retry, worker, ack, bounds>>

Live == {"queued", "sending", "awaiting_ack"}
Resting == [pc |-> "idle", rest |-> {}, m |-> CHOOSE m \in Message : TRUE, lost |-> FALSE]
Quiet == [pc |-> "idle", m |-> CHOOSE m \in Message : TRUE, status |-> "none"]

Answer == [m : Message, status : {"delivered", "invalid", "busy"}]

TypeOK ==
  /\ timeline \in Seq(Message) /\ composing \in Seq(Message)
  /\ row \in [Message -> {"none", "plain", "queued", "sent", "failed"}]
  /\ job \in [Message -> Live \union {"none", "failed"}]
  /\ {later, stored, pending, timers, requeuing, rejected, resent} \subseteq SUBSET Message
  /\ session \in {"off", "account", "on"} /\ {retry, requested} \subseteq BOOLEAN
  /\ ready \subseteq Peer
  /\ wire \in [Peer -> Seq(Message)] /\ reply \in [Peer -> Seq(Answer)]
  /\ \A p \in Peer : p \notin ready => wire[p] = <<>> /\ reply[p] = <<>>
  /\ ready # {} => session = "on"
  /\ drain \in [pc : {"idle", "read", "next", "sending", "sent", "await", "defer"},
                rest : SUBSET Message, m : Message, lost : BOOLEAN]
  /\ ack \in [Peer -> [pc : {"idle", "read", "settle", "fail", "defer"}, m : Message,
                       status : {"none", "delivered", "invalid", "busy"}]]
  /\ faults \in 0..MaxFaults

-----------------------------------------------------------------------------
(* drain(): one at a time; a call while it runs is made again at its end.  *)
Called(d, account) == IF d.pc = "idle" /\ account # "off"
                      THEN [d EXCEPT !.pc = "read"] ELSE d
Wake ==
  /\ drain' = Called(drain, session')
  /\ requested' = (requested \/ drain.pc # "idle")

(* defer(): the message is nobody's at once, and queued when the statement *)
(* runs, if its job is still there.                                        *)
LetGo(m) == pending' = pending \ {m} /\ timers' = timers \ {m}
Requeue(m) ==
  IF job[m] = "none" THEN UNCHANGED <<job, later, retry>>
  ELSE /\ job' = [job EXCEPT ![m] = "queued"]
       /\ later' = later \union {m} /\ retry' = TRUE

-----------------------------------------------------------------------------
Fault == faults < MaxFaults /\ faults' = faults + 1

(***************************************************************************)
(* Composing and resending.                                                *)
(***************************************************************************)
Known == session' = IF session = "off" THEN "account" ELSE session

(* sendRumor stores the message; its job is inserted in a transaction of   *)
(* its own, in the order the messages were stored.                         *)
Send(m) ==
  /\ row[m] = "none"
  /\ row' = [row EXCEPT ![m] = "plain"] /\ timeline' = Append(timeline, m)
  /\ composing' = Append(composing, m) /\ Known
  /\ UNCHANGED <<job, later, radio, stored, pending, timers, requeuing, retry, worker,
                 ack, bounds>>

Enqueue ==
  /\ composing # <<>> /\ composing' = Tail(composing)
  /\ LET m == Head(composing) IN
       /\ job' = [job EXCEPT ![m] = IF @ = "none" THEN "queued" ELSE @]
       /\ row' = [row EXCEPT ![m] = "queued"]
  /\ UNCHANGED session /\ Wake
  /\ UNCHANGED <<timeline, later, radio, stored, pending, timers, requeuing, retry, ack,
                 bounds>>

Resend(m) ==
  /\ Cardinality(resent) < MaxResends /\ m \notin resent /\ resent' = resent \union {m}
  /\ row[m] # "none" /\ m \notin Range(composing) /\ job[m] \notin Live
  /\ job' = [job EXCEPT ![m] = "queued"] /\ later' = later \ {m}
  /\ row' = [row EXCEPT ![m] = "queued"]
  /\ Known /\ Wake
  /\ UNCHANGED <<timeline, composing, radio, stored, pending, timers, requeuing, retry,
                 ack, faults, rejected>>

-----------------------------------------------------------------------------
(* The first of ms in the order of each conversation. *)
FirstOf(ms) ==
  {m \in ms : \E i \in 1..Len(timeline) :
     /\ timeline[i] = m
     /\ \A j \in 1..(i - 1) : To[timeline[j]] = To[m] => timeline[j] \notin ms}

(* Mutant: a conversation's first queued message, whatever is in flight. *)
QueuedHeads == FirstOf({m \in Message : job[m] = "queued"})

(* Mutant: calls made while the worker runs are forgotten at its end. *)
FinishedForGood == requested' = FALSE /\ drain' = Resting

(***************************************************************************)
(* The worker.                                                             *)
(***************************************************************************)
(* The first unfinished message of each conversation. *)
Heads == FirstOf({m \in Message : job[m] \in Live})

Finished ==
  /\ requested' = FALSE
  /\ drain' = IF requested THEN Called(Resting, session) ELSE Resting

(* The rows are read once; time may have passed since the delays were set. *)
DrainReads ==
  /\ drain.pc = "read"
  /\ \E ahead \in SUBSET later :
       LET due == {m \in Heads : job[m] = "queued" /\ m \notin ahead} IN
       IF session = "off" THEN Finished /\ UNCHANGED <<later, retry>>
       ELSE /\ drain' = [drain EXCEPT !.pc = "next", !.rest = due]
            /\ later' = ahead
            /\ retry' = (retry \/ \E m \in Heads : job[m] = "queued" /\ m \in ahead)
            /\ UNCHANGED requested
  /\ UNCHANGED <<timeline, row, job, composing, session, radio, stored, pending, timers,
                 requeuing, ack, bounds>>

(* A message whose peer is not ready is deferred. *)
DrainNext ==
  /\ drain.pc = "next"
  /\ \/ drain.rest = {} /\ Finished /\ UNCHANGED <<pending, timers>>
     \/ \E m \in drain.rest :
          LET chosen == [Resting EXCEPT !.rest = drain.rest \ {m}, !.m = m] IN
          /\ UNCHANGED requested
          /\ IF To[m] \in ready
             THEN drain' = [chosen EXCEPT !.pc = "sending"] /\ UNCHANGED <<pending, timers>>
             ELSE drain' = [chosen EXCEPT !.pc = "defer"] /\ LetGo(m)
  /\ UNCHANGED <<durable, composing, session, radio, stored, requeuing, retry, ack, bounds>>

(* The job is marked, then the record handed to the link it was meant for. *)
DrainSubmits ==
  /\ drain.pc = "sending"
  /\ LET m == drain.m IN
     /\ job' = [job EXCEPT ![m] = IF @ = "none" THEN @ ELSE "sending"]
     /\ IF drain.lost
        THEN drain' = [drain EXCEPT !.pc = "defer"] /\ LetGo(m) /\ UNCHANGED wire
        ELSE /\ drain' = [drain EXCEPT !.pc = "sent"]
             /\ pending' = pending \union {m} /\ UNCHANGED timers
             /\ wire' = [wire EXCEPT ![To[m]] = Append(@, m)]
  /\ UNCHANGED <<timeline, row, later, composing, session, ready, reply, stored, requeuing,
                 retry, requested, ack, bounds>>

(* The transport has taken the record, or its link broke while it wrote. *)
DrainSent ==
  /\ drain.pc = "sent"
  /\ \/ drain' = [drain EXCEPT !.pc = "await"] /\ UNCHANGED <<pending, timers>>
     \/ drain.lost /\ drain' = [drain EXCEPT !.pc = "defer"] /\ LetGo(drain.m)
  /\ UNCHANGED <<durable, composing, session, radio, stored, requeuing, retry, requested,
                 ack, bounds>>

(* Whatever happened to the job meanwhile; a timer waits for the answer. *)
DrainAwaits ==
  /\ drain.pc = "await"
  /\ job' = [job EXCEPT ![drain.m] = IF @ = "none" THEN @ ELSE "awaiting_ack"]
  /\ timers' = timers \union {drain.m}
  /\ drain' = [Resting EXCEPT !.pc = "next", !.rest = drain.rest]
  /\ UNCHANGED <<timeline, row, later, composing, session, radio, stored, pending,
                 requeuing, retry, requested, ack, bounds>>

DrainDefers ==
  /\ drain.pc = "defer" /\ Requeue(drain.m)
  /\ drain' = [Resting EXCEPT !.pc = "next", !.rest = drain.rest]
  /\ UNCHANGED <<timeline, row, composing, session, radio, stored, pending, timers,
                 requeuing, requested, ack, bounds>>

Drain ==
  DrainReads \/ DrainNext \/ DrainSubmits \/ DrainSent \/ DrainAwaits \/ DrainDefers

-----------------------------------------------------------------------------
(***************************************************************************)
(* Timers.                                                                 *)
(***************************************************************************)
(* The timer of a message rings; before its answer came, it is a fault.    *)
OnItsWay(m) ==
  \/ m \in Range(wire[To[m]]) \/ m \in {answer.m : answer \in Range(reply[To[m]])}
  \/ ack[To[m]].pc = "read" /\ ack[To[m]].m = m

AckTimeout(m) ==
  /\ m \in timers /\ LetGo(m) /\ requeuing' = requeuing \union {m}
  /\ IF OnItsWay(m) THEN Fault ELSE UNCHANGED faults
  /\ UNCHANGED <<durable, composing, session, radio, stored, retry, worker, ack, rejected,
                 resent>>

Requeued(m) ==
  /\ m \in requeuing /\ requeuing' = requeuing \ {m} /\ Requeue(m)
  /\ UNCHANGED <<timeline, row, composing, session, radio, stored, pending, timers, worker,
                 ack, bounds>>

(* Mutant: only messages still being written are queued again. *)
RestartedSending ==
  LET writing == {m \in Message : job[m] = "sending"} IN
  /\ session' = "on"
  /\ job' = [m \in Message |-> IF m \in writing THEN "queued" ELSE job[m]]
  /\ later' = later \ writing

(* startInternal: what an earlier session had in flight is queued again. *)
Restarted ==
  LET inFlight == {m \in Message : job[m] \in {"sending", "awaiting_ack"}} IN
  /\ session' = "on"
  /\ job' = [m \in Message |-> IF m \in inFlight THEN "queued" ELSE job[m]]
  /\ later' = later \ inFlight

(* By the time it rings the earliest delay is over.  A session that is not *)
(* started is started first.                                               *)
RetryTimeout ==
  /\ retry /\ retry' = FALSE
  /\ \/ session = "account" /\ Restarted
     \/ /\ session # "account" /\ UNCHANGED <<session, job>>
        /\ \E ahead \in SUBSET later : (later # {} => ahead # later) /\ later' = ahead
  /\ Wake
  /\ UNCHANGED <<timeline, row, composing, radio, stored, pending, timers, requeuing, ack,
                 bounds>>

-----------------------------------------------------------------------------
(***************************************************************************)
(* The peer, and its acknowledgement.                                      *)
(***************************************************************************)
(* handleMessage of the receiver: it answers after it has stored. *)
Receive(p) ==
  /\ wire[p] # <<>>
  /\ LET m == Head(wire[p])
         Says(status) == reply' = [reply EXCEPT ![p] =
                                       Append(@, [m |-> m, status |-> status])]
     IN \/ stored' = stored \union {m} /\ Says("delivered")
           /\ UNCHANGED <<rejected, faults>>
        \/ /\ Cardinality(rejected \union {m}) <= MaxRejects /\ m \notin stored
           /\ rejected' = rejected \union {m} /\ Says("invalid")
           /\ UNCHANGED <<stored, faults>>
        \/ Fault /\ Says("busy") /\ UNCHANGED <<stored, rejected>>
  /\ wire' = [wire EXCEPT ![p] = Tail(@)]
  /\ UNCHANGED <<durable, composing, session, ready, pending, timers, requeuing, retry,
                 worker, ack, resent>>

(* handleMessageAck; the packets of a link are handled one after another.  *)
(* An answer nobody waits for is dropped.                                  *)
AckArrives(p) ==
  /\ reply[p] # <<>> /\ ack[p].pc = "idle"
  /\ LET answer == Head(reply[p]) IN
       ack' = IF answer.m \in pending
              THEN [ack EXCEPT ![p] = [pc |-> "read", m |-> answer.m,
                                       status |-> answer.status]]
              ELSE ack
  /\ reply' = [reply EXCEPT ![p] = Tail(@)]
  /\ UNCHANGED <<durable, composing, session, ready, wire, stored, pending, timers,
                 requeuing, retry, worker, bounds>>

(* Mutant: a rejection that may be retried counts as a delivery. *)
AckReadsLoosely(p) ==
  /\ ack[p].pc = "read"
  /\ IF job[ack[p].m] = "none"
     THEN ack' = [ack EXCEPT ![p] = Quiet] /\ UNCHANGED <<pending, timers>>
     ELSE /\ LetGo(ack[p].m)
          /\ ack' = [ack EXCEPT ![p].pc =
                       IF ack[p].status = "invalid" THEN "fail" ELSE "settle"]
  /\ UNCHANGED <<durable, composing, session, radio, stored, requeuing, retry, worker,
                 bounds>>

AckReads(p) ==
  /\ ack[p].pc = "read"
  /\ IF job[ack[p].m] = "none"
     THEN ack' = [ack EXCEPT ![p] = Quiet] /\ UNCHANGED <<pending, timers>>
     ELSE /\ LetGo(ack[p].m)
          /\ ack' = [ack EXCEPT ![p].pc =
                       CASE ack[p].status = "delivered" -> "settle"
                         [] ack[p].status = "invalid" -> "fail"
                         [] OTHER -> "defer"]
  /\ UNCHANGED <<durable, composing, session, radio, stored, requeuing, retry, worker,
                 bounds>>

(* The transactions name the account of the moment: without one the job is *)
(* updated and the message is not.                                         *)
Marked(m, status) == row' = IF session = "off" THEN row ELSE [row EXCEPT ![m] = status]

AckSettles(p) ==
  /\ ack[p].pc = "settle" /\ ack[p].m \notin requeuing
  /\ Marked(ack[p].m, "sent")
  /\ job' = [job EXCEPT ![ack[p].m] = "none"] /\ later' = later \ {ack[p].m}
  /\ ack' = [ack EXCEPT ![p] = Quiet]
  /\ UNCHANGED session /\ Wake
  /\ UNCHANGED <<timeline, composing, radio, stored, pending, timers, requeuing, retry,
                 bounds>>

(* A rejection for good.  The worker is not called. *)
AckFails(p) ==
  /\ ack[p].pc = "fail" /\ ack[p].m \notin requeuing
  /\ Marked(ack[p].m, "failed")
  /\ job' = [job EXCEPT ![ack[p].m] = IF @ = "none" THEN @ ELSE "failed"]
  /\ ack' = [ack EXCEPT ![p] = Quiet]
  /\ UNCHANGED <<timeline, later, composing, session, radio, stored, pending, timers,
                 requeuing, retry, worker, bounds>>

AckDefers(p) ==
  /\ ack[p].pc = "defer" /\ Requeue(ack[p].m)
  /\ ack' = [ack EXCEPT ![p] = Quiet]
  /\ UNCHANGED <<timeline, row, composing, session, radio, stored, pending, timers,
                 requeuing, worker, bounds>>

Acknowledge(p) ==
  AckArrives(p) \/ AckReads(p) \/ AckSettles(p) \/ AckFails(p) \/ AckDefers(p)

-----------------------------------------------------------------------------
(***************************************************************************)
(* Sessions and links.                                                     *)
(***************************************************************************)
Start ==
  /\ session # "on" /\ Restarted /\ Wake
  /\ UNCHANGED <<timeline, row, composing, radio, stored, pending, timers, requeuing,
                 retry, ack, bounds>>

(* markReady: what waits for this peer is due. *)
LinkUp(p) ==
  /\ session = "on" /\ p \notin ready /\ ready' = ready \union {p}
  /\ later' = {m \in later : To[m] # p \/ job[m] # "queued"}
  /\ UNCHANGED session /\ Wake
  /\ UNCHANGED <<timeline, row, job, composing, wire, reply, stored, pending, timers,
                 requeuing, retry, ack, bounds>>

(* The worker holds on to a link that is no longer there. *)
Torn(d, peers) == [d EXCEPT !.lost = @ \/ (d.pc \in {"sending", "sent"} /\ To[d.m] \in peers)]
Down(peers) ==
  /\ ready' = ready \ peers
  /\ wire' = [p \in Peer |-> IF p \in peers THEN <<>> ELSE wire[p]]
  /\ reply' = [p \in Peer |-> IF p \in peers THEN <<>> ELSE reply[p]]

LinkDown(p) ==
  /\ Fault /\ p \in ready /\ Down({p})
  /\ drain' = Torn(drain, {p})
  /\ pending' = {m \in pending : To[m] # p}
  /\ UNCHANGED <<durable, composing, session, stored, timers, requeuing, retry, requested,
                 ack, rejected, resent>>

(* stop(): the background, another account or the setting of the feature.  *)
(* What awaits something goes on.                                          *)
Stop ==
  /\ Fault /\ session # "off" /\ session' = "off" /\ Down(Peer)
  /\ drain' = Torn(drain, Peer) /\ requested' = FALSE
  /\ pending' = {} /\ timers' = {} /\ retry' = FALSE
  /\ UNCHANGED <<durable, composing, stored, requeuing, ack, rejected, resent>>

Crash ==
  /\ Fault /\ session' = "off" /\ Down(Peer)
  /\ drain' = Resting /\ requested' = FALSE
  /\ pending' = {} /\ timers' = {} /\ retry' = FALSE
  /\ composing' = <<>> /\ requeuing' = {} /\ ack' = [p \in Peer |-> Quiet]
  /\ UNCHANGED <<durable, stored, rejected, resent>>

-----------------------------------------------------------------------------
Init ==
  /\ timeline = <<>> /\ composing = <<>>
  /\ row = [m \in Message |-> "none"] /\ job = [m \in Message |-> "none"]
  /\ later = {} /\ stored = {}
  /\ pending = {} /\ timers = {} /\ requeuing = {}
  /\ session = "off" /\ ready = {}
  /\ wire = [p \in Peer |-> <<>>] /\ reply = [p \in Peer |-> <<>>]
  /\ retry = FALSE /\ requested = FALSE
  /\ drain = Resting /\ ack = [p \in Peer |-> Quiet]
  /\ faults = 0 /\ rejected = {} /\ resent = {}

Next ==
  \/ Enqueue
  \/ Drain
  \/ RetryTimeout
  \/ Start
  \/ Stop
  \/ Crash
  \/ \E m \in Message : Send(m) \/ Resend(m) \/ AckTimeout(m) \/ Requeued(m)
  \/ \E p \in Peer : Receive(p) \/ Acknowledge(p) \/ LinkUp(p) \/ LinkDown(p)

Spec == Init /\ [][Next]_vars

(* The worker, the timers and the peer go on while a session is up. *)
FairSpec ==
  /\ Spec
  /\ WF_vars(Enqueue) /\ WF_vars(Drain) /\ WF_vars(RetryTimeout)
  /\ \A m \in Message : WF_vars(AckTimeout(m)) /\ WF_vars(Requeued(m))
  /\ \A p \in Peer : WF_vars(Receive(p)) /\ WF_vars(Acknowledge(p))

-----------------------------------------------------------------------------
(* No message is lost unnoticed: one shown as sent is stored by its peer,  *)
(* and one shown as queued has a job or, if the account went away while    *)
(* its acknowledgement was handled, is stored too or was rejected.         *)
NothingIsLost ==
  \A m \in Message :
    /\ row[m] = "sent" => m \in stored
    /\ row[m] = "queued" /\ job[m] = "none" => m \in stored
    /\ row[m] = "queued" /\ job[m] = "failed" => m \in rejected

(* In a running session a job that is neither queued nor failed has        *)
(* someone who will take it further: no path loses the last timer or       *)
(* task of a job that no drain would look at again.                        *)
InFlightIsOwned ==
  session = "on" =>
    \A m \in Message : job[m] \in {"sending", "awaiting_ack"} =>
      \/ m \in timers \union requeuing
      \/ drain.m = m /\ drain.pc \in {"sent", "await", "defer"}
      \/ ack[To[m]].m = m /\ ack[To[m]].pc \in {"settle", "fail", "defer"}

(* A peer gets the messages of a conversation in their order, however      *)
(* often they were deferred; except for an older one that was rejected for *)
(* good, sent again by the user or never got a job.                        *)
DeliveredInOrder ==
  \A i, j \in 1..Len(timeline) :
    LET older == timeline[i]  newer == timeline[j] IN
    i < j /\ To[older] = To[newer] /\ newer \in stored =>
      older \in stored \union rejected \union resent \/ row[older] = "plain"

(* Only a resend takes a message that was rejected for good back to the    *)
(* queue.                                                                  *)
RejectedStaysFailed ==
  [][\A m \in Message :
       job[m] = "failed" /\ job'[m] # "failed" => m \in resent' \ resent]_vars

(* A message for a peer that stays linked and rejects nothing is           *)
(* delivered.                                                              *)
JobsFinish ==
  \A m \in Message :
    <>[](session = "on" /\ To[m] \in ready /\ rejected = {}) => []<>(job[m] \notin Live)
=============================================================================
