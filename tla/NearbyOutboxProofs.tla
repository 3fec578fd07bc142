-------------------------- MODULE NearbyOutboxProofs --------------------------
(***************************************************************************)
(* Theorems of NearbyOutbox for every value of its constants: any number   *)
(* of peers, messages, faults, rejections and resends.                     *)
(***************************************************************************)
EXTENDS NearbyOutbox, TLAPS

-----------------------------------------------------------------------------
(* Type correctness, one conjunct per group of variables. *)
WorkerState == [pc : {"idle", "read", "next", "sending", "sent", "await", "defer"},
                rest : SUBSET Message, m : Message, lost : BOOLEAN]
AckState == [pc : {"idle", "read", "settle", "fail", "defer"}, m : Message,
             status : {"none", "delivered", "invalid", "busy"}]
JobStatus == {"queued", "sending", "awaiting_ack", "none", "failed"}

DurableType ==
  /\ timeline \in Seq(Message) /\ composing \in Seq(Message)
  /\ row \in [Message -> {"none", "plain", "queued", "sent", "failed"}]
JobType == job \in [Message -> JobStatus] /\ later \subseteq Message
SessionType ==
  /\ session \in {"off", "account", "on"} /\ retry \in BOOLEAN
  /\ ready \subseteq Peer /\ (ready # {} => session = "on")
RadioType ==
  /\ wire \in [Peer -> Seq(Message)] /\ reply \in [Peer -> Seq(Answer)]
  /\ \A p \in Peer : p \notin ready => wire[p] = <<>> /\ reply[p] = <<>>
TimerType == pending \subseteq Message /\ timers \subseteq Message /\ requeuing \subseteq Message
WorkerType == drain \in WorkerState /\ requested \in BOOLEAN
AckType == ack \in [Peer -> AckState]
BoundsType ==
  faults \in 0..MaxFaults /\ stored \subseteq Message /\ rejected \subseteq Message
  /\ resent \subseteq Message

(* The worker is on a link that is up, or knows that it is not. *)
Held == drain.pc = "sending" /\ ~drain.lost => To[drain.m] \in ready

TypeInv ==
  /\ DurableType /\ JobType /\ SessionType /\ RadioType /\ TimerType /\ WorkerType
  /\ AckType /\ BoundsType /\ Held

LEMMA TypeParts == TypeInv => TypeOK
  BY DEF TypeInv, TypeOK, DurableType, JobType, SessionType, RadioType, TimerType, WorkerType,
         AckType, BoundsType, WorkerState, AckState, JobStatus, Live

(* A group of variables that a step leaves alone keeps its type. *)
LEMMA Frame ==
  ASSUME TypeInv
  PROVE  /\ UNCHANGED <<timeline, composing, row>> => DurableType'
         /\ UNCHANGED <<job, later>> => JobType'
         /\ UNCHANGED <<session, retry, ready>> => SessionType'
         /\ UNCHANGED <<ready, wire, reply>> => RadioType'
         /\ UNCHANGED <<pending, timers, requeuing>> => TimerType'
         /\ UNCHANGED <<drain, requested>> => WorkerType'
         /\ UNCHANGED ack => AckType'
         /\ UNCHANGED <<faults, stored, rejected, resent>> => BoundsType'
         /\ UNCHANGED <<drain, ready>> => Held'
  BY DEF TypeInv, DurableType, JobType, SessionType, RadioType, TimerType, WorkerType,
         AckType, BoundsType, Held

(* The first element leaves a sequence, and one joins its end. *)
LEMMA TailFacts ==
  ASSUME NEW S, NEW s \in Seq(S), s # <<>>
  PROVE  /\ Head(s) = s[1] /\ Head(s) \in S /\ 1 \in 1..Len(s)
         /\ Tail(s) \in Seq(S)
         /\ \A i \in 1..Len(Tail(s)) : Tail(s)[i] = s[i + 1] /\ i + 1 \in 1..Len(s)
  OBVIOUS

LEMMA AppendFacts ==
  ASSUME NEW S, NEW s \in Seq(S), NEW e \in S
  PROVE  /\ Append(s, e) \in Seq(S)
         /\ \A i \in 1..Len(Append(s, e)) :
              \/ i \in 1..Len(s) /\ Append(s, e)[i] = s[i]
              \/ i = Len(s) + 1 /\ Append(s, e)[i] = e
  OBVIOUS

LEMMA RestingType ==
  /\ Resting \in WorkerState /\ Resting.pc = "idle" /\ Resting.rest = {} /\ ~Resting.lost
  /\ Quiet \in AckState /\ Quiet.pc = "idle"
  BY NearbyConstants DEF Resting, Quiet, NearbyConstants, WorkerState, AckState

LEMMA TypeInit == Init => TypeInv
<1> SUFFICES ASSUME Init PROVE TypeInv
  OBVIOUS
<1>1. DurableType /\ SessionType /\ TimerType
  <2>1. DurableType
    BY DEF Init, DurableType
  <2>2. SessionType
    BY DEF Init, SessionType
  <2>3. TimerType
    BY DEF Init, TimerType
  <2> QED
    BY <2>1, <2>2, <2>3
<1>2. JobType
  BY DEF Init, JobType, JobStatus
<1>3. RadioType
  <2>1. <<>> \in Seq(Message) /\ <<>> \in Seq(Answer)
    OBVIOUS
  <2> QED
    BY <2>1 DEF Init, RadioType
<1>4. WorkerType /\ AckType /\ Held
  BY RestingType DEF Init, WorkerType, AckType, Held
<1>5. BoundsType
  BY NearbyConstants DEF NearbyConstants, Init, BoundsType
<1> QED
  BY <1>1, <1>2, <1>3, <1>4, <1>5 DEF TypeInv

(* Calling the worker. *)
LEMMA WakeType ==
  ASSUME TypeInv, Wake
  PROVE  /\ WorkerType' /\ drain'.pc \in {drain.pc, "read"} /\ drain'.m = drain.m
         /\ drain.pc # "idle" => drain' = drain
         /\ drain'.rest = drain.rest /\ drain'.lost = drain.lost
         /\ ready \subseteq ready' => Held'
<1>1. drain' = drain \/ (drain.pc = "idle" /\ drain' = [drain EXCEPT !.pc = "read"])
  BY DEF Wake, Called
<1>2. drain \in WorkerState /\ requested \in BOOLEAN
  BY DEF TypeInv, WorkerType
<1>3. drain' \in WorkerState /\ drain'.pc \in {drain.pc, "read"} /\ drain'.m = drain.m
      /\ drain'.rest = drain.rest /\ drain'.lost = drain.lost
  BY <1>1, <1>2 DEF WorkerState
<1> QED
  BY <1>1, <1>2, <1>3 DEF TypeInv, WorkerType, Wake, Held

LEMMA TypeCompose ==
  ASSUME TypeInv, (\E m \in Message : Send(m) \/ Resend(m)) \/ Enqueue
  PROVE  TypeInv'
<1> USE Frame, WakeType DEF durable, radio, worker, bounds
<1>1. ASSUME NEW m \in Message, Send(m) PROVE TypeInv'
  <2>1. DurableType'
    BY <1>1 DEF Send, TypeInv, DurableType
  <2>2. SessionType'
    BY <1>1 DEF Send, Known, TypeInv, SessionType
  <2> QED
    BY <1>1, <2>1, <2>2 DEF Send, TypeInv
<1>2. ASSUME NEW m \in Message, Resend(m) PROVE TypeInv'
  <2>1. DurableType' /\ JobType'
    BY <1>2 DEF Resend, TypeInv, DurableType, JobType, JobStatus
  <2>2. SessionType' /\ BoundsType'
    BY <1>2 DEF Resend, Known, TypeInv, SessionType, BoundsType
  <2> QED
    BY <1>2, <2>1, <2>2 DEF Resend, TypeInv
<1>3. ASSUME Enqueue PROVE TypeInv'
  <2>1. Head(composing) \in Message /\ Tail(composing) \in Seq(Message)
    BY <1>3 DEF Enqueue, TypeInv, DurableType
  <2>2. DurableType' /\ JobType'
    BY <1>3, <2>1 DEF Enqueue, TypeInv, DurableType, JobType, JobStatus
  <2> QED
    BY <1>3, <2>2 DEF Enqueue, TypeInv
<1> QED
  BY <1>1, <1>2, <1>3

LEMMA RequeueType ==
  ASSUME TypeInv, NEW m \in Message, Requeue(m), UNCHANGED <<session, ready>>
  PROVE  JobType' /\ SessionType'
  BY DEF TypeInv, JobType, SessionType, JobStatus, Requeue

LEMMA LetGoType ==
  ASSUME TypeInv, NEW m, LetGo(m) \/ UNCHANGED <<pending, timers>>, UNCHANGED requeuing
  PROVE  TimerType'
  BY DEF TypeInv, TimerType, LetGo

LEMMA HeadsType == Heads \subseteq Message
  BY DEF Heads, FirstOf

LEMMA FinishedType ==
  ASSUME TypeInv, Finished
  PROVE  WorkerType' /\ Held' /\ drain'.pc \in {"idle", "read"} /\ drain'.rest = {}
  BY RestingType DEF Finished, Called, WorkerType, WorkerState, Held

LEMMA TypeDrain ==
  ASSUME TypeInv, Drain
  PROVE  TypeInv'
<1> USE Frame DEF durable, radio, worker, bounds
<1>0. drain \in WorkerState /\ later \subseteq Message
  BY DEF TypeInv, WorkerType, JobType
<1>1. ASSUME DrainReads PROVE TypeInv'
  <2>1. PICK ahead \in SUBSET later :
          LET due == {m \in Heads : job[m] = "queued" /\ m \notin ahead} IN
          IF session = "off" THEN Finished /\ UNCHANGED <<later, retry>>
          ELSE /\ drain' = [drain EXCEPT !.pc = "next", !.rest = due]
               /\ later' = ahead
               /\ retry' = (retry \/ \E m \in Heads : job[m] = "queued" /\ m \in ahead)
               /\ UNCHANGED requested
    BY <1>1 DEF DrainReads
  <2>2. JobType'
    BY <1>1, <2>1 DEF DrainReads, TypeInv, JobType
  <2>3. SessionType'
    BY <1>1, <2>1 DEF DrainReads, TypeInv, SessionType
  <2>4. WorkerType' /\ Held'
    <3>1. CASE session = "off"
      BY <2>1, <3>1, FinishedType
    <3>2. CASE session # "off"
      BY <1>0, <2>1, <3>2, HeadsType DEF TypeInv, WorkerType, WorkerState, Held
    <3> QED
      BY <3>1, <3>2
  <2> QED
    BY <1>1, <2>2, <2>3, <2>4 DEF DrainReads, TypeInv
<1>2. ASSUME DrainNext PROVE TypeInv'
  <2>1. TimerType'
    BY <1>2, LetGoType DEF DrainNext
  <2>2. WorkerType' /\ Held'
    <3>1. CASE drain.rest = {} /\ Finished
      BY <3>1, FinishedType
    <3>2. ASSUME NEW m \in drain.rest,
                 LET chosen == [Resting EXCEPT !.rest = drain.rest \ {m}, !.m = m] IN
                 /\ UNCHANGED requested
                 /\ \/ To[m] \in ready /\ drain' = [chosen EXCEPT !.pc = "sending"]
                    \/ drain' = [chosen EXCEPT !.pc = "defer"]
          PROVE  WorkerType' /\ Held'
      <4>1. m \in Message /\ drain.rest \ {m} \in SUBSET Message
        BY <1>0 DEF WorkerState
      <4>2. drain' \in WorkerState /\ drain'.m = m
            /\ (drain'.pc = "sending" => To[m] \in ready)
        BY <3>2, <4>1, RestingType DEF WorkerState
      <4> QED
        BY <1>2, <3>2, <4>2 DEF DrainNext, TypeInv, WorkerType, Held
    <3> QED
      BY <1>2, <3>1, <3>2 DEF DrainNext
  <2> QED
    BY <1>2, <2>1, <2>2 DEF DrainNext, TypeInv
<1>3. ASSUME DrainSubmits PROVE TypeInv'
  <2>1. JobType'
    BY <1>0, <1>3 DEF DrainSubmits, TypeInv, JobType, JobStatus, WorkerState
  <2>2. TimerType'
    BY <1>0, <1>3 DEF DrainSubmits, LetGo, TypeInv, TimerType, WorkerState
  <2>3. WorkerType' /\ Held'
    BY <1>0, <1>3 DEF DrainSubmits, TypeInv, WorkerType, WorkerState, Held
  <2>4. RadioType'
    <3>1. CASE drain.lost
      BY <1>3, <3>1 DEF DrainSubmits
    <3>2. CASE ~drain.lost
      <4>1. drain.m \in Message /\ To[drain.m] \in Peer /\ To[drain.m] \in ready
        BY <1>0, <1>3, <3>2, NearbyConstants
           DEF DrainSubmits, TypeInv, Held, NearbyConstants, WorkerState
      <4>2. wire' = [wire EXCEPT ![To[drain.m]] = Append(@, drain.m)] /\ UNCHANGED <<ready, reply>>
        BY <1>3, <3>2 DEF DrainSubmits
      <4> QED
        BY <4>1, <4>2 DEF TypeInv, RadioType
    <3> QED
      BY <3>1, <3>2
  <2> QED
    BY <1>3, <2>1, <2>2, <2>3, <2>4 DEF DrainSubmits, TypeInv
<1>4. ASSUME DrainSent PROVE TypeInv'
  <2>1. TimerType'
    BY <1>4, LetGoType DEF DrainSent
  <2>2. WorkerType' /\ Held'
    BY <1>0, <1>4 DEF DrainSent, TypeInv, WorkerType, WorkerState, Held
  <2> QED
    BY <1>4, <2>1, <2>2 DEF DrainSent, TypeInv
<1>5. [Resting EXCEPT !.pc = "next", !.rest = drain.rest] \in WorkerState
      /\ [Resting EXCEPT !.pc = "next", !.rest = drain.rest].pc = "next"
  BY <1>0, RestingType DEF WorkerState
<1>6. ASSUME DrainAwaits PROVE TypeInv'
  <2>1. JobType' /\ TimerType'
    BY <1>0, <1>6 DEF DrainAwaits, TypeInv, JobType, JobStatus, TimerType, WorkerState
  <2>2. WorkerType' /\ Held'
    BY <1>5, <1>6 DEF DrainAwaits, TypeInv, WorkerType, Held
  <2> QED
    BY <1>6, <2>1, <2>2 DEF DrainAwaits, TypeInv
<1>7. ASSUME DrainDefers PROVE TypeInv'
  <2>1. JobType' /\ SessionType'
    BY <1>0, <1>7, RequeueType DEF DrainDefers, WorkerState
  <2>2. WorkerType' /\ Held'
    BY <1>5, <1>7 DEF DrainDefers, TypeInv, WorkerType, Held
  <2> QED
    BY <1>7, <2>1, <2>2 DEF DrainDefers, TypeInv
<1> QED
  BY <1>1, <1>2, <1>3, <1>4, <1>6, <1>7 DEF Drain

LEMMA RestartedType ==
  ASSUME TypeInv, Restarted, retry' \in BOOLEAN, UNCHANGED ready
  PROVE  JobType' /\ SessionType'
  BY DEF TypeInv, Restarted, JobType, JobStatus, SessionType

LEMMA TypeTimers ==
  ASSUME TypeInv, (\E m \in Message : AckTimeout(m) \/ Requeued(m)) \/ RetryTimeout
  PROVE  TypeInv'
<1> USE Frame, WakeType DEF durable, radio, worker, bounds
<1>1. ASSUME NEW m \in Message, AckTimeout(m) PROVE TypeInv'
  <2>1. TimerType'
    BY <1>1 DEF AckTimeout, LetGo, TypeInv, TimerType
  <2>2. BoundsType'
    BY <1>1, NearbyConstants DEF AckTimeout, Fault, TypeInv, BoundsType, NearbyConstants
  <2> QED
    BY <1>1, <2>1, <2>2 DEF AckTimeout, TypeInv
<1>2. ASSUME NEW m \in Message, Requeued(m) PROVE TypeInv'
  <2>1. JobType' /\ SessionType'
    BY <1>2, RequeueType DEF Requeued
  <2>2. TimerType'
    BY <1>2 DEF Requeued, TypeInv, TimerType
  <2> QED
    BY <1>2, <2>1, <2>2 DEF Requeued, TypeInv
<1>3. ASSUME RetryTimeout PROVE TypeInv'
  <2>1. JobType' /\ SessionType'
    <3>1. CASE Restarted
      BY <1>3, <3>1, RestartedType DEF RetryTimeout
    <3>2. CASE UNCHANGED <<session, job>> /\ later' \in SUBSET later
      BY <1>3, <3>2 DEF RetryTimeout, TypeInv, JobType, SessionType
    <3> QED
      BY <1>3, <3>1, <3>2 DEF RetryTimeout
  <2> QED
    BY <1>3, <2>1 DEF RetryTimeout, TypeInv
<1> QED
  BY <1>1, <1>2, <1>3

LEMMA TypePeer ==
  ASSUME TypeInv, NEW p \in Peer, Receive(p) \/ Acknowledge(p)
  PROVE  TypeInv'
<1> USE Frame, WakeType DEF durable, radio, worker, bounds
<1>0. /\ wire \in [Peer -> Seq(Message)] /\ reply \in [Peer -> Seq(Answer)]
      /\ \A q \in Peer : q \notin ready => wire[q] = <<>> /\ reply[q] = <<>>
      /\ ack \in [Peer -> AckState] /\ ack[p].m \in Message
  BY DEF TypeInv, RadioType, AckType, AckState
<1>1. ASSUME Receive(p) PROVE TypeInv'
  <2> DEFINE m == Head(wire[p])
  <2>1. m \in Message /\ p \in ready /\ Tail(wire[p]) \in Seq(Message)
    BY <1>0, <1>1 DEF Receive
  <2>2. PICK status \in {"delivered", "invalid", "busy"} :
          reply' = [reply EXCEPT ![p] = Append(@, [m |-> m, status |-> status])]
    BY <1>1 DEF Receive
  <2>3. [m |-> m, status |-> status] \in Answer
    BY <2>1 DEF Answer
  <2>4. wire' = [wire EXCEPT ![p] = Tail(@)] /\ ready' = ready
    BY <1>1 DEF Receive
  <2>5. RadioType'
    <3> HIDE DEF m
    <3>1. Append(reply[p], [m |-> m, status |-> status]) \in Seq(Answer)
      BY <1>0, <2>3
    <3> QED
      BY <1>0, <2>1, <2>2, <2>4, <3>1 DEF RadioType
  <2>6. BoundsType'
    BY <1>1, <2>1, NearbyConstants DEF Receive, Fault, TypeInv, BoundsType, NearbyConstants
  <2> QED
    BY <1>1, <2>5, <2>6 DEF Receive, TypeInv
<1>2. ASSUME AckArrives(p) PROVE TypeInv'
  <2> DEFINE answer == Head(reply[p])
  <2>1. answer \in Answer /\ p \in ready /\ Tail(reply[p]) \in Seq(Answer)
    BY <1>0, <1>2 DEF AckArrives
  <2>2. AckType'
    BY <1>0, <1>2, <2>1 DEF AckArrives, AckType, AckState, Answer
  <2>3. RadioType'
    BY <1>0, <1>2, <2>1 DEF AckArrives, RadioType
  <2> QED
    BY <1>2, <2>2, <2>3 DEF AckArrives, TypeInv
<1>3. ASSUME AckReads(p) PROVE TypeInv'
  <2>1. TimerType'
    BY <1>3, LetGoType DEF AckReads
  <2>2. AckType'
    <3>1. CASE ack' = [ack EXCEPT ![p] = Quiet]
      BY <1>0, <3>1, RestingType DEF AckType
    <3>2. CASE \E pc \in {"settle", "fail", "defer"} : ack' = [ack EXCEPT ![p].pc = pc]
      BY <1>0, <3>2 DEF AckType, AckState
    <3>3. ack[p].status \in {"delivered", "invalid", "busy"} \/ ack[p].status = "none"
      BY <1>0 DEF AckState
    <3> QED
      BY <1>3, <3>1, <3>2, <3>3 DEF AckReads
  <2> QED
    BY <1>3, <2>1, <2>2 DEF AckReads, TypeInv
<1>4. [ack EXCEPT ![p] = Quiet] \in [Peer -> AckState]
  BY <1>0, RestingType
<1>5. ASSUME AckSettles(p) PROVE TypeInv'
  <2>1. DurableType'
    BY <1>0, <1>5 DEF AckSettles, Marked, TypeInv, DurableType
  <2>2. JobType'
    BY <1>0, <1>5 DEF AckSettles, TypeInv, JobType, JobStatus
  <2> QED
    BY <1>4, <1>5, <2>1, <2>2 DEF AckSettles, TypeInv, AckType
<1>6. ASSUME AckFails(p) PROVE TypeInv'
  <2>1. DurableType'
    BY <1>0, <1>6 DEF AckFails, Marked, TypeInv, DurableType
  <2>2. JobType'
    BY <1>0, <1>6 DEF AckFails, TypeInv, JobType, JobStatus
  <2> QED
    BY <1>4, <1>6, <2>1, <2>2 DEF AckFails, TypeInv, AckType
<1>7. ASSUME AckDefers(p) PROVE TypeInv'
  <2>1. JobType' /\ SessionType'
    BY <1>0, <1>7, RequeueType DEF AckDefers
  <2> QED
    BY <1>4, <1>7, <2>1 DEF AckDefers, TypeInv, AckType
<1> QED
  BY <1>1, <1>2, <1>3, <1>5, <1>6, <1>7 DEF Acknowledge

LEMMA DownType ==
  ASSUME TypeInv, NEW peers \in SUBSET Peer, Down(peers)
  PROVE  RadioType' /\ ready' \subseteq ready \ peers
<1>1. <<>> \in Seq(Message) /\ <<>> \in Seq(Answer)
  OBVIOUS
<1> QED
  BY <1>1 DEF TypeInv, RadioType, Down

LEMMA TornType ==
  ASSUME TypeInv, NEW peers, drain' = Torn(drain, peers), ready' \subseteq ready,
         ready \ ready' \subseteq peers
  PROVE  drain' \in WorkerState /\ Held'
  BY DEF TypeInv, WorkerType, WorkerState, Torn, Held

LEMMA TypeSession ==
  ASSUME TypeInv, Start \/ Stop \/ Crash \/ \E p \in Peer : LinkUp(p) \/ LinkDown(p)
  PROVE  TypeInv'
<1> USE Frame, WakeType DEF durable, radio, worker, bounds
<1>1. ASSUME Start PROVE TypeInv'
  <2>1. JobType' /\ SessionType'
    BY <1>1, RestartedType DEF Start, TypeInv, SessionType
  <2> QED
    BY <1>1, <2>1 DEF Start, TypeInv
<1>2. ASSUME NEW p \in Peer, LinkUp(p) PROVE TypeInv'
  <2>1. JobType' /\ SessionType' /\ RadioType'
    BY <1>2 DEF LinkUp, TypeInv, JobType, SessionType, RadioType
  <2> QED
    BY <1>2, <2>1 DEF LinkUp, TypeInv
<1>3. Fault => faults' \in 0..MaxFaults
  BY NearbyConstants DEF Fault, TypeInv, BoundsType, NearbyConstants
<1>4. ASSUME NEW p \in Peer, LinkDown(p) PROVE TypeInv'
  <2>1. RadioType' /\ ready' \subseteq ready
    BY <1>4, DownType DEF LinkDown
  <2>2. SessionType' /\ TimerType' /\ BoundsType'
    BY <1>3, <1>4, <2>1 DEF LinkDown, TypeInv, SessionType, TimerType, BoundsType
  <2>3. WorkerType' /\ Held'
    <3>1. ready \ ready' \subseteq {p}
      BY <1>4 DEF LinkDown, Down
    <3> QED
      BY <1>4, <2>1, <3>1, TornType DEF LinkDown, TypeInv, WorkerType
  <2> QED
    BY <1>4, <2>1, <2>2, <2>3 DEF LinkDown, TypeInv
<1>5. ASSUME Stop PROVE TypeInv'
  <2>1. RadioType' /\ ready' = {}
    BY <1>5, DownType DEF Stop, TypeInv, SessionType
  <2>2. SessionType' /\ TimerType' /\ BoundsType'
    BY <1>3, <1>5, <2>1 DEF Stop, TypeInv, SessionType, TimerType, BoundsType
  <2>3. WorkerType' /\ Held'
    <3>1. ready \subseteq Peer
      BY DEF TypeInv, SessionType
    <3> QED
      BY <1>5, <2>1, <3>1, TornType DEF Stop, WorkerType
  <2> QED
    BY <1>5, <2>1, <2>2, <2>3 DEF Stop, TypeInv
<1>6. ASSUME Crash PROVE TypeInv'
  <2>1. RadioType' /\ ready' = {}
    BY <1>6, DownType DEF Crash, TypeInv, SessionType
  <2>2. SessionType' /\ TimerType' /\ BoundsType'
    BY <1>3, <1>6, <2>1 DEF Crash, TypeInv, SessionType, TimerType, BoundsType
  <2>3. WorkerType' /\ Held' /\ AckType'
    BY <1>6, RestingType DEF Crash, WorkerType, Held, AckType
  <2>4. DurableType'
    BY <1>6 DEF Crash, TypeInv, DurableType
  <2> QED
    BY <1>6, <2>1, <2>2, <2>3, <2>4 DEF Crash, TypeInv
<1> QED
  BY <1>1, <1>2, <1>4, <1>5, <1>6

LEMMA TypeStep == TypeInv /\ [Next]_vars => TypeInv'
<1>1. TypeInv /\ UNCHANGED vars => TypeInv'
  BY Frame DEF vars, durable, radio, worker, bounds, TypeInv
<1> QED
  BY <1>1, TypeCompose, TypeDrain, TypeTimers, TypePeer, TypeSession DEF Next

(* The variables stay in their sets, nothing is on its way on a link that  *)
(* is down, and there are links only in a session.                         *)
THEOREM TypeCorrect == Spec => []TypeOK
<1>1. Spec => []TypeInv
  BY TypeInit, TypeStep, PTL DEF Spec
<1> QED
  BY <1>1, TypeParts, PTL

-----------------------------------------------------------------------------
(***************************************************************************)
(* What travels is addressed to its link's peer, and an answer tells what  *)
(* its peer has done.                                                      *)
(***************************************************************************)
True(answer, p, done, refused) ==
  /\ To[answer.m] = p
  /\ answer.status = "delivered" => answer.m \in done
  /\ answer.status = "invalid" => answer.m \in refused

WireIsRouted == \A p \in Peer : \A i \in 1..Len(wire[p]) : To[wire[p][i]] = p
RepliesAreTrue == \A p \in Peer : \A i \in 1..Len(reply[p]) : True(reply[p][i], p, stored, rejected)
AcksAreTrue ==
  \A p \in Peer : ack[p].pc # "idle" =>
    /\ True(ack[p], p, stored, rejected)
    /\ ack[p].pc = "settle" => ack[p].status = "delivered"
    /\ ack[p].pc = "fail" => ack[p].status = "invalid"
HonestInv == WireIsRouted /\ RepliesAreTrue /\ AcksAreTrue

LEMMA HonestInit == Init => HonestInv
  BY RestingType DEF Init, HonestInv, WireIsRouted, RepliesAreTrue, AcksAreTrue

(* Peers forget nothing. *)
LEMMA HonestFrame ==
  ASSUME HonestInv, stored \subseteq stored', rejected \subseteq rejected'
  PROVE  /\ UNCHANGED wire => WireIsRouted'
         /\ UNCHANGED reply => RepliesAreTrue'
         /\ UNCHANGED ack => AcksAreTrue'
  BY DEF HonestInv, WireIsRouted, RepliesAreTrue, AcksAreTrue, True

LEMMA HonestDown ==
  ASSUME TypeInv, HonestInv, NEW peers \in SUBSET Peer, Down(peers), UNCHANGED <<stored, rejected>>
  PROVE  WireIsRouted' /\ RepliesAreTrue'
<1>1. \A p \in Peer : wire'[p] \in {wire[p], <<>>} /\ reply'[p] \in {reply[p], <<>>}
  BY DEF Down, TypeInv, RadioType
<1> QED
  BY <1>1 DEF HonestInv, WireIsRouted, RepliesAreTrue, True

LEMMA HonestSubmit ==
  ASSUME TypeInv, HonestInv, DrainSubmits PROVE HonestInv'
<1>1. drain.m \in Message /\ To[drain.m] \in Peer /\ wire \in [Peer -> Seq(Message)]
  BY NearbyConstants DEF TypeInv, WorkerType, WorkerState, RadioType, NearbyConstants
<1>2. WireIsRouted'
  <2>1. CASE UNCHANGED wire
    BY <2>1, HonestFrame DEF DrainSubmits, bounds
  <2>2. CASE wire' = [wire EXCEPT ![To[drain.m]] = Append(@, drain.m)]
    BY <1>1, <2>2 DEF HonestInv, WireIsRouted
  <2> QED
    BY <2>1, <2>2 DEF DrainSubmits
<1> QED
  BY <1>2, HonestFrame DEF DrainSubmits, bounds, HonestInv

LEMMA HonestPeer ==
  ASSUME TypeInv, HonestInv, NEW p \in Peer, Receive(p) \/ Acknowledge(p)
  PROVE  HonestInv'
<1> USE DEF durable, radio, worker, bounds
<1>0. /\ wire \in [Peer -> Seq(Message)] /\ reply \in [Peer -> Seq(Answer)]
      /\ ack \in [Peer -> AckState]
  BY DEF TypeInv, RadioType, AckType
<1>1. ASSUME Receive(p) PROVE HonestInv'
  <2>0. PICK m \in Message : m = Head(wire[p])
    BY <1>0, <1>1, TailFacts DEF Receive
  <2>1. To[m] = p /\ wire' = [wire EXCEPT ![p] = Tail(@)] /\ wire[p] # <<>> /\ UNCHANGED ack
    BY <1>0, <1>1, <2>0, TailFacts DEF Receive, HonestInv, WireIsRouted
  <2>2. stored \subseteq stored' /\ rejected \subseteq rejected'
    BY <1>1 DEF Receive
  <2>3. PICK status \in {"delivered", "invalid", "busy"} :
          /\ reply' = [reply EXCEPT ![p] = Append(@, [m |-> m, status |-> status])]
          /\ status = "delivered" => m \in stored'
          /\ status = "invalid" => m \in rejected'
    BY <1>1, <2>0 DEF Receive
  <2>4. [m |-> m, status |-> status] \in Answer /\ True([m |-> m, status |-> status], p, stored', rejected')
    BY <2>1, <2>3 DEF True, Answer
  <2>5. WireIsRouted'
    <3> SUFFICES ASSUME NEW q \in Peer, NEW i \in 1..Len(wire'[q]) PROVE To[wire'[q][i]] = q
      BY DEF WireIsRouted
    <3>1. CASE q = p
      <4>1. wire'[q] = Tail(wire[p])
        BY <1>0, <2>1, <3>1
      <4>2. i \in 1..Len(Tail(wire[p])) /\ wire'[q][i] = Tail(wire[p])[i]
            /\ wire[p] \in Seq(Message)
        BY <1>0, <4>1
      <4>3. i + 1 \in 1..Len(wire[p]) /\ wire'[q][i] = wire[p][i + 1]
        BY <2>1, <4>2, TailFacts
      <4> QED
        BY <3>1, <4>3 DEF HonestInv, WireIsRouted
    <3>2. CASE q # p
      BY <1>0, <2>1, <3>2 DEF HonestInv, WireIsRouted
    <3> QED
      BY <3>1, <3>2
  <2>6. RepliesAreTrue'
    <3> DEFINE new == [m |-> m, status |-> status]
    <3> SUFFICES ASSUME NEW q \in Peer, NEW i \in 1..Len(reply'[q])
                 PROVE  True(reply'[q][i], q, stored', rejected')
      BY DEF RepliesAreTrue
    <3>1. CASE q = p
      <4>1. reply'[q] = Append(reply[p], new) /\ reply[p] \in Seq(Answer)
        BY <1>0, <2>3, <3>1
      <4>2. new \in Answer /\ True(new, p, stored', rejected')
        BY <2>4
      <4> HIDE DEF new
      <4>3. \/ i \in 1..Len(reply[p]) /\ reply'[q][i] = reply[p][i]
            \/ reply'[q][i] = new
        BY <4>1, <4>2, AppendFacts
      <4>4. CASE i \in 1..Len(reply[p]) /\ reply'[q][i] = reply[p][i]
        BY <2>2, <3>1, <4>4 DEF HonestInv, RepliesAreTrue, True
      <4> QED
        BY <3>1, <4>2, <4>3, <4>4 DEF True
    <3>2. CASE q # p
      <4>1. reply'[q] = reply[q]
        BY <1>0, <2>3, <3>2
      <4> QED
        BY <2>2, <4>1 DEF HonestInv, RepliesAreTrue, True
    <3> QED
      BY <3>1, <3>2
  <2> QED
    BY <2>1, <2>2, <2>5, <2>6, HonestFrame DEF HonestInv
<1>2. ASSUME AckArrives(p) PROVE HonestInv'
  <2>1. reply[p] # <<>> /\ reply' = [reply EXCEPT ![p] = Tail(@)] /\ UNCHANGED <<wire, stored, rejected>>
    BY <1>2 DEF AckArrives
  <2>2. True(Head(reply[p]), p, stored, rejected)
    BY <1>0, <2>1 DEF HonestInv, RepliesAreTrue
  <2>3. RepliesAreTrue'
    <3> SUFFICES ASSUME NEW q \in Peer, NEW i \in 1..Len(reply'[q])
                 PROVE  True(reply'[q][i], q, stored', rejected')
      BY DEF RepliesAreTrue
    <3>1. \E k \in 1..Len(reply[q]) : reply'[q][i] = reply[q][k]
      <4>1. CASE q = p
        BY <1>0, <2>1, <4>1, TailFacts
      <4>2. CASE q # p
        BY <1>0, <2>1, <4>2
      <4> QED
        BY <4>1, <4>2
    <3> QED
      BY <2>1, <3>1 DEF HonestInv, RepliesAreTrue, True
  <2>4. AcksAreTrue'
    <3> SUFFICES ASSUME NEW q \in Peer, ack'[q].pc # "idle"
                 PROVE  /\ True(ack'[q], q, stored, rejected)
                        /\ ack'[q].pc = "settle" => ack'[q].status = "delivered"
                        /\ ack'[q].pc = "fail" => ack'[q].status = "invalid"
      BY <2>1 DEF AcksAreTrue, True
    <3>1. CASE ack'[q] = ack[q]
      BY <3>1 DEF HonestInv, AcksAreTrue
    <3>2. CASE ack'[q] # ack[q]
      <4>1. q = p /\ ack'[q] = [pc |-> "read", m |-> Head(reply[p]).m,
                                status |-> Head(reply[p]).status]
        BY <1>0, <1>2, <3>2 DEF AckArrives
      <4> QED
        BY <2>2, <4>1 DEF True
    <3> QED
      BY <3>1, <3>2
  <2> QED
    BY <2>1, <2>3, <2>4, HonestFrame DEF HonestInv
<1>3. ASSUME AckReads(p) PROVE HonestInv'
  <2>1. UNCHANGED <<wire, reply, stored, rejected>>
    BY <1>3 DEF AckReads
  <2>2. AcksAreTrue'
    <3>1. CASE ack' = [ack EXCEPT ![p] = Quiet]
      BY <1>0, <2>1, <3>1, RestingType DEF HonestInv, AcksAreTrue, True
    <3>2. CASE ack' # [ack EXCEPT ![p] = Quiet]
      <4>1. PICK pc \in {"settle", "fail", "defer"} :
              /\ ack' = [ack EXCEPT ![p].pc = pc]
              /\ pc = "settle" => ack[p].status = "delivered"
              /\ pc = "fail" => ack[p].status = "invalid"
        BY <1>3, <3>2 DEF AckReads
      <4>2. ack[p].pc # "idle" /\ ack'[p].m = ack[p].m /\ ack'[p].status = ack[p].status
            /\ ack'[p].pc = pc
        BY <1>0, <1>3, <4>1 DEF AckReads, AckState
      <4>3. \A q \in Peer : q # p => ack'[q] = ack[q]
        BY <1>0, <4>1
      <4> QED
        BY <2>1, <4>1, <4>2, <4>3 DEF HonestInv, AcksAreTrue, True
    <3> QED
      BY <3>1, <3>2
  <2> QED
    BY <2>1, <2>2, HonestFrame DEF HonestInv
<1>4. ASSUME AckSettles(p) \/ AckFails(p) \/ AckDefers(p) PROVE HonestInv'
  <2>1. UNCHANGED <<wire, reply, stored, rejected>> /\ ack' = [ack EXCEPT ![p] = Quiet]
    BY <1>4 DEF AckSettles, AckFails, AckDefers
  <2>2. AcksAreTrue'
    BY <1>0, <2>1, RestingType DEF HonestInv, AcksAreTrue, True
  <2> QED
    BY <2>1, <2>2, HonestFrame DEF HonestInv
<1> QED
  BY <1>1, <1>2, <1>3, <1>4 DEF Acknowledge

LEMMA HonestStep == TypeInv /\ HonestInv /\ [Next]_vars => HonestInv'
<1> SUFFICES ASSUME TypeInv, HonestInv, [Next]_vars PROVE HonestInv'
  OBVIOUS
<1> USE HonestFrame DEF durable, radio, worker, bounds
<1>1. CASE UNCHANGED vars
  BY <1>1 DEF vars, HonestInv
<1>2. CASE Enqueue \/ RetryTimeout \/ Start
  BY <1>2 DEF Enqueue, RetryTimeout, Start, HonestInv
<1>3. CASE Drain
  BY <1>3, HonestSubmit
     DEF Drain, DrainReads, DrainNext, DrainSent, DrainAwaits, DrainDefers, HonestInv
<1>4. CASE Stop
  BY <1>4, HonestDown DEF Stop, HonestInv
<1>5. CASE Crash
  BY <1>5, HonestDown, RestingType DEF Crash, HonestInv, AcksAreTrue
<1>6. CASE \E m \in Message : Send(m) \/ Resend(m) \/ AckTimeout(m) \/ Requeued(m)
  BY <1>6 DEF Send, Resend, AckTimeout, Requeued, HonestInv
<1>7. CASE \E p \in Peer : LinkUp(p) \/ LinkDown(p)
  BY <1>7, HonestDown DEF LinkUp, LinkDown, HonestInv
<1> QED
  BY <1>1, <1>2, <1>3, <1>4, <1>5, <1>6, <1>7, HonestPeer DEF Next

-----------------------------------------------------------------------------
(***************************************************************************)
(* Every job in flight has an owner.                                       *)
(***************************************************************************)
InFlight == {"sending", "awaiting_ack"}
Owned(m) ==
  \/ m \in timers \union requeuing
  \/ drain.m = m /\ drain.pc \in {"sent", "await", "defer"}
  \/ ack[To[m]].m = m /\ ack[To[m]].pc \in {"settle", "fail", "defer"}
OwnerInv == session = "on" => \A m \in Message : job[m] \in InFlight => Owned(m)

LEMMA OwnerParts == OwnerInv <=> InFlightIsOwned
  BY DEF OwnerInv, InFlightIsOwned, InFlight, Owned

LEMMA OwnerInit == Init => OwnerInv
  BY DEF Init, OwnerInv

(* A step that puts no job in flight and leaves the owners alone. *)
LEMMA OwnerFrame ==
  ASSUME OwnerInv, session' = "on" => session = "on",
         \A m \in Message : job'[m] \in InFlight => job[m] \in InFlight,
         \A m \in Message : Owned(m) => Owned(m)' \/ job'[m] \notin InFlight
  PROVE  OwnerInv'
  BY DEF OwnerInv

(* Queuing a job again takes it out of flight. *)
LEMMA RequeueFacts ==
  ASSUME TypeInv, NEW m \in Message, Requeue(m)
  PROVE  job'[m] \notin InFlight /\ \A o \in Message : o # m => job'[o] = job[o]
  BY DEF Requeue, TypeInv, JobType, InFlight

(* A session starts with no job in flight. *)
LEMMA OwnerRestarted == TypeInv /\ Restarted => OwnerInv'
  BY DEF TypeInv, JobType, Restarted, OwnerInv, InFlight

LEMMA OwnerCompose ==
  ASSUME TypeInv, OwnerInv, (\E m \in Message : Send(m) \/ Resend(m)) \/ Enqueue
  PROVE  OwnerInv'
<1>1. job \in [Message -> JobStatus] /\ session \in {"off", "account", "on"}
  BY DEF TypeInv, JobType, SessionType
<1>2. (session' = "on" => session = "on") /\ UNCHANGED <<timers, requeuing, ack>>
  BY <1>1 DEF Send, Resend, Enqueue, Known
<1>3. \A m \in Message : job'[m] \in InFlight => job[m] \in InFlight
  BY <1>1 DEF Send, Resend, Enqueue, durable, InFlight
<1>4. drain' = drain \/ (drain.pc = "idle" /\ drain' = [drain EXCEPT !.pc = "read"])
  BY DEF Send, Resend, Enqueue, Wake, Called, worker
<1> QED
  BY <1>2, <1>3, <1>4, OwnerFrame DEF Owned

LEMMA OwnerDrain ==
  ASSUME TypeInv, OwnerInv, Drain
  PROVE  OwnerInv'
<1> USE DEF durable, radio, worker, bounds
<1>0. /\ job \in [Message -> JobStatus] /\ drain \in WorkerState /\ drain.m \in Message
      /\ timers \subseteq Message
  BY DEF TypeInv, JobType, WorkerType, WorkerState, TimerType
<1>1. CASE DrainReads
  BY <1>1, OwnerFrame DEF DrainReads, Owned
<1>2. CASE DrainNext
  <2>1. CASE UNCHANGED <<pending, timers>>
    BY <1>2, <2>1, OwnerFrame DEF DrainNext, Owned
  <2>2. CASE ~UNCHANGED <<pending, timers>>
    <3>1. PICK m \in drain.rest :
            drain' = [[Resting EXCEPT !.rest = drain.rest \ {m}, !.m = m] EXCEPT !.pc = "defer"]
            /\ LetGo(m)
      BY <1>2, <2>2 DEF DrainNext
    <3>2. drain'.m = m /\ drain'.pc = "defer"
      BY <3>1, RestingType DEF WorkerState
    <3> QED
      BY <1>2, <3>1, <3>2, OwnerFrame DEF DrainNext, LetGo, Owned
  <2> QED
    BY <2>1, <2>2
<1>3. CASE DrainSubmits
  <2>1. drain'.m = drain.m /\ drain'.pc \in {"sent", "defer"}
    BY <1>0, <1>3 DEF DrainSubmits, WorkerState
  <2>2. \A m \in Message : m # drain.m => job'[m] = job[m] /\ (m \in timers => m \in timers')
    BY <1>0, <1>3 DEF DrainSubmits, LetGo
  <2> QED
    BY <1>3, <2>1, <2>2 DEF DrainSubmits, OwnerInv, Owned
<1>4. CASE DrainSent
  <2>1. drain'.m = drain.m /\ drain'.pc \in {"await", "defer"}
    BY <1>0, <1>4 DEF DrainSent, WorkerState
  <2>2. \A m \in Message : m # drain.m => (m \in timers => m \in timers')
    BY <1>0, <1>4 DEF DrainSent, LetGo
  <2> QED
    BY <1>4, <2>1, <2>2, OwnerFrame DEF DrainSent, Owned
<1>5. CASE DrainAwaits
  <2>1. \A m \in Message : m # drain.m => job'[m] = job[m]
    BY <1>0, <1>5 DEF DrainAwaits
  <2> QED
    BY <1>5, <2>1 DEF DrainAwaits, OwnerInv, Owned
<1>6. CASE DrainDefers
  <2>1. /\ job'[drain.m] \notin InFlight
        /\ \A m \in Message : m # drain.m => job'[m] = job[m]
    BY <1>0, <1>6, RequeueFacts DEF DrainDefers
  <2> QED
    BY <1>6, <2>1 DEF DrainDefers, OwnerInv, Owned
<1> QED
  BY <1>1, <1>2, <1>3, <1>4, <1>5, <1>6 DEF Drain

LEMMA OwnerTimers ==
  ASSUME TypeInv, OwnerInv,
         (\E m \in Message : AckTimeout(m) \/ Requeued(m)) \/ RetryTimeout \/ Start
  PROVE  OwnerInv'
<1> USE DEF durable, radio, worker, bounds
<1>1. ASSUME NEW m \in Message, AckTimeout(m) PROVE OwnerInv'
  BY <1>1, OwnerFrame DEF AckTimeout, LetGo, Owned
<1>2. ASSUME NEW m \in Message, Requeued(m) PROVE OwnerInv'
  <2>1. job'[m] \notin InFlight /\ \A o \in Message : o # m => job'[o] = job[o]
    BY <1>2, RequeueFacts DEF Requeued
  <2> QED
    BY <1>2, <2>1 DEF Requeued, OwnerInv, Owned
<1>3. ASSUME UNCHANGED <<session, job, timers, requeuing, ack>>, Wake PROVE OwnerInv'
  <2>1. drain' = drain \/ (drain.pc = "idle" /\ drain' = [drain EXCEPT !.pc = "read"])
    BY <1>3 DEF Wake, Called
  <2> QED
    BY <1>3, <2>1, OwnerFrame DEF Owned
<1> QED
  BY <1>1, <1>2, <1>3, OwnerRestarted DEF RetryTimeout, Start

LEMMA OwnerPeer ==
  ASSUME TypeInv, HonestInv, OwnerInv, NEW p \in Peer, Receive(p) \/ Acknowledge(p)
  PROVE  OwnerInv'
<1> USE DEF durable, radio, worker, bounds
<1>0. /\ job \in [Message -> JobStatus] /\ ack \in [Peer -> AckState]
      /\ ack[p].m \in Message /\ \A m \in Message : To[m] \in Peer
      /\ ack[p].pc # "idle" => To[ack[p].m] = p
  BY NearbyConstants
     DEF TypeInv, JobType, AckType, AckState, HonestInv, AcksAreTrue, True, NearbyConstants
<1>1. CASE Receive(p)
  BY <1>1, OwnerFrame DEF Receive, Owned
<1>2. CASE AckArrives(p)
  <2>1. \A q \in Peer : ack'[q] = ack[q] \/ ack[q].pc = "idle"
    BY <1>0, <1>2 DEF AckArrives
  <2> QED
    BY <1>0, <1>2, <2>1, OwnerFrame DEF AckArrives, Owned
<1>3. CASE AckReads(p)
  <2>1. CASE job[ack[p].m] = "none"
    <3>1. \A q \in Peer : ack'[q] = ack[q] \/ ack[q].pc = "read"
      BY <1>0, <1>3, <2>1 DEF AckReads
    <3> QED
      BY <1>0, <1>3, <2>1, <3>1, OwnerFrame DEF AckReads, Owned
  <2>2. CASE job[ack[p].m] # "none"
    <3>1. LetGo(ack[p].m)
      BY <1>3, <2>2 DEF AckReads
    <3>2. PICK pc \in {"settle", "fail", "defer"} : ack' = [ack EXCEPT ![p].pc = pc]
      BY <1>3, <2>2 DEF AckReads
    <3>3. /\ ack'[p].m = ack[p].m /\ ack'[p].pc = pc
          /\ \A q \in Peer : q # p => ack'[q] = ack[q]
      BY <1>0, <3>2 DEF AckState
    <3> QED
      BY <1>0, <1>3, <3>1, <3>3, OwnerFrame DEF AckReads, LetGo, Owned
  <2> QED
    BY <2>1, <2>2
<1>4. CASE AckSettles(p) \/ AckFails(p) \/ AckDefers(p)
  <2>1. /\ job'[ack[p].m] \notin InFlight
        /\ \A m \in Message : m # ack[p].m => job'[m] = job[m]
    BY <1>0, <1>4, RequeueFacts DEF AckSettles, AckFails, AckDefers, InFlight
  <2>2. \A m \in Message : m # ack[p].m =>
          ack'[To[m]] = ack[To[m]] \/ ack[To[m]].m # m
    BY <1>0, <1>4 DEF AckSettles, AckFails, AckDefers
  <2>3. drain' = drain \/ (drain.pc = "idle" /\ drain' = [drain EXCEPT !.pc = "read"])
    BY <1>4 DEF AckSettles, AckFails, AckDefers, Wake, Called
  <2>4. UNCHANGED <<session, timers, requeuing>>
    BY <1>4 DEF AckSettles, AckFails, AckDefers
  <2> QED
    BY <2>1, <2>2, <2>3, <2>4 DEF OwnerInv, Owned
<1> QED
  BY <1>1, <1>2, <1>3, <1>4 DEF Acknowledge

LEMMA OwnerStep == TypeInv /\ HonestInv /\ OwnerInv /\ [Next]_vars => OwnerInv'
<1> SUFFICES ASSUME TypeInv, HonestInv, OwnerInv, [Next]_vars PROVE OwnerInv'
  OBVIOUS
<1> USE DEF durable, radio, worker, bounds
<1>1. CASE UNCHANGED vars
  BY <1>1, OwnerFrame DEF vars, Owned
<1>2. CASE Stop \/ Crash
  BY <1>2 DEF Stop, Crash, OwnerInv
<1>3. ASSUME NEW p \in Peer, LinkUp(p) PROVE OwnerInv'
  <2>1. drain' = drain \/ (drain.pc = "idle" /\ drain' = [drain EXCEPT !.pc = "read"])
    BY <1>3 DEF LinkUp, Wake, Called
  <2> QED
    BY <1>3, <2>1, OwnerFrame DEF LinkUp, Owned
<1>4. ASSUME NEW p \in Peer, LinkDown(p) PROVE OwnerInv'
  <2>1. drain'.pc = drain.pc /\ drain'.m = drain.m
    BY <1>4 DEF LinkDown, Torn, TypeInv, WorkerType, WorkerState
  <2> QED
    BY <1>4, <2>1, OwnerFrame DEF LinkDown, Owned
<1> QED
  BY <1>1, <1>2, <1>3, <1>4, OwnerCompose, OwnerDrain, OwnerTimers, OwnerPeer DEF Next

(* A job in flight always has a timer, the worker or an acknowledgement    *)
(* that will take it further.                                              *)
THEOREM InFlightHasOwner == Spec => []InFlightIsOwned
<1>1. Spec => [](TypeInv /\ HonestInv /\ OwnerInv)
  BY TypeInit, HonestInit, OwnerInit, TypeStep, HonestStep, OwnerStep, PTL DEF Spec
<1> QED
  BY <1>1, OwnerParts, PTL

-----------------------------------------------------------------------------
(***************************************************************************)
(* No message is lost unnoticed.  A job fails only of a rejection, so a    *)
(* message composed or sent again cannot inherit one.                      *)
(***************************************************************************)
KeptInv ==
  \A m \in Message :
    /\ row[m] = "sent" => m \in stored
    /\ row[m] = "queued" /\ job[m] = "none" => m \in stored
    /\ job[m] = "failed" => m \in rejected

LEMMA KeptParts == KeptInv => NothingIsLost
  BY DEF KeptInv, NothingIsLost

LEMMA KeptInit == Init => KeptInv
  BY DEF Init, KeptInv

(* A job that is there stays, does not fail, and its message is not shown  *)
(* differently.                                                            *)
LEMMA KeptFrame ==
  ASSUME KeptInv, stored \subseteq stored', rejected \subseteq rejected', UNCHANGED row,
         \A m \in Message : job'[m] = job[m] \/ job'[m] \notin {"none", "failed"}
  PROVE  KeptInv'
  BY DEF KeptInv

LEMMA RequeueKeeps ==
  ASSUME TypeInv, NEW m \in Message, Requeue(m)
  PROVE  \A o \in Message : job'[o] = job[o] \/ job'[o] \notin {"none", "failed"}
  BY DEF Requeue, TypeInv, JobType

LEMMA RestartedKeeps ==
  ASSUME TypeInv, Restarted
  PROVE  \A o \in Message : job'[o] = job[o] \/ job'[o] \notin {"none", "failed"}
  BY DEF Restarted, TypeInv, JobType

LEMMA KeptStep == TypeInv /\ HonestInv /\ KeptInv /\ [Next]_vars => KeptInv'
<1> SUFFICES ASSUME TypeInv, HonestInv, KeptInv, [Next]_vars PROVE KeptInv'
  OBVIOUS
<1> USE DEF durable, radio, worker, bounds
<1>0. /\ job \in [Message -> JobStatus] /\ drain.m \in Message
      /\ row \in [Message -> {"none", "plain", "queued", "sent", "failed"}]
      /\ composing \in Seq(Message) /\ \A p \in Peer : ack[p].m \in Message
  BY DEF TypeInv, JobType, WorkerType, WorkerState, DurableType, AckType, AckState
<1>1. CASE UNCHANGED vars
  BY <1>1, KeptFrame DEF vars
<1>2. CASE Stop \/ Crash \/ \E p \in Peer : LinkUp(p) \/ LinkDown(p)
  BY <1>2, KeptFrame DEF Stop, Crash, LinkUp, LinkDown
<1>3. CASE RetryTimeout \/ Start
  BY <1>3, RestartedKeeps, KeptFrame DEF RetryTimeout, Start
<1>4. CASE DrainReads \/ DrainNext \/ DrainSent
  BY <1>4, KeptFrame DEF DrainReads, DrainNext, DrainSent
<1>5. CASE DrainSubmits \/ DrainAwaits
  <2>1. \A m \in Message : job'[m] = job[m] \/ job'[m] \notin {"none", "failed"}
    BY <1>0, <1>5 DEF DrainSubmits, DrainAwaits
  <2> QED
    BY <1>5, <2>1, KeptFrame DEF DrainSubmits, DrainAwaits
<1>6. CASE DrainDefers
  BY <1>0, <1>6, RequeueKeeps, KeptFrame DEF DrainDefers
<1>7. ASSUME NEW m \in Message, Send(m) \/ Resend(m) \/ AckTimeout(m) \/ Requeued(m)
      PROVE  KeptInv'
  <2>1. CASE Send(m)
    BY <1>0, <2>1 DEF Send, KeptInv
  <2>2. CASE Resend(m)
    BY <1>0, <2>2 DEF Resend, KeptInv
  <2>3. CASE AckTimeout(m)
    BY <2>3, KeptFrame DEF AckTimeout
  <2>4. CASE Requeued(m)
    BY <2>4, RequeueKeeps, KeptFrame DEF Requeued
  <2> QED
    BY <1>7, <2>1, <2>2, <2>3, <2>4
<1>8. CASE Enqueue
  <2> DEFINE m == Head(composing)
  <2>1. /\ job' = [job EXCEPT ![m] = IF @ = "none" THEN "queued" ELSE @]
        /\ row' = [row EXCEPT ![m] = "queued"]
    BY <1>8 DEF Enqueue
  <2>2. m \in Message
    BY <1>0, <1>8, TailFacts DEF Enqueue
  <2>3. UNCHANGED <<stored, rejected>>
    BY <1>8 DEF Enqueue
  <2> HIDE DEF m
  <2> QED
    BY <1>0, <2>1, <2>2, <2>3 DEF KeptInv
<1>9. ASSUME NEW p \in Peer, Receive(p) PROVE KeptInv'
  BY <1>9, KeptFrame DEF Receive
<1>10. ASSUME NEW p \in Peer, Acknowledge(p) PROVE KeptInv'
  <2> DEFINE m == ack[p].m
  <2>0. /\ ack[p].pc = "settle" => m \in stored
        /\ ack[p].pc = "fail" => m \in rejected
    BY DEF HonestInv, AcksAreTrue, True
  <2>1. CASE AckArrives(p) \/ AckReads(p)
    BY <2>1, KeptFrame DEF AckArrives, AckReads
  <2>2. CASE AckSettles(p)
    BY <1>0, <2>0, <2>2 DEF AckSettles, Marked, KeptInv
  <2>3. CASE AckFails(p)
    BY <1>0, <2>0, <2>3 DEF AckFails, Marked, KeptInv
  <2>4. CASE AckDefers(p)
    BY <1>0, <2>4, RequeueKeeps, KeptFrame DEF AckDefers
  <2> QED
    BY <1>10, <2>1, <2>2, <2>3, <2>4 DEF Acknowledge
<1> QED
  BY <1>1, <1>2, <1>3, <1>4, <1>5, <1>6, <1>7, <1>8, <1>9, <1>10 DEF Next, Drain

(* A message shown as sent is stored by its peer, and one shown as queued  *)
(* has a job, is stored or was rejected.                                   *)
THEOREM NoMessageIsLost == Spec => []NothingIsLost
<1>1. Spec => [](TypeInv /\ HonestInv /\ KeptInv)
  BY TypeInit, HonestInit, KeptInit, TypeStep, HonestStep, KeptStep, PTL DEF Spec
<1> QED
  BY <1>1, KeptParts, PTL
-----------------------------------------------------------------------------
(***************************************************************************)
(* The order of a conversation.  The messages still being composed are the *)
(* last of the timeline, so that one with a job has no older one to come;  *)
(* and what is on its way, or chosen for it, had nothing unfinished before *)
(* it when it was chosen (Settled), which nothing takes back.              *)
(***************************************************************************)
InComposing(m) == \E i \in 1..Len(composing) : composing[i] = m

Placed ==
  /\ \A i \in 1..Len(timeline) : row[timeline[i]] # "none"
  /\ \A i \in 1..Len(timeline) : \A j \in 1..Len(timeline) : timeline[i] = timeline[j] => i = j
Composed ==
  /\ Len(composing) <= Len(timeline)
  /\ \A i \in 1..Len(composing) :
       /\ composing[i] = timeline[Len(timeline) - Len(composing) + i]
       /\ row[composing[i]] = "plain" /\ job[composing[i]] = "none"
Shown ==
  \A m \in Message :
    /\ row[m] = "failed" => m \in rejected
    /\ row[m] \in {"none", "plain"} => job[m] = "none"

Settled(m) ==
  m \in stored \union rejected \union resent \/ (row[m] = "plain" /\ ~InComposing(m))
Out(m) ==
  \/ m \in stored
  \/ \E i \in 1..Len(wire[To[m]]) : wire[To[m]][i] = m
  \/ m \in drain.rest
  \/ drain.pc = "sending" /\ drain.m = m

OutIsShown ==
  \A m \in Message : Out(m) \/ m \in rejected => row[m] \notin {"none", "plain"}
InTurn ==
  \A i \in 1..Len(timeline) : \A j \in 1..Len(timeline) :
    i < j /\ To[timeline[i]] = To[timeline[j]] /\ Out(timeline[j]) => Settled(timeline[i])

TurnInv == Placed /\ Composed /\ Shown /\ OutIsShown /\ InTurn

LEMMA TurnParts == TypeInv /\ TurnInv => DeliveredInOrder
<1> SUFFICES ASSUME TypeInv, TurnInv, NEW i \in 1..Len(timeline), NEW j \in 1..Len(timeline),
                    i < j, To[timeline[i]] = To[timeline[j]], timeline[j] \in stored
             PROVE  timeline[i] \in stored \union rejected \union resent \/ row[timeline[i]] = "plain"
  BY DEF DeliveredInOrder
<1>1. Out(timeline[j])
  BY DEF Out
<1>2. Settled(timeline[i])
  BY <1>1 DEF TurnInv, InTurn
<1> QED
  BY <1>2 DEF Settled

LEMMA TurnInit == Init => TurnInv
<1> SUFFICES ASSUME Init PROVE TurnInv
  OBVIOUS
<1>1. timeline = <<>> /\ composing = <<>> /\ Len(<<>>) = 0
  BY DEF Init
<1>2. \A m \in Message : ~Out(m) /\ m \notin rejected /\ row[m] = "none" /\ job[m] = "none"
  <2>1. \A m \in Message : wire[To[m]] = <<>>
    BY NearbyConstants DEF Init, NearbyConstants
  <2> QED
    BY <1>1, <2>1, RestingType DEF Init, Out
<1> QED
  BY <1>1, <1>2 DEF TurnInv, Placed, Composed, Shown, OutIsShown, InTurn

(* What most steps do to the messages: none is chosen, no job is inserted, *)
(* and one shown differently was stored or rejected by its peer.           *)
Answered(m) ==
  \/ row'[m] = row[m]
  \/ /\ m \in stored \union rejected /\ row'[m] \in {"sent", "failed"}
     /\ row'[m] = "failed" => m \in rejected

LEMMA TurnFrame ==
  ASSUME TypeInv, TurnInv, UNCHANGED timeline, composing' = composing \/ composing' = <<>>,
         stored \subseteq stored', rejected \subseteq rejected', resent \subseteq resent',
         \A m \in Message : m \in rejected' => m \in rejected \/ Out(m),
         \A m \in Message : Out(m)' => Out(m),
         \A m \in Message : job[m] = "none" => job'[m] = "none",
         \A m \in Message : Answered(m)
  PROVE  TurnInv'
<1>1. /\ timeline \in Seq(Message) /\ \A i \in 1..Len(timeline) : timeline[i] \in Message
      /\ composing \in Seq(Message) /\ \A i \in 1..Len(composing) : composing[i] \in Message
  BY DEF TypeInv, DurableType
<1>2. \A m \in Message : m \in stored \union rejected => row[m] \notin {"none", "plain"}
  BY DEF TurnInv, OutIsShown, Out
<1>3. \A m \in Message : row[m] # "none" => row'[m] # "none"
  BY DEF Answered
<1>4. Placed'
  BY <1>1, <1>3 DEF TurnInv, Placed
<1>5. Composed'
  <2>1. CASE composing' = composing
    BY <1>1, <1>2, <2>1 DEF TurnInv, Composed, Answered
  <2>2. CASE composing' = <<>>
    <3>1. Len(composing') = 0 /\ Len(timeline') \in Nat
      BY <1>1, <2>2
    <3> QED
      BY <3>1 DEF Composed
  <2> QED
    BY <2>1, <2>2
<1>6. Shown'
  BY DEF TurnInv, Shown, Answered
<1>7. OutIsShown'
  BY DEF TurnInv, OutIsShown, Answered
<1>8. ASSUME NEW m \in Message, Settled(m) PROVE Settled(m)'
  <2>1. InComposing(m)' => InComposing(m)
    BY DEF InComposing
  <2>2. CASE m \in stored \union rejected \union resent
    BY <2>2 DEF Settled
  <2>3. CASE row[m] = "plain" /\ ~InComposing(m)
    BY <1>2, <2>1, <2>3 DEF Settled, Answered
  <2> QED
    BY <1>8, <2>2, <2>3 DEF Settled
<1>9. InTurn'
  BY <1>1, <1>8 DEF TurnInv, InTurn
<1> QED
  BY <1>4, <1>5, <1>6, <1>7, <1>9 DEF TurnInv

(* A call of the worker chooses nothing. *)
LEMMA OutFrame ==
  ASSUME UNCHANGED stored, \A p \in Peer : wire'[p] = wire[p] \/ wire'[p] = <<>>,
         drain'.rest \subseteq drain.rest,
         drain'.pc = "sending" => drain.pc = "sending" /\ drain'.m = drain.m
  PROVE  \A m \in Message : Out(m)' => Out(m)
<1> SUFFICES ASSUME NEW m \in Message, Out(m)' PROVE Out(m)
  OBVIOUS
<1>1. To[m] \in Peer
  BY NearbyConstants DEF NearbyConstants
<1>2. wire'[To[m]] = wire[To[m]] \/ wire'[To[m]] = <<>>
  BY <1>1
<1>3. Len(<<>>) = 0
  OBVIOUS
<1> QED
  BY <1>2, <1>3 DEF Out

LEMMA WakeOut ==
  ASSUME TypeInv, Wake
  PROVE  /\ drain'.rest \subseteq drain.rest
         /\ drain'.pc = "sending" => drain.pc = "sending" /\ drain'.m = drain.m
  BY DEF Wake, Called, TypeInv, WorkerType, WorkerState

LEMMA TurnSend == ASSUME TypeInv, TurnInv, NEW m \in Message, Send(m) PROVE TurnInv'
<1>0. /\ timeline \in Seq(Message) /\ Len(timeline) \in Nat
      /\ \A i \in 1..Len(timeline) : timeline[i] \in Message
      /\ composing \in Seq(Message) /\ Len(composing) \in Nat
      /\ \A i \in 1..Len(composing) : composing[i] \in Message
      /\ row \in [Message -> {"none", "plain", "queued", "sent", "failed"}]
  BY DEF TypeInv, DurableType
<1>1. /\ row[m] = "none" /\ row' = [row EXCEPT ![m] = "plain"]
      /\ timeline' = Append(timeline, m) /\ composing' = Append(composing, m)
      /\ UNCHANGED <<job, wire, stored, rejected, resent, drain>>
  BY DEF Send, radio, worker, bounds
<1>2. /\ Len(timeline') = Len(timeline) + 1 /\ timeline'[Len(timeline) + 1] = m
      /\ \A i \in 1..Len(timeline) : timeline'[i] = timeline[i]
      /\ Len(composing') = Len(composing) + 1 /\ composing'[Len(composing) + 1] = m
      /\ \A i \in 1..Len(composing) : composing'[i] = composing[i]
  BY <1>0, <1>1
<1>3. /\ \A o \in Message : o # m => row'[o] = row[o]
      /\ row'[m] = "plain"
  BY <1>0, <1>1
<1>4. /\ \A i \in 1..Len(timeline') : i \in 1..Len(timeline) \/ i = Len(timeline) + 1
      /\ \A i \in 1..Len(composing') : i \in 1..Len(composing) \/ i = Len(composing) + 1
  BY <1>0, <1>2
<1>5. /\ \A i \in 1..Len(timeline) : timeline[i] # m
      /\ \A i \in 1..Len(composing) : composing[i] # m
      /\ job[m] = "none" /\ ~Out(m) /\ m \notin rejected
  BY <1>0, <1>1 DEF TurnInv, Placed, Composed, Shown, OutIsShown
<1>6. Placed'
  <2>1. \A i \in 1..Len(timeline') : row'[timeline'[i]] # "none"
    BY <1>0, <1>2, <1>3, <1>4, <1>5 DEF TurnInv, Placed
  <2>2. \A i \in 1..Len(timeline') : \A j \in 1..Len(timeline') : timeline'[i] = timeline'[j] => i = j
    BY <1>0, <1>2, <1>4, <1>5 DEF TurnInv, Placed
  <2> QED
    BY <2>1, <2>2 DEF Placed
<1>7. Composed'
  <2>0. Len(composing) <= Len(timeline)
    BY DEF TurnInv, Composed
  <2>1. ASSUME NEW i \in 1..Len(composing')
        PROVE  /\ composing'[i] = timeline'[Len(timeline') - Len(composing') + i]
               /\ row'[composing'[i]] = "plain" /\ job'[composing'[i]] = "none"
    <3>1. CASE i \in 1..Len(composing)
      <4>1. /\ composing[i] = timeline[Len(timeline) - Len(composing) + i]
            /\ row[composing[i]] = "plain" /\ job[composing[i]] = "none"
        BY <3>1 DEF TurnInv, Composed
      <4>2. Len(timeline) - Len(composing) + i \in 1..Len(timeline)
        BY <1>0, <2>0, <3>1
      <4>3. Len(timeline') - Len(composing') + i = Len(timeline) - Len(composing) + i
        BY <1>0, <1>2, <3>1
      <4> QED
        BY <1>0, <1>1, <1>2, <1>3, <1>5, <3>1, <4>1, <4>2, <4>3
    <3>2. CASE i = Len(composing) + 1
      <4>1. Len(timeline') - Len(composing') + i = Len(timeline) + 1
        BY <1>0, <1>2, <3>2
      <4> QED
        BY <1>1, <1>2, <1>3, <1>5, <3>2, <4>1
    <3> QED
      BY <1>4, <3>1, <3>2
  <2>2. Len(composing') <= Len(timeline')
    BY <1>0, <1>2, <2>0
  <2> QED
    BY <2>1, <2>2 DEF Composed
<1>8. Shown'
  BY <1>1, <1>3, <1>5 DEF TurnInv, Shown
<1>9. \A o \in Message : Out(o)' <=> Out(o)
  BY <1>1 DEF Out
<1>10. OutIsShown'
  BY <1>1, <1>3, <1>5, <1>9 DEF TurnInv, OutIsShown
<1>11. ASSUME NEW o \in Message, o # m, Settled(o) PROVE Settled(o)'
  <2>1. InComposing(o)' => InComposing(o)
    BY <1>2, <1>4, <1>11 DEF InComposing
  <2> QED
    BY <1>1, <1>3, <1>11, <2>1 DEF Settled
<1>12. InTurn'
  <2> SUFFICES ASSUME NEW i \in 1..Len(timeline'), NEW j \in 1..Len(timeline'), i < j,
                      To[timeline'[i]] = To[timeline'[j]], Out(timeline[j])'
               PROVE  Settled(timeline[i])'
    BY DEF InTurn
  <2>0. PICK newer \in Message : newer = timeline'[j]
    BY <1>0, <1>2, <1>4
  <2>a. Out(newer)
    <3>1. Out(newer)'
      BY <2>0 DEF Out
    <3> QED
      BY <1>9, <3>1
  <2>1. j \in 1..Len(timeline)
    BY <1>2, <1>4, <1>5, <2>0, <2>a
  <2>2. i \in 1..Len(timeline)
    BY <1>0, <1>4, <2>1
  <2>b. PICK older \in Message : older = timeline[i] /\ older # m
    BY <1>0, <1>5, <2>2
  <2>3. timeline'[i] = older /\ newer = timeline[j]
    BY <1>2, <2>0, <2>1, <2>2, <2>b
  <2>5. Settled(older)
    BY <2>0, <2>1, <2>2, <2>3, <2>a, <2>b DEF TurnInv, InTurn
  <2>6. Settled(older)'
    BY <1>11, <2>5, <2>b
  <2> QED
    BY <2>3, <2>6 DEF Settled, InComposing
<1> QED
  BY <1>6, <1>7, <1>8, <1>10, <1>12 DEF TurnInv

LEMMA TurnEnqueue == ASSUME TypeInv, TurnInv, Enqueue PROVE TurnInv'
<1>0. /\ timeline \in Seq(Message) /\ Len(timeline) \in Nat
      /\ \A i \in 1..Len(timeline) : timeline[i] \in Message
      /\ composing \in Seq(Message) /\ Len(composing) \in Nat
      /\ \A i \in 1..Len(composing) : composing[i] \in Message
      /\ row \in [Message -> {"none", "plain", "queued", "sent", "failed"}]
      /\ job \in [Message -> JobStatus]
  BY DEF TypeInv, DurableType, JobType
<1>1. PICK m \in Message : m = Head(composing)
  BY <1>0, TailFacts DEF Enqueue
<1>2. /\ composing # <<>> /\ composing' = Tail(composing)
      /\ job' = [job EXCEPT ![m] = IF @ = "none" THEN "queued" ELSE @]
      /\ row' = [row EXCEPT ![m] = "queued"]
      /\ UNCHANGED <<timeline, wire, stored, rejected, resent>> /\ Wake
  BY <1>1 DEF Enqueue, radio, bounds
<1>3. /\ m = composing[1] /\ 1 \in 1..Len(composing)
      /\ Len(composing') = Len(composing) - 1
      /\ \A i \in 1..Len(composing') : composing'[i] = composing[i + 1] /\ i + 1 \in 1..Len(composing)
  BY <1>0, <1>1, <1>2, TailFacts
<1>4. /\ \A o \in Message : o # m => row'[o] = row[o] /\ job'[o] = job[o]
      /\ row'[m] = "queued"
  BY <1>0, <1>2
<1>5. /\ Len(composing) <= Len(timeline)
      /\ \A i \in 1..Len(composing) :
           /\ composing[i] = timeline[Len(timeline) - Len(composing) + i]
           /\ Len(timeline) - Len(composing) + i \in 1..Len(timeline)
           /\ row[composing[i]] = "plain" /\ job[composing[i]] = "none"
  BY <1>0 DEF TurnInv, Composed
<1>6. \A i \in 1..Len(composing') : composing'[i] \in Message /\ composing'[i] # m
  <2> SUFFICES ASSUME NEW i \in 1..Len(composing') PROVE composing[i + 1] \in Message /\ composing[i + 1] # m
    BY <1>3
  <2> DEFINE k == Len(timeline) - Len(composing)
  <2>1. i + 1 \in 1..Len(composing) /\ k + (i + 1) # k + 1
    BY <1>0, <1>3
  <2>2. /\ composing[i + 1] = timeline[k + (i + 1)] /\ k + (i + 1) \in 1..Len(timeline)
        /\ m = timeline[k + 1] /\ k + 1 \in 1..Len(timeline)
    BY <1>3, <1>5, <2>1
  <2> HIDE DEF k
  <2> QED
    BY <1>0, <2>1, <2>2 DEF TurnInv, Placed
<1>7. Placed'
  BY <1>0, <1>2, <1>4 DEF TurnInv, Placed
<1>8. Composed'
  <2>1. ASSUME NEW i \in 1..Len(composing')
        PROVE  /\ composing'[i] = timeline[Len(timeline) - Len(composing') + i]
               /\ row'[composing'[i]] = "plain" /\ job'[composing'[i]] = "none"
    <3>1. /\ composing'[i] = composing[i + 1] /\ i + 1 \in 1..Len(composing)
          /\ composing'[i] \in Message /\ composing'[i] # m
      BY <1>3, <1>6
    <3>2. Len(timeline) - Len(composing') + i = Len(timeline) - Len(composing) + (i + 1)
      BY <1>0, <1>3
    <3>3. /\ composing[i + 1] = timeline[Len(timeline) - Len(composing) + (i + 1)]
          /\ row[composing[i + 1]] = "plain" /\ job[composing[i + 1]] = "none"
      BY <1>5, <3>1
    <3>4. composing'[i] = timeline[Len(timeline) - Len(composing') + i]
      BY <3>1, <3>2, <3>3
    <3> QED
      BY <1>4, <3>1, <3>3, <3>4
  <2>2. Len(composing') <= Len(timeline)
    BY <1>0, <1>3, <1>5
  <2> QED
    BY <1>2, <2>1, <2>2 DEF Composed
<1>9. Shown'
  BY <1>2, <1>4 DEF TurnInv, Shown
<1>10. \A o \in Message : Out(o)' => Out(o)
  BY <1>2, WakeOut, OutFrame
<1>11. OutIsShown'
  BY <1>2, <1>4, <1>10 DEF TurnInv, OutIsShown
<1>12. ASSUME NEW o \in Message, Settled(o) PROVE Settled(o)'
  <2>1. InComposing(o)' => InComposing(o)
    BY <1>3 DEF InComposing
  <2>2. o = m => InComposing(o)
    BY <1>3 DEF InComposing
  <2>3. CASE o \in stored \union rejected \union resent
    BY <1>2, <2>3 DEF Settled
  <2>4. CASE row[o] = "plain" /\ ~InComposing(o)
    BY <1>4, <2>1, <2>2, <2>4 DEF Settled
  <2> QED
    BY <1>12, <2>3, <2>4 DEF Settled
<1>13. InTurn'
  BY <1>0, <1>2, <1>10, <1>12 DEF TurnInv, InTurn
<1> QED
  BY <1>7, <1>8, <1>9, <1>11, <1>13 DEF TurnInv

LEMMA TurnResend == ASSUME TypeInv, TurnInv, NEW m \in Message, Resend(m) PROVE TurnInv'
<1>0. /\ timeline \in Seq(Message) /\ Len(timeline) \in Nat
      /\ \A i \in 1..Len(timeline) : timeline[i] \in Message
      /\ composing \in Seq(Message) /\ Len(composing) \in Nat
      /\ \A i \in 1..Len(composing) : composing[i] \in Message
      /\ row \in [Message -> {"none", "plain", "queued", "sent", "failed"}]
      /\ job \in [Message -> JobStatus]
  BY DEF TypeInv, DurableType, JobType
<1>1. /\ m \notin Range(composing) /\ resent' = resent \union {m}
      /\ job' = [job EXCEPT ![m] = "queued"] /\ row' = [row EXCEPT ![m] = "queued"]
      /\ UNCHANGED <<timeline, composing, wire, stored, rejected>> /\ Wake
  BY DEF Resend, radio
<1>2. \A i \in 1..Len(composing) : composing[i] # m
  BY <1>0, <1>1 DEF Range
<1>3. /\ \A o \in Message : o # m => row'[o] = row[o] /\ job'[o] = job[o]
      /\ row'[m] = "queued"
  BY <1>0, <1>1
<1>4. Placed'
  BY <1>0, <1>1, <1>3 DEF TurnInv, Placed
<1>5. Composed'
  BY <1>0, <1>1, <1>2, <1>3 DEF TurnInv, Composed
<1>6. Shown'
  BY <1>1, <1>3 DEF TurnInv, Shown
<1>7. \A o \in Message : Out(o)' => Out(o)
  BY <1>1, WakeOut, OutFrame
<1>8. OutIsShown'
  BY <1>1, <1>3, <1>7 DEF TurnInv, OutIsShown
<1>9. ASSUME NEW o \in Message, Settled(o) PROVE Settled(o)'
  BY <1>1, <1>3, <1>9 DEF Settled, InComposing
<1>10. InTurn'
  BY <1>0, <1>1, <1>7, <1>9 DEF TurnInv, InTurn
<1> QED
  BY <1>4, <1>5, <1>6, <1>8, <1>10 DEF TurnInv

(* What the worker chooses has nothing unfinished before it. *)
LEMMA ChosenInTurn ==
  ASSUME TypeInv, KeptInv, TurnInv,
         NEW i \in 1..Len(timeline), NEW j \in 1..Len(timeline), i < j,
         To[timeline[i]] = To[timeline[j]], timeline[j] \in Heads, job[timeline[j]] = "queued"
  PROVE  Settled(timeline[i])
<1>0. /\ timeline \in Seq(Message) /\ Len(timeline) \in Nat
      /\ \A k \in 1..Len(timeline) : timeline[k] \in Message
      /\ Len(composing) \in Nat
      /\ row \in [Message -> {"none", "plain", "queued", "sent", "failed"}]
      /\ job \in [Message -> JobStatus]
  BY DEF TypeInv, DurableType, JobType
<1>1. PICK older \in Message, newer \in Message : older = timeline[i] /\ newer = timeline[j]
  BY <1>0
<1>2. job[older] \notin Live
  <2>1. PICK k \in 1..Len(timeline) :
          /\ timeline[k] = newer
          /\ \A l \in 1..(k - 1) :
               To[timeline[l]] = To[newer] => timeline[l] \notin {m \in Message : job[m] \in Live}
    BY <1>1 DEF Heads, FirstOf
  <2>2. k = j
    BY <1>1, <2>1 DEF TurnInv, Placed
  <2>3. i \in 1..(k - 1)
    BY <1>0, <2>2
  <2> QED
    BY <1>1, <2>1, <2>3
<1>3. ~InComposing(older)
  <2> SUFFICES ASSUME NEW a \in 1..Len(composing), composing[a] = older PROVE FALSE
    BY DEF InComposing
  <2> DEFINE n == Len(timeline) - Len(composing)
  <2>1. n \in Nat /\ n + Len(composing) = Len(timeline)
    BY <1>0 DEF TurnInv, Composed
  <2>2. \A b \in 1..Len(composing) : composing[b] = timeline[n + b] /\ job[composing[b]] = "none"
    BY DEF TurnInv, Composed
  <2> HIDE DEF n
  <2>3. timeline[n + a] = timeline[i] /\ n + a \in 1..Len(timeline)
    BY <1>0, <1>1, <2>1, <2>2
  <2>4. n + a = i
    BY <2>3 DEF TurnInv, Placed
  <2>5. j - n \in 1..Len(composing) /\ n + (j - n) = j
    BY <1>0, <2>1, <2>4
  <2>6. job[timeline[j]] = "none"
    BY <2>2, <2>5
  <2> QED
    BY <2>6
<1>4. job[older] \in {"none", "failed"}
  BY <1>0, <1>2 DEF JobStatus, Live
<1>5. row[older] \in {"plain", "queued", "sent", "failed"}
  BY <1>0, <1>1 DEF TurnInv, Placed
<1>6. Settled(older)
  BY <1>3, <1>4, <1>5 DEF Settled, KeptInv, TurnInv, Shown
<1> QED
  BY <1>1, <1>6

LEMMA TurnReads == ASSUME TypeInv, KeptInv, TurnInv, DrainReads PROVE TurnInv'
<1>0. /\ timeline \in Seq(Message) /\ \A k \in 1..Len(timeline) : timeline[k] \in Message
  BY DEF TypeInv, DurableType
<1>1. UNCHANGED <<timeline, composing, row, job, wire, stored, rejected, resent>>
  BY DEF DrainReads, radio, bounds
<1>2. CASE drain'.rest \subseteq drain.rest /\ drain'.pc # "sending"
  BY <1>1, <1>2, OutFrame, TurnFrame DEF Answered
<1>3. CASE /\ drain'.rest \subseteq {m \in Heads : job[m] = "queued"}
           /\ drain'.pc # "sending"
  <2>1. ASSUME NEW m \in Message, Out(m)' PROVE Out(m) \/ (m \in Heads /\ job[m] = "queued")
    BY <1>1, <1>3, <2>1 DEF Out
  <2>2. Placed' /\ Composed' /\ Shown'
    BY <1>1 DEF TurnInv, Placed, Composed, Shown
  <2>3. OutIsShown'
    BY <1>1, <2>1 DEF TurnInv, OutIsShown, Shown
  <2>4. \A m \in Message : Settled(m)' <=> Settled(m)
    BY <1>1 DEF Settled, InComposing
  <2>5. InTurn'
    <3> SUFFICES ASSUME NEW i \in 1..Len(timeline), NEW j \in 1..Len(timeline), i < j,
                        To[timeline[i]] = To[timeline[j]], Out(timeline[j])'
                 PROVE  Settled(timeline[i])'
      BY <1>1 DEF InTurn
    <3>1. PICK older \in Message, newer \in Message : older = timeline[i] /\ newer = timeline[j]
      BY <1>0
    <3>2. Out(newer)'
      BY <1>1, <3>1 DEF Out
    <3>3. Settled(older)
      <4>1. CASE Out(newer)
        BY <3>1, <4>1 DEF TurnInv, InTurn
      <4>2. CASE newer \in Heads /\ job[newer] = "queued"
        BY <3>1, <4>2, ChosenInTurn
      <4> QED
        BY <2>1, <3>2, <4>1, <4>2
    <3>4. Settled(older)'
      BY <2>4, <3>3
    <3> QED
      BY <1>1, <3>1, <3>4 DEF Settled, InComposing
  <2> QED
    BY <2>2, <2>3, <2>5 DEF TurnInv
<1>4. drain.pc = "read" /\ drain \in WorkerState
  BY DEF DrainReads, TypeInv, WorkerType
<1>5. CASE session = "off"
  <2>1. drain' = Called(Resting, session) \/ drain' = Resting
    BY <1>5 DEF DrainReads, Finished
  <2>2. drain'.rest = {} /\ drain'.pc # "sending"
    BY <2>1, RestingType DEF Called, WorkerState
  <2> QED
    BY <1>2, <2>2
<1>6. CASE session # "off"
  <2>1. PICK ahead \in SUBSET later :
          drain' = [drain EXCEPT !.pc = "next",
                                 !.rest = {m \in Heads : job[m] = "queued" /\ m \notin ahead}]
    BY <1>6 DEF DrainReads
  <2> DEFINE due == {m \in Heads : job[m] = "queued" /\ m \notin ahead}
  <2>2. drain' = [drain EXCEPT !.pc = "next", !.rest = due] /\ due \subseteq {m \in Heads : job[m] = "queued"}
    BY <2>1
  <2> HIDE DEF due
  <2>3. drain'.rest = due /\ drain'.pc = "next"
    BY <1>4, <2>2 DEF WorkerState
  <2> QED
    BY <1>3, <2>2, <2>3
<1> QED
  BY <1>5, <1>6

LEMMA TurnDrain ==
  ASSUME TypeInv, HonestInv, KeptInv, TurnInv, Drain
  PROVE  TurnInv'
<1> USE DEF durable, radio, worker, bounds
<1>0. /\ drain \in WorkerState /\ job \in [Message -> JobStatus] /\ drain.m \in Message
      /\ wire \in [Peer -> Seq(Message)] /\ To[drain.m] \in Peer
  BY NearbyConstants DEF NearbyConstants, TypeInv, WorkerType, WorkerState, JobType, RadioType
<1>1. CASE DrainReads
  BY <1>1, TurnReads
<1>2. CASE DrainNext
  <2>1. ASSUME NEW m \in Message, Out(m)' PROVE Out(m)
    <3>1. UNCHANGED <<stored, wire>>
      BY <1>2 DEF DrainNext
    <3>2. CASE drain' = Called(Resting, session) \/ drain' = Resting
      <4>1. drain'.rest = {} /\ drain'.pc # "sending"
        BY <3>2, RestingType DEF Called, WorkerState
      <4> QED
        BY <2>1, <3>1, <4>1 DEF Out
    <3>3. ASSUME NEW o \in drain.rest, NEW pc \in {"sending", "defer"},
                 drain' = [[Resting EXCEPT !.rest = drain.rest \ {o}, !.m = o] EXCEPT !.pc = pc]
          PROVE  Out(m)
      <4> DEFINE rest == drain.rest \ {o}
      <4>1. Resting \in WorkerState /\ rest \subseteq drain.rest
        BY RestingType
      <4>2. drain' = [[Resting EXCEPT !.rest = rest, !.m = o] EXCEPT !.pc = pc]
        BY <3>3
      <4> HIDE DEF rest
      <4>3. drain'.rest = rest /\ drain'.m = o
        BY <4>1, <4>2 DEF WorkerState
      <4> QED
        BY <2>1, <3>1, <4>1, <4>3 DEF Out
    <3> QED
      BY <1>2, <3>2, <3>3 DEF DrainNext, Finished
  <2> QED
    BY <1>2, <2>1, TurnFrame DEF DrainNext, Answered
<1>3. CASE DrainSubmits
  <2>1. /\ drain.pc = "sending" /\ UNCHANGED stored
        /\ drain' = [drain EXCEPT !.pc = "defer"] \/ drain' = [drain EXCEPT !.pc = "sent"]
    BY <1>3 DEF DrainSubmits
  <2>2. drain'.rest = drain.rest /\ drain'.pc # "sending"
    BY <1>0, <2>1 DEF WorkerState
  <2>3. Out(drain.m)
    BY <2>1 DEF Out
  <2>4. ASSUME NEW m \in Message, NEW i \in 1..Len(wire'[To[m]]), wire'[To[m]][i] = m PROVE Out(m)
    <3>1. To[m] \in Peer
      BY NearbyConstants DEF NearbyConstants
    <3>2. CASE wire'[To[m]] = wire[To[m]]
      BY <2>4, <3>2 DEF Out
    <3>3. CASE wire'[To[m]] = Append(wire[To[m]], drain.m)
      <4>1. \/ i \in 1..Len(wire[To[m]]) /\ wire'[To[m]][i] = wire[To[m]][i]
            \/ wire'[To[m]][i] = drain.m
        BY <1>0, <3>1, <3>3, AppendFacts
      <4> QED
        BY <2>3, <2>4, <4>1 DEF Out
    <3>4. wire' = wire \/ wire' = [wire EXCEPT ![To[drain.m]] = Append(@, drain.m)]
      BY <1>3 DEF DrainSubmits
    <3> QED
      BY <1>0, <3>1, <3>2, <3>3, <3>4
  <2>5. \A m \in Message : Out(m)' => Out(m)
    BY <2>1, <2>2, <2>4 DEF Out
  <2>6. \A m \in Message : job[m] = "none" => job'[m] = "none"
    BY <1>0, <1>3 DEF DrainSubmits
  <2> QED
    BY <1>3, <2>5, <2>6, TurnFrame DEF DrainSubmits, Answered
<1>4. CASE DrainSent \/ DrainAwaits \/ DrainDefers
  <2>1. \/ drain' = [drain EXCEPT !.pc = "await"] \/ drain' = [drain EXCEPT !.pc = "defer"]
        \/ drain' = [Resting EXCEPT !.pc = "next", !.rest = drain.rest]
    BY <1>4 DEF DrainSent, DrainAwaits, DrainDefers
  <2>2. drain'.rest = drain.rest /\ drain'.pc # "sending"
    BY <1>0, <2>1, RestingType DEF WorkerState
  <2>3. \A m \in Message : Out(m)' => Out(m)
    BY <1>4, <2>2, OutFrame DEF DrainSent, DrainAwaits, DrainDefers
  <2>4. \A m \in Message : job[m] = "none" => job'[m] = "none"
    BY <1>0, <1>4 DEF DrainSent, DrainAwaits, DrainDefers, Requeue
  <2> QED
    BY <1>4, <2>3, <2>4, TurnFrame DEF DrainSent, DrainAwaits, DrainDefers, Answered
<1> QED
  BY <1>1, <1>2, <1>3, <1>4 DEF Drain

LEMMA TurnPeer ==
  ASSUME TypeInv, HonestInv, TurnInv, NEW p \in Peer, Receive(p) \/ Acknowledge(p)
  PROVE  TurnInv'
<1> USE DEF durable, radio, worker, bounds
<1>0. /\ wire \in [Peer -> Seq(Message)] /\ job \in [Message -> JobStatus]
      /\ row \in [Message -> {"none", "plain", "queued", "sent", "failed"}]
      /\ \A q \in Peer : ack[q].m \in Message
  BY DEF TypeInv, RadioType, JobType, DurableType, AckType, AckState
<1>1. CASE Receive(p)
  <2>0. PICK m \in Message : m = Head(wire[p])
    BY <1>0, <1>1, TailFacts DEF Receive
  <2>1. To[m] = p /\ wire[p] # <<>> /\ wire' = [wire EXCEPT ![p] = Tail(@)] /\ Out(m)
    <3>1. wire[p] # <<>> /\ wire[p] \in Seq(Message) /\ wire' = [wire EXCEPT ![p] = Tail(@)]
      BY <1>0, <1>1 DEF Receive
    <3>2. m = wire[p][1] /\ 1 \in 1..Len(wire[p])
      BY <2>0, <3>1, TailFacts
    <3> QED
      BY <3>1, <3>2 DEF HonestInv, WireIsRouted, Out
  <2>2. /\ stored' = stored \/ stored' = stored \union {m}
        /\ rejected' = rejected \/ rejected' = rejected \union {m}
        /\ UNCHANGED <<drain, timeline, composing, row, job, resent>>
    BY <1>1, <2>0 DEF Receive
  <2>3. ASSUME NEW o \in Message, NEW i \in 1..Len(wire'[To[o]]), wire'[To[o]][i] = o PROVE Out(o)
    <3>1. To[o] \in Peer
      BY NearbyConstants DEF NearbyConstants
    <3>2. CASE To[o] = p
      <4>1. wire'[p] = Tail(wire[p])
        BY <1>0, <2>1
      <4>2. o = wire[p][i + 1] /\ i + 1 \in 1..Len(wire[p])
        BY <1>0, <2>1, <2>3, <3>2, <4>1, TailFacts
      <4> QED
        BY <3>2, <4>2 DEF Out
    <3>3. CASE To[o] # p
      <4>1. wire'[To[o]] = wire[To[o]]
        BY <1>0, <2>1, <3>1, <3>3
      <4> QED
        BY <2>3, <4>1 DEF Out
    <3> QED
      BY <3>2, <3>3
  <2>4. \A o \in Message : Out(o)' => Out(o)
    BY <2>1, <2>2, <2>3 DEF Out
  <2> QED
    BY <2>1, <2>2, <2>4, TurnFrame DEF Answered
<1>2. CASE Acknowledge(p)
  <2> DEFINE m == ack[p].m
  <2>0. m \in Message
    BY <1>0
  <2>1. /\ ack[p].pc = "settle" => m \in stored
        /\ ack[p].pc = "fail" => m \in rejected
    BY DEF HonestInv, AcksAreTrue, True
  <2>2. /\ UNCHANGED <<timeline, composing, stored, rejected, resent, wire>>
        /\ Wake \/ UNCHANGED drain
    BY <1>2 DEF Acknowledge, AckArrives, AckReads, AckSettles, AckFails, AckDefers
  <2>3. \A o \in Message : Out(o)' => Out(o)
    BY <2>2, WakeOut, OutFrame
  <2>4. \A o \in Message : job[o] = "none" => job'[o] = "none"
    BY <1>0, <1>2 DEF Acknowledge, AckArrives, AckReads, AckSettles, AckFails, AckDefers, Requeue
  <2>5. \/ UNCHANGED row
        \/ m \in stored /\ row' = [row EXCEPT ![m] = "sent"]
        \/ m \in rejected /\ row' = [row EXCEPT ![m] = "failed"]
    BY <1>2, <2>1 DEF Acknowledge, AckArrives, AckReads, AckSettles, AckFails, AckDefers, Marked
  <2> HIDE DEF m
  <2>6. \A o \in Message : Answered(o)
    BY <1>0, <2>0, <2>5 DEF Answered
  <2> QED
    BY <2>2, <2>3, <2>4, <2>6, TurnFrame
<1> QED
  BY <1>1, <1>2

LEMMA TurnStep == TypeInv /\ HonestInv /\ KeptInv /\ TurnInv /\ [Next]_vars => TurnInv'
<1> SUFFICES ASSUME TypeInv, HonestInv, KeptInv, TurnInv, [Next]_vars PROVE TurnInv'
  OBVIOUS
<1> USE DEF durable, radio, worker, bounds
<1>0. /\ job \in [Message -> JobStatus] /\ drain \in WorkerState
      /\ wire \in [Peer -> Seq(Message)]
  BY DEF TypeInv, JobType, WorkerType, RadioType
<1>1. CASE UNCHANGED vars
  BY <1>1, OutFrame, TurnFrame DEF vars, Answered
<1>2. CASE RetryTimeout \/ Start
  <2>1. /\ UNCHANGED <<timeline, composing, row, wire, stored, rejected, resent>> /\ Wake
        /\ Restarted \/ UNCHANGED job
    BY <1>2 DEF RetryTimeout, Start
  <2>2. \A m \in Message : job[m] = "none" => job'[m] = "none"
    BY <2>1 DEF Restarted
  <2> QED
    BY <2>1, <2>2, WakeOut, OutFrame, TurnFrame DEF Answered
<1>3. CASE Stop \/ Crash \/ \E p \in Peer : LinkUp(p) \/ LinkDown(p)
  <2>1. /\ UNCHANGED <<timeline, row, job, stored, rejected, resent>>
        /\ composing' = composing \/ composing' = <<>>
    BY <1>3 DEF Stop, Crash, LinkUp, LinkDown
  <2>2. \A p \in Peer : wire'[p] = wire[p] \/ wire'[p] = <<>>
    BY <1>0, <1>3 DEF Stop, Crash, LinkUp, LinkDown, Down
  <2>3. /\ drain'.rest \subseteq drain.rest
        /\ drain'.pc = "sending" => drain.pc = "sending" /\ drain'.m = drain.m
    <3>1. \/ Wake \/ drain' = Resting \/ \E peers \in SUBSET Peer : drain' = Torn(drain, peers)
      BY <1>3 DEF Stop, Crash, LinkUp, LinkDown
    <3>2. ASSUME NEW peers \in SUBSET Peer, drain' = Torn(drain, peers)
          PROVE  drain'.rest = drain.rest /\ drain'.pc = drain.pc /\ drain'.m = drain.m
      BY <1>0, <3>2 DEF Torn, WorkerState
    <3> QED
      BY <3>1, <3>2, WakeOut, RestingType
  <2> QED
    BY <2>1, <2>2, <2>3, OutFrame, TurnFrame DEF Answered
<1>4. ASSUME NEW m \in Message, AckTimeout(m) \/ Requeued(m) PROVE TurnInv'
  <2>1. UNCHANGED <<timeline, composing, row, wire, stored, rejected, resent, drain>>
    BY <1>4 DEF AckTimeout, Requeued
  <2>2. \A o \in Message : job[o] = "none" => job'[o] = "none"
    BY <1>0, <1>4 DEF AckTimeout, Requeued, Requeue
  <2> QED
    BY <2>1, <2>2, OutFrame, TurnFrame DEF Answered
<1> QED
  BY <1>1, <1>2, <1>3, <1>4, TurnSend, TurnResend, TurnEnqueue, TurnDrain, TurnPeer DEF Next

(* A peer has a message only if it has every older one of the conversation *)
(* too, except one that it rejected, that was sent again or whose job was  *)
(* lost with the process before it was inserted.                           *)
THEOREM ConversationsInOrder == Spec => []DeliveredInOrder
<1>1. Spec => [](TypeInv /\ HonestInv /\ KeptInv /\ TurnInv)
  BY TypeInit, HonestInit, KeptInit, TurnInit, TypeStep, HonestStep, KeptStep, TurnStep, PTL DEF Spec
<1> QED
  BY <1>1, TurnParts, PTL
=============================================================================
