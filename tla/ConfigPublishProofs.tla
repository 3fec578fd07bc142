------------------------ MODULE ConfigPublishProofs ------------------------
(***************************************************************************)
(* What the publication of settings promises for any coordinates, relays,  *)
(* events and edits.  The invariant has a part per concern, each proved of *)
(* every action on top of the earlier ones.                                *)
(***************************************************************************)
EXTENDS ConfigPublish, FiniteSetTheorems, TLAPS

Said == {Nothing, Unsigned} \cup Own \cup Other

Row == [event : Ranks, acks : SUBSET Relay, due : BOOLEAN]
Delivery == [stage : {"none", "route", "check", "publish", "recheck", "settle"},
             event : Ranks, acks : SUBSET Relay, targets : SUBSET Relay]
Edit == [stage : {"none", "read", "sign", "route", "publish", "commit"}, text : Said,
         wait : BOOLEAN, base : Ranks, after : Ranks, event : Ranks,
         targets : SUBSET Relay]
Job == [stage : {"none", "queued", "start", "previous", "commit"}, again : BOOLEAN,
        revision : Nat, text : Said, previous : Ranks]
ListState == [revision : Nat, dirty : BOOLEAN, event : Ranks]

RowsTyped ==
    /\ cached \in [Slot -> Ranks] /\ pending \in [Slot -> Row]
    /\ content \in [Slot -> Said] /\ list \in [Slot -> ListState]
JobsTyped ==
    /\ edit \in [Slot -> Edit] /\ signedAt \in [Slot -> Ranks]
    /\ job \in [Slot -> Job] /\ reconcile \in [Slot -> Ranks]
ObservedTyped ==
    /\ made \in [Slot -> [Event -> Said]]
    /\ ackedBy \in [Slot -> [Event -> SUBSET Relay]]
    /\ reached \in [Slot -> SUBSET Event] /\ confirmed \in [Slot -> SUBSET Event]
    /\ handed \in [Slot -> SUBSET Event]

OthersTyped ==
    /\ delivery \in [Slot -> Delivery] /\ routes \in SUBSET Relay \ {{}}
    /\ edits \in Nat
(* What is being published is an event. *)
Signed(s) == edit[s].stage \in {"route", "publish", "commit"} => edit[s].event \in Event
Taken(s) == delivery[s].stage # "none" => delivery[s].event \in Event

TypeInv ==
    /\ RowsTyped /\ JobsTyped /\ ObservedTyped /\ OthersTyped
    /\ \A s \in Slot : Signed(s) /\ Taken(s)
-----------------------------------------------------------------------------
LEMMA Basics ==
    /\ Ranks \subseteq Nat /\ Event \subseteq Ranks /\ NoEvent \in Ranks /\ NoEvent \notin Event
    /\ \A e \in Ranks : e # NoEvent => e \in Event
    /\ \A a, b \in Ranks : Newest(a, b) \in Ranks /\ Newest(a, b) >= a /\ Newest(a, b) >= b
    /\ NoRow \in Row /\ NoDelivery \in Delivery /\ NoEdit \in Edit /\ NoJobHere \in Job
BY ConfigConstants DEF Ranks, Event, NoEvent, Newest, NoRow, NoDelivery, NoEdit, NoJobHere,
   Row, Delivery, Edit, Job, Said

LEMMA TypeInit == Init => TypeInv
<1> SUFFICES ASSUME Init PROVE TypeInv
  OBVIOUS
<1>1. RowsTyped /\ JobsTyped
  BY Basics DEF Init, RowsTyped, JobsTyped, ListState, Said
<1>2. ObservedTyped /\ delivery \in [Slot -> Delivery] /\ edits \in Nat
  BY Basics DEF Init, ObservedTyped, Said
<1>3. routes \in SUBSET Relay \ {{}}
  BY DEF Init
<1>4. \A s \in Slot : edit[s].stage = "none" /\ delivery[s].stage = "none"
  BY DEF Init, NoEdit, NoDelivery
<1> QED
  BY <1>1, <1>2, <1>3, <1>4 DEF TypeInv, OthersTyped, Signed, Taken

-----------------------------------------------------------------------------
(* The tables and jobs that a step leaves alone keep their types.          *)
LEMMA RowsFrame == ASSUME RowsTyped, UNCHANGED rows PROVE RowsTyped'
BY DEF RowsTyped, rows

LEMMA JobsFrame == ASSUME JobsTyped, UNCHANGED signing PROVE JobsTyped'
BY DEF JobsTyped, signing

LEMMA ObservedFrame == ASSUME ObservedTyped, UNCHANGED observed PROVE ObservedTyped'
BY DEF ObservedTyped, observed

LEMMA EnqueueTyped ==
  ASSUME RowsTyped, NEW s \in Slot, NEW e \in Event, Enqueue(s, e)
  PROVE  /\ cached' \in [Slot -> Ranks] /\ pending' \in [Slot -> Row]
         /\ cached'[s] = e /\ pending'[s] = [event |-> e, acks |-> {}, due |-> TRUE]
         /\ \A t \in Slot \ {s} : cached'[t] = cached[t] /\ pending'[t] = pending[t]
<1>1. [event |-> e, acks |-> {}, due |-> TRUE] \in Row
  BY Basics DEF Row
<1> QED
  BY <1>1, Basics DEF Enqueue, RowsTyped

LEMMA AcknowledgeTyped ==
  ASSUME ObservedTyped, routes \in SUBSET Relay, NEW s \in Slot, NEW e \in Event,
         NEW oks \in SUBSET Relay, Acknowledge(s, e, oks)
  PROVE  /\ ackedBy' \in [Slot -> [Event -> SUBSET Relay]]
         /\ reached' \in [Slot -> SUBSET Event]
         /\ ackedBy'[s][e] = ackedBy[s][e] \cup oks
         /\ \A f \in Event \ {e} : ackedBy'[s][f] = ackedBy[s][f]
         /\ \A t \in Slot \ {s} : ackedBy'[t] = ackedBy[t]
         /\ \A t \in Slot : reached'[t] =
               reached[t] \cup {f \in Event : Quorum(routes, ackedBy'[t][f])}
<1>1. ackedBy' = [ackedBy EXCEPT ![s][e] = @ \cup oks]
  BY DEF Acknowledge
<1>2. reached' = [t \in Slot |-> reached[t] \cup {f \in Event : Quorum(routes, ackedBy'[t][f])}]
  BY DEF Acknowledge
<1>3. reached' \in [Slot -> SUBSET Event]
  BY <1>2 DEF ObservedTyped
<1> QED
  BY <1>1, <1>2, <1>3 DEF ObservedTyped

(* A step of one editor: the rest of the state keeps its types. *)
LEMMA EditStep ==
  ASSUME TypeInv, NEW s \in Slot, NEW x \in Edit, edit' = [edit EXCEPT ![s] = x],
         x.stage \in {"route", "publish", "commit"} => x.event \in Event,
         UNCHANGED <<delivery, routes>>, edits' \in Nat
  PROVE  edit' \in [Slot -> Edit] /\ edit'[s] = x /\ OthersTyped' /\ \A t \in Slot : (Signed(t) /\ Taken(t))'
<1>1. edit' \in [Slot -> Edit] /\ edit'[s] = x /\ \A t \in Slot \ {s} : edit'[t] = edit[t]
  BY DEF TypeInv, JobsTyped
<1>2. \A t \in Slot : Signed(t)'
  BY <1>1 DEF Signed, TypeInv
<1>3. OthersTyped' /\ \A t \in Slot : Taken(t)'
  BY DEF TypeInv, OthersTyped, Taken
<1> QED
  BY <1>1, <1>2, <1>3

LEMMA EditorsTyped ==
  ASSUME TypeInv, NEW s \in Slot,
         \/ \E wait \in BOOLEAN : StartEdit(s, wait)
         \/ ReadLatest(s) \/ SignAndQueue(s) \/ SignAndCheck(s) \/ EditRoute(s)
         \/ (\E oks \in SUBSET Relay : EditAnswers(s, oks)) \/ EditCommit(s) \/ EditFails(s)
         \/ Requeue(s)
  PROVE  TypeInv'
<1> USE Basics
<1>t. edit[s] \in Edit /\ RowsTyped /\ JobsTyped /\ ObservedTyped /\ OthersTyped /\ Signed(s)
  BY DEF TypeInv, JobsTyped
<1>1. ASSUME NEW wait \in BOOLEAN, StartEdit(s, wait) PROVE TypeInv'
  <2>1. RowsTyped' /\ ObservedTyped' /\ UNCHANGED <<delivery, routes, signedAt, job, reconcile>>
    BY <1>1, <1>t, RowsFrame, ObservedFrame DEF StartEdit, outside, flush
  <2>2. <<"own", edits'>> \in Said /\ edits' \in Nat
    <3>1. edits < MaxEdits /\ edits' = edits + 1
      BY <1>1 DEF StartEdit
    <3>2. edits' \in 1..MaxEdits
      BY <3>1, <1>t, ConfigConstants DEF OthersTyped
    <3>3. <<"own", edits'>> \in Own
      BY <3>2 DEF Own
    <3> QED
      BY <3>2, <3>3 DEF Said
  <2> DEFINE x == [NoEdit EXCEPT !.stage = "read", !.text = <<"own", edits'>>, !.wait = wait,
                                 !.base = cached[s]]
  <2>3. x \in Edit /\ x.stage = "read"
    BY <1>t, <2>2 DEF NoEdit, Edit, RowsTyped
  <2>4. edit' = [edit EXCEPT ![s] = x]
    BY <1>1 DEF StartEdit
  <2> HIDE DEF x
  <2> QED
    BY <1>t, <2>1, <2>2, <2>3, <2>4, EditStep DEF TypeInv, JobsTyped
<1>2. CASE ReadLatest(s)
  <2>1. RowsTyped' /\ ObservedTyped' /\ UNCHANGED <<delivery, routes, signedAt, job, reconcile, edits>>
    BY <1>2, <1>t, RowsFrame, ObservedFrame DEF ReadLatest, outside, flush, bounds
  <2> DEFINE after == edit'[s].after
             x == [edit[s] EXCEPT !.stage = "sign", !.after = after]
  <2>2. after \in Ranks
    BY <1>2, <1>t DEF ReadLatest, RowsTyped, JobsTyped, Edit, Row
  <2>3. edit' = [edit EXCEPT ![s] = x]
    BY <1>2, <1>t DEF ReadLatest, JobsTyped, Edit
  <2> HIDE DEF after
  <2>4. x \in Edit /\ x.stage = "sign"
    BY <1>t, <2>2 DEF Edit
  <2> HIDE DEF x
  <2> QED
    BY <1>t, <2>1, <2>3, <2>4, EditStep DEF TypeInv, JobsTyped, OthersTyped
<1>3. CASE SignAndQueue(s)
  <2>1. PICK e \in Unmade(s) :
           /\ made' = [made EXCEPT ![s][e] = edit[s].text]
           /\ \/ Enqueue(s, e) /\ content' = [content EXCEPT ![s] = edit[s].text]
              \/ UNCHANGED <<cached, pending, content, publisher>>
    BY <1>3 DEF SignAndQueue
  <2>2. e \in Event /\ edit[s].text \in Said
    BY <1>t DEF Unmade, Edit
  <2>3. RowsTyped'
    <3>1. content' \in [Slot -> Said] /\ UNCHANGED list
      BY <1>3, <1>t, <2>1, <2>2 DEF SignAndQueue, RowsTyped
    <3> QED
      BY <1>t, <2>1, <2>2, <3>1, EnqueueTyped DEF RowsTyped
  <2>4. ObservedTyped' /\ UNCHANGED <<delivery, routes, signedAt, job, reconcile, edits>>
    BY <1>3, <1>t, <2>1, <2>2 DEF SignAndQueue, ObservedTyped, flush, bounds
  <2>5. edit' = [edit EXCEPT ![s] = NoEdit] /\ NoEdit.stage = "none"
    BY <1>3 DEF SignAndQueue, NoEdit
  <2> QED
    BY <1>t, <2>3, <2>4, <2>5, EditStep DEF TypeInv, JobsTyped, OthersTyped
<1>4. CASE SignAndCheck(s)
  <2>1. PICK e \in Unmade(s) :
           /\ made' = [made EXCEPT ![s][e] = edit[s].text]
           /\ signedAt' = [signedAt EXCEPT ![s] = e]
           /\ edit' = [edit EXCEPT ![s] =
                  IF BaseHolds(s, e) THEN [edit[s] EXCEPT !.stage = "route", !.event = e] ELSE NoEdit]
    BY <1>4, <1>t DEF SignAndCheck, JobsTyped
  <2>2. e \in Event /\ edit[s].text \in Said
    BY <1>t DEF Unmade, Edit
  <2>3. RowsTyped' /\ ObservedTyped' /\ UNCHANGED <<delivery, routes, job, reconcile, edits>>
    BY <1>4, <1>t, <2>1, <2>2, RowsFrame DEF SignAndCheck, ObservedTyped, outside, flush, bounds
  <2> DEFINE x == IF BaseHolds(s, e) THEN [edit[s] EXCEPT !.stage = "route", !.event = e] ELSE NoEdit
  <2>4. x \in Edit /\ (x.stage \in {"route", "publish", "commit"} => x.event \in Event)
    BY <1>t, <2>2 DEF Edit, NoEdit
  <2>5. signedAt' \in [Slot -> Ranks]
    BY <1>t, <2>1, <2>2 DEF JobsTyped
  <2>6. edit' = [edit EXCEPT ![s] = x]
    BY <2>1
  <2> HIDE DEF x
  <2> QED
    BY <1>t, <2>3, <2>4, <2>5, <2>6, EditStep DEF TypeInv, JobsTyped, OthersTyped
<1>5. CASE EditRoute(s)
  <2>1. RowsTyped' /\ ObservedTyped' /\ UNCHANGED <<delivery, routes, signedAt, job, reconcile, edits>>
    BY <1>5, <1>t, RowsFrame DEF EditRoute, ObservedTyped, outside, flush, bounds, Signed
  <2> DEFINE x == [edit[s] EXCEPT !.stage = "publish", !.targets = routes]
  <2>2. x \in Edit /\ x.event \in Event
    BY <1>5, <1>t DEF Edit, EditRoute, Signed, OthersTyped
  <2>3. edit' = [edit EXCEPT ![s] = x]
    BY <1>5, <1>t DEF EditRoute, JobsTyped, Edit
  <2> HIDE DEF x
  <2> QED
    BY <1>t, <2>1, <2>2, <2>3, EditStep DEF TypeInv, JobsTyped, OthersTyped
<1>6. ASSUME NEW oks \in SUBSET Relay, EditAnswers(s, oks) PROVE TypeInv'
  <2>1. ObservedTyped'
    <3>1. ackedBy' \in [Slot -> [Event -> SUBSET Relay]] /\ reached' \in [Slot -> SUBSET Event]
      <4>1. edit[s].event \in Event /\ Acknowledge(s, edit[s].event, oks)
        BY <1>6, <1>t DEF EditAnswers, Signed
      <4> QED
        BY <1>t, <4>1, AcknowledgeTyped DEF OthersTyped
    <3>2. confirmed' \in [Slot -> SUBSET Event]
      BY <1>6, <1>t DEF EditAnswers, Signed, ObservedTyped
    <3> QED
      BY <1>6, <1>t, <3>1, <3>2 DEF EditAnswers, ObservedTyped
  <2>4. RowsTyped' /\ UNCHANGED <<delivery, routes, signedAt, job, reconcile, edits>>
    BY <1>6, <1>t, RowsFrame DEF EditAnswers, outside, flush, bounds
  <2> DEFINE x == IF Quorum(edit[s].targets, oks) THEN [edit[s] EXCEPT !.stage = "commit"]
                  ELSE NoEdit
  <2>2. x \in Edit /\ (x.stage \in {"route", "publish", "commit"} => x.event \in Event)
    BY <1>6, <1>t DEF Edit, EditAnswers, Signed, NoEdit
  <2>3. edit' = [edit EXCEPT ![s] = x]
    BY <1>6, <1>t DEF EditAnswers, JobsTyped
  <2> HIDE DEF x
  <2> QED
    BY <1>t, <2>1, <2>2, <2>3, <2>4, EditStep DEF TypeInv, JobsTyped, OthersTyped
<1>7. CASE EditCommit(s)
  <2>1. ObservedTyped' /\ UNCHANGED <<delivery, routes, signedAt, job, reconcile, edits>>
    BY <1>7, <1>t, ObservedFrame DEF EditCommit, flush, bounds
  <2>2. edit' = [edit EXCEPT ![s] = NoEdit] /\ NoEdit.stage = "none"
    BY <1>7 DEF EditCommit, NoEdit
  <2>3. RowsTyped'
    BY <1>7, <1>t DEF EditCommit, RowsTyped, Edit
  <2> QED
    BY <1>t, <2>1, <2>2, <2>3, EditStep DEF TypeInv, JobsTyped, OthersTyped
<1>8. CASE EditFails(s)
  <2>1. RowsTyped' /\ ObservedTyped' /\ UNCHANGED <<delivery, routes, signedAt, job, reconcile, edits>>
    BY <1>8, <1>t, RowsFrame, ObservedFrame DEF EditFails, outside, flush, bounds
  <2>2. edit' = [edit EXCEPT ![s] = NoEdit] /\ NoEdit.stage = "none"
    BY <1>8 DEF EditFails, NoEdit
  <2> QED
    BY <1>t, <2>1, <2>2, EditStep DEF TypeInv, JobsTyped, OthersTyped
<1>9. CASE Requeue(s)
  <2>1. cached[s] \in Event
    BY <1>9, <1>t DEF Requeue, RowsTyped
  <2>2. RowsTyped'
    BY <1>9, <1>t, <2>1, EnqueueTyped DEF Requeue, RowsTyped
  <2>3. JobsTyped' /\ ObservedTyped' /\ UNCHANGED <<edit, delivery, routes, edits>>
    BY <1>9, <1>t, JobsFrame, ObservedFrame DEF Requeue, flush, signing
  <2> QED
    BY <2>2, <2>3 DEF TypeInv, OthersTyped, Signed, Taken
<1> QED
  BY <1>1, <1>2, <1>3, <1>4, <1>5, <1>6, <1>7, <1>8, <1>9

(* A step that leaves the editors alone. *)
LEMMA OtherSteps ==
  ASSUME TypeInv, RowsTyped', ObservedTyped', OthersTyped', UNCHANGED <<edit, signedAt>>,
         job' \in [Slot -> Job], reconcile' \in [Slot -> Ranks], \A s \in Slot : Taken(s)'
  PROVE  TypeInv'
BY DEF TypeInv, JobsTyped, Signed

LEMMA NextRoundTyped ==
  ASSUME job \in [Slot -> Job], NEW s \in Slot, NextRound(s)
  PROVE  /\ job' \in [Slot -> Job] /\ job'[s].stage \in {"none", "queued"}
         /\ \A t \in Slot \ {s} : job'[t] = job[t]
<1> DEFINE x == IF job[s].again THEN [NoJobHere EXCEPT !.stage = "queued"] ELSE NoJobHere
<1>1. x \in Job /\ x.stage \in {"none", "queued"}
  BY Basics DEF NoJobHere, Job
<1>2. job' = [job EXCEPT ![s] = x]
  BY DEF NextRound
<1> HIDE DEF x
<1> QED
  BY <1>1, <1>2

LEMMA ListsTyped ==
  ASSUME TypeInv, NEW s \in Slot,
         \/ EditPrivateList(s) \/ StartRound(s) \/ ReadPlaintext(s) \/ ReadPrevious(s)
         \/ CommitPrivateList(s) \/ PrivateListFails(s)
  PROVE  TypeInv'
<1> USE Basics
<1>t. /\ RowsTyped /\ JobsTyped /\ ObservedTyped /\ OthersTyped
      /\ job[s] \in Job /\ list[s] \in ListState /\ \A t \in Slot : Taken(t)
  BY DEF TypeInv, JobsTyped, RowsTyped
<1>1. CASE EditPrivateList(s)
  <2>1. edits < MaxEdits /\ edits' = edits + 1
    BY <1>1 DEF EditPrivateList
  <2>2. edits' \in 1..MaxEdits
    BY <2>1, <1>t, ConfigConstants DEF OthersTyped
  <2>3. <<"own", edits'>> \in Said
    BY <2>2 DEF Said, Own
  <2>4. UNCHANGED <<cached, pending, edit, signedAt, reconcile, delivery, routes>> /\ ObservedTyped'
    BY <1>1, <1>t, ObservedFrame DEF EditPrivateList, flush
  <2>5. RowsTyped'
    <3> DEFINE x == [list[s] EXCEPT !.revision = list[s].revision + 1, !.dirty = TRUE]
    <3>1. x \in ListState
      <4>1. list[s].revision + 1 \in Nat
        BY <1>t DEF ListState
      <4> QED
        BY <1>t, <4>1 DEF ListState
    <3>2. list' = [list EXCEPT ![s] = x]
      BY <1>1, <1>t DEF EditPrivateList, RowsTyped, ListState
    <3> HIDE DEF x
    <3>3. content' = [content EXCEPT ![s] = <<"own", edits'>>]
      BY <1>1 DEF EditPrivateList
    <3>4. list' \in [Slot -> ListState] /\ content' \in [Slot -> Said]
      BY <1>t, <2>3, <3>1, <3>2, <3>3 DEF RowsTyped
    <3> QED
      BY <1>t, <2>4, <3>4 DEF RowsTyped
  <2>6. job' \in [Slot -> Job]
    <3> DEFINE x == IF job[s].stage = "none" THEN [NoJobHere EXCEPT !.stage = "queued"]
                    ELSE [job[s] EXCEPT !.again = TRUE]
    <3>1. x \in Job
      BY <1>t DEF Job, NoJobHere
    <3>2. job' = [job EXCEPT ![s] = x]
      BY <1>1, <1>t DEF EditPrivateList, JobsTyped
    <3> HIDE DEF x
    <3> QED
      BY <1>t, <3>1, <3>2 DEF JobsTyped
  <2> QED
    BY <1>t, <2>2, <2>4, <2>5, <2>6, OtherSteps DEF OthersTyped, JobsTyped, Taken
<1>2. CASE StartRound(s) \/ ReadPlaintext(s) \/ ReadPrevious(s) \/ PrivateListFails(s)
  <2>1. /\ RowsTyped' /\ ObservedTyped'
        /\ UNCHANGED <<edit, signedAt, reconcile, delivery, routes, edits>>
    BY <1>2, <1>t, RowsFrame, ObservedFrame
       DEF StartRound, ReadPlaintext, ReadPrevious, PrivateListFails, outside, flush, bounds
  <2>2. job' \in [Slot -> Job]
    <3>1. CASE NextRound(s)
      BY <1>t, <3>1, NextRoundTyped DEF JobsTyped
    <3>2. CASE StartRound(s)
      <4>1. [job[s] EXCEPT !.stage = "start", !.again = FALSE] \in Job
        BY <1>t DEF Job
      <4> QED
        BY <1>t, <3>2, <4>1 DEF StartRound, JobsTyped
    <3>3. CASE ReadPlaintext(s) /\ ~ NextRound(s)
      <4>1. [job[s] EXCEPT !.stage = "previous", !.revision = list[s].revision,
                           !.text = content[s]] \in Job
        BY <1>t DEF Job, ListState, RowsTyped
      <4> QED
        BY <1>t, <3>3, <4>1 DEF ReadPlaintext, JobsTyped
    <3>4. CASE ReadPrevious(s)
      <4>1. [job[s] EXCEPT !.stage = "commit", !.previous = cached[s]] \in Job
        BY <1>t DEF Job, RowsTyped
      <4> QED
        BY <1>t, <3>4, <4>1 DEF ReadPrevious, JobsTyped
    <3> QED
      BY <1>2, <3>1, <3>2, <3>3, <3>4 DEF PrivateListFails
  <2> QED
    BY <1>t, <2>1, <2>2, OtherSteps DEF OthersTyped, JobsTyped, Taken
<1>3. CASE CommitPrivateList(s)
  <2>1. PICK e \in Unmade(s) :
           /\ made' = [made EXCEPT ![s][e] = job[s].text]
           /\ \/ Enqueue(s, e) /\ list' = [list EXCEPT ![s].dirty = FALSE, ![s].event = e]
              \/ UNCHANGED <<cached, pending, list, publisher>>
    BY <1>3 DEF CommitPrivateList
  <2>2. e \in Event /\ job[s].text \in Said
    BY <1>t DEF Unmade, Job
  <2>3. RowsTyped'
    <3>1. [list[s] EXCEPT !.dirty = FALSE, !.event = e] \in ListState
      BY <1>t, <2>2 DEF ListState
    <3>2. list' \in [Slot -> ListState]
      BY <1>t, <2>1, <3>1 DEF RowsTyped
    <3>3. UNCHANGED content
      BY <1>3 DEF CommitPrivateList
    <3> QED
      BY <1>t, <2>1, <2>2, <3>2, <3>3, EnqueueTyped DEF RowsTyped
  <2>4. ObservedTyped' /\ UNCHANGED <<edit, signedAt, reconcile, delivery, routes, edits>>
    BY <1>3, <1>t, <2>1, <2>2 DEF CommitPrivateList, ObservedTyped, flush, bounds
  <2>5. job' \in [Slot -> Job]
    BY <1>3, <1>t, NextRoundTyped DEF CommitPrivateList, JobsTyped
  <2> QED
    BY <1>t, <2>3, <2>4, <2>5, OtherSteps DEF OthersTyped, JobsTyped, Taken
<1> QED
  BY <1>1, <1>2, <1>3

LEMMA RemoteTyped ==
  ASSUME TypeInv, NEW s \in Slot,
         OtherDevice(s) \/ Echo(s) \/ ReconcileStart(s) \/ ReconcileCommit(s)
  PROVE  TypeInv'
<1> USE Basics
<1>t. /\ RowsTyped /\ JobsTyped /\ ObservedTyped /\ OthersTyped /\ \A t \in Slot : Taken(t)
  BY DEF TypeInv
<1>1. ASSUME NEW e \in Event, Store(s, e) PROVE cached' \in [Slot -> Ranks]
  BY <1>1, <1>t DEF Store, RowsTyped
<1>2. CASE OtherDevice(s)
  <2>1. PICK e \in Unmade(s) : made' = [made EXCEPT ![s][e] = <<"other", e>>] /\ Store(s, e)
    BY <1>2 DEF OtherDevice
  <2>2. e \in Event /\ <<"other", e>> \in Said
    BY DEF Unmade, Said, Other, Event
  <2> QED
    BY <1>t, <1>1, <1>2, <2>1, <2>2, OtherSteps
       DEF OtherDevice, OthersTyped, JobsTyped, ObservedTyped, RowsTyped, Taken, flush, signing, bounds
<1>3. CASE Echo(s)
  BY <1>t, <1>1, <1>3, ObservedFrame, OtherSteps
     DEF Echo, OthersTyped, JobsTyped, RowsTyped, Taken, flush, signing, bounds
<1>4. CASE ReconcileStart(s)
  BY <1>t, <1>4, RowsFrame, ObservedFrame, OtherSteps
     DEF ReconcileStart, OthersTyped, JobsTyped, RowsTyped, Taken, outside, flush, bounds
<1>5. CASE ReconcileCommit(s)
  <2>1. made[s][reconcile[s]] \in Said
    <3>1. reconcile[s] \in Event
      BY <1>t, <1>5 DEF ReconcileCommit, JobsTyped
    <3>2. made[s] \in [Event -> Said]
      BY <1>t DEF ObservedTyped
    <3> QED
      BY <3>1, <3>2
  <2>2. RowsTyped'
    BY <1>t, <1>5, <2>1 DEF ReconcileCommit, RowsTyped
  <2> QED
    BY <1>t, <1>5, <2>2, ObservedFrame, OtherSteps
       DEF ReconcileCommit, OthersTyped, JobsTyped, Taken, flush, bounds
<1> QED
  BY <1>2, <1>3, <1>4, <1>5

LEMMA EnvironmentTyped == ASSUME TypeInv, Environment PROVE TypeInv'
<1> USE Basics
<1>t. RowsTyped /\ JobsTyped /\ ObservedTyped /\ OthersTyped /\ \A t \in Slot : Taken(t)
  BY DEF TypeInv
<1>1. ASSUME RetryNow PROVE pending' \in [Slot -> Row]
  <2>1. \A s \in Slot : [pending[s] EXCEPT !.due = pending[s].event # NoEvent] \in Row
    BY <1>t DEF RowsTyped, Row
  <2> QED
    BY <1>1, <2>1 DEF RetryNow
<1>2. CASE Start \/ Stop \/ Pause \/ Resume
  <2>1. RowsTyped'
    BY <1>t, <1>1, <1>2 DEF Start, Stop, Pause, Resume, RowsTyped, rows
  <2>2. OthersTyped' /\ ObservedTyped' /\ UNCHANGED <<signing, delivery>>
    BY <1>t, <1>2, ObservedFrame DEF Start, Stop, Pause, Resume, OthersTyped, flush, Happens
  <2> QED
    BY <1>t, <2>1, <2>2, OtherSteps DEF signing, JobsTyped, Taken
<1>3. CASE Crash
  <2>1. RowsTyped' /\ ObservedTyped' /\ OthersTyped'
    BY <1>t, <1>3, RowsFrame DEF Crash, ObservedTyped, OthersTyped
  <2>2. JobsTyped'
    BY <1>3 DEF Crash, JobsTyped
  <2>3. \A s \in Slot : edit'[s].stage = "none" /\ delivery'[s].stage = "none"
    BY <1>3 DEF Crash, NoEdit, NoDelivery
  <2> QED
    BY <2>1, <2>2, <2>3 DEF TypeInv, Signed, Taken
<1>4. CASE ChangeRoutes
  <2>1. PICK relays \in SUBSET Relay \ {{}, routes} : Reroute(relays)
    BY <1>4 DEF ChangeRoutes
  <2>2. reached' \in [Slot -> SUBSET Event]
    BY <1>t, <2>1 DEF Reroute, ObservedTyped
  <2>3. RowsTyped' /\ ObservedTyped' /\ OthersTyped' /\ UNCHANGED <<signing, delivery>>
    BY <1>t, <2>1, <2>2, RowsFrame DEF Reroute, ObservedTyped, OthersTyped, flush
  <2> QED
    BY <1>t, <2>3, OtherSteps DEF signing, JobsTyped, Taken
<1> QED
  BY <1>2, <1>3, <1>4 DEF Environment

(* A step of one delivery. *)
LEMMA DeliveryStep ==
  ASSUME TypeInv, NEW s \in Slot, NEW x \in Delivery, delivery' = [delivery EXCEPT ![s] = x],
         x.stage # "none" => x.event \in Event, UNCHANGED <<signing, routes, edits>>,
         RowsTyped', ObservedTyped'
  PROVE  TypeInv' /\ delivery'[s] = x /\ \A t \in Slot \ {s} : delivery'[t] = delivery[t]
<1>1. /\ delivery' \in [Slot -> Delivery] /\ delivery'[s] = x
      /\ \A t \in Slot \ {s} : delivery'[t] = delivery[t]
  BY DEF TypeInv, OthersTyped
<1>2. \A t \in Slot : Taken(t)'
  BY <1>1 DEF Taken, TypeInv
<1>3. OthersTyped'
  BY <1>1 DEF TypeInv, OthersTyped
<1> QED
  BY <1>1, <1>2, <1>3, OtherSteps DEF TypeInv, JobsTyped, signing

LEMMA SettledTyped ==
  ASSUME RowsTyped, delivery \in [Slot -> Delivery], NEW s \in Slot,
         \/ UNCHANGED <<pending, list>> \/ (DeleteRow(s) /\ UNCHANGED list)
         \/ Retire(s) \/ BackOff(s)
  PROVE  pending' \in [Slot -> Row] /\ list' \in [Slot -> ListState]
<1> USE Basics
<1>1. [pending[s] EXCEPT !.acks = delivery[s].acks, !.due = FALSE] \in Row
  BY DEF RowsTyped, Row, Delivery
<1>2. [list[s] EXCEPT !.dirty = TRUE] \in ListState
  BY DEF RowsTyped, ListState
<1>3. pending' \in [Slot -> Row]
  BY <1>1 DEF Retire, DeleteRow, BackOff, RowsTyped
<1>4. list' \in [Slot -> ListState]
  BY <1>2 DEF Retire, DeleteRow, BackOff, RowsTyped
<1> QED
  BY <1>3, <1>4

LEMMA DeliveriesTyped ==
  ASSUME TypeInv, NEW s \in Slot,
         \/ Deadline(s) \/ DeliverRoute(s) \/ DeliverCheck(s)
         \/ (\E oks \in SUBSET Relay : DeliverAnswers(s, oks))
         \/ RecheckTargets(s) \/ DeliverySettles(s) \/ DeliveryFails(s)
  PROVE  TypeInv'
<1> USE Basics
<1>t. /\ RowsTyped /\ JobsTyped /\ ObservedTyped /\ OthersTyped /\ \A t \in Slot : Taken(t)
      /\ delivery \in [Slot -> Delivery] /\ delivery[s] \in Delivery
  BY DEF TypeInv, OthersTyped
<1>n. NoDelivery.stage = "none"
  BY DEF NoDelivery
<1>1. CASE Deadline(s)
  <2>1. [pending[s] EXCEPT !.due = TRUE] \in Row
    BY <1>t DEF RowsTyped, Row
  <2>2. RowsTyped'
    BY <1>1, <1>t, <2>1 DEF Deadline, RowsTyped
  <2> QED
    BY <1>1, <1>t, <2>2, ObservedFrame, OtherSteps
       DEF Deadline, signing, flush, bounds, JobsTyped, OthersTyped, Taken
<1>2. CASE DeliverRoute(s)
  <2> DEFINE x == IF flushCurrent THEN [delivery[s] EXCEPT !.stage = "check", !.targets = routes]
                  ELSE NoDelivery
  <2>1. x \in Delivery /\ (x.stage # "none" => x.event \in Event)
    BY <1>2, <1>t, <1>n DEF DeliverRoute, Delivery, Taken, OthersTyped
  <2>2. delivery' = [delivery EXCEPT ![s] = x]
    BY <1>2, <1>t DEF DeliverRoute, DeliveryEnds
  <2> HIDE DEF x
  <2> QED
    BY <1>2, <1>t, <2>1, <2>2, RowsFrame, ObservedFrame, DeliveryStep DEF DeliverRoute, bounds
<1>3. CASE DeliverCheck(s)
  <2> DEFINE d == delivery[s]
             x == IF ~ flushCurrent \/ pending[s].event # d.event THEN NoDelivery
                  ELSE [d EXCEPT !.stage = IF Quorum(d.targets, d.acks) \/ d.targets \subseteq d.acks
                                           THEN "recheck" ELSE "publish"]
  <2>1. x \in Delivery /\ (x.stage # "none" => x.event \in Event)
    BY <1>3, <1>t, <1>n DEF DeliverCheck, Delivery, Taken
  <2>2. delivery' = [delivery EXCEPT ![s] = x]
    BY <1>3, <1>t DEF DeliverCheck, DeliveryEnds
  <2> HIDE DEF x
  <2> QED
    BY <1>3, <1>t, <2>1, <2>2, RowsFrame, ObservedFrame, DeliveryStep DEF DeliverCheck, bounds
<1>4. ASSUME NEW oks \in SUBSET Relay, DeliverAnswers(s, oks) PROVE TypeInv'
  <2> DEFINE x == IF flushCurrent THEN [delivery[s] EXCEPT !.stage = "recheck", !.acks = delivery[s].acks \cup oks]
                  ELSE NoDelivery
  <2>1. x \in Delivery /\ (x.stage # "none" => x.event \in Event)
    BY <1>4, <1>t, <1>n DEF DeliverAnswers, Delivery, Taken
  <2>2. delivery' = [delivery EXCEPT ![s] = x]
    BY <1>4, <1>t DEF DeliverAnswers, DeliveryEnds
  <2> HIDE DEF x
  <2>3. delivery[s].event \in Event /\ Acknowledge(s, delivery[s].event, oks)
    BY <1>4, <1>t DEF DeliverAnswers, Taken
  <2>4. ObservedTyped'
    BY <1>4, <1>t, <2>3, AcknowledgeTyped DEF DeliverAnswers, ObservedTyped, OthersTyped
  <2> QED
    BY <1>4, <1>t, <2>1, <2>2, <2>4, RowsFrame, DeliveryStep DEF DeliverAnswers, bounds
<1>5. CASE RecheckTargets(s)
  <2> DEFINE x == [delivery[s] EXCEPT !.stage = "settle", !.targets = routes]
  <2>1. x \in Delivery /\ x.event \in Event
    BY <1>5, <1>t DEF RecheckTargets, Delivery, Taken, OthersTyped
  <2>2. delivery' = [delivery EXCEPT ![s] = x]
    BY <1>5, <1>t DEF RecheckTargets
  <2> HIDE DEF x
  <2> QED
    BY <1>5, <1>t, <2>1, <2>2, RowsFrame, ObservedFrame, DeliveryStep DEF RecheckTargets, bounds
<1>6. CASE DeliverySettles(s) \/ DeliveryFails(s)
  <2>1. pending' \in [Slot -> Row] /\ list' \in [Slot -> ListState]
    BY <1>6, <1>t, SettledTyped DEF DeliverySettles, DeliveryFails
  <2>2. /\ RowsTyped' /\ ObservedTyped' /\ UNCHANGED <<signing, routes, edits>>
        /\ delivery' = [delivery EXCEPT ![s] = NoDelivery]
    BY <1>6, <1>t, <2>1, ObservedFrame DEF DeliverySettles, DeliveryFails, DeliveryEnds, RowsTyped, bounds
  <2> QED
    BY <1>n, <2>2, DeliveryStep
<1> QED
  BY <1>1, <1>2, <1>3, <1>4, <1>5, <1>6

LEMMA LoopTyped == ASSUME TypeInv, Woken \/ StartFlush \/ QueryNext \/ EndFlush PROVE TypeInv'
<1> USE Basics
<1>t. RowsTyped /\ JobsTyped /\ ObservedTyped /\ OthersTyped /\ \A t \in Slot : Taken(t)
  BY DEF TypeInv
<1>1. RowsTyped' /\ ObservedTyped' /\ UNCHANGED <<signing, routes, edits>>
  BY <1>t, RowsFrame, ObservedFrame DEF Woken, StartFlush, QueryNext, EndFlush, bounds
<1>2. delivery' \in [Slot -> Delivery] /\ \A s \in Slot : Taken(s)'
  <2>1. CASE UNCHANGED delivery
    BY <1>t, <2>1 DEF OthersTyped, Taken
  <2>2. CASE StartFlush /\ ~ UNCHANGED delivery
    <3> DEFINE x(s) == IF pending[s].event # NoEvent /\ pending[s].due
                       THEN [NoDelivery EXCEPT !.stage = "route", !.event = pending[s].event,
                                               !.acks = pending[s].acks]
                       ELSE NoDelivery
    <3>1. \A s \in Slot : x(s) \in Delivery /\ (x(s).stage # "none" => x(s).event \in Event)
      BY <1>t DEF RowsTyped, Row, Delivery, NoDelivery
    <3>2. delivery' = [s \in Slot |-> x(s)]
      BY <2>2 DEF StartFlush
    <3> HIDE DEF x
    <3> QED
      BY <3>1, <3>2 DEF Taken
  <2> QED
    BY <2>1, <2>2 DEF Woken, QueryNext, EndFlush, flush
<1> QED
  BY <1>t, <1>1, <1>2, OtherSteps DEF signing, JobsTyped, OthersTyped
-----------------------------------------------------------------------------
LEMMA TypeStep == TypeInv /\ [Next]_vars => TypeInv'
<1> SUFFICES ASSUME TypeInv, [Next]_vars PROVE TypeInv'
  OBVIOUS
<1>1. CASE UNCHANGED vars
  BY <1>1, RowsFrame, ObservedFrame, OtherSteps
     DEF vars, TypeInv, OthersTyped, JobsTyped, signing, flush, bounds, Taken
<1>2. CASE Next
  BY <1>2, EditorsTyped, ListsTyped, RemoteTyped, EnvironmentTyped, DeliveriesTyped, LoopTyped
     DEF Next, Editors, PrivateLists, Remote, Publisher, DeliveryErrors
<1> QED
  BY <1>1, <1>2

(* The database, the jobs and what is observed have the types above, and   *)
(* what is delivered or published is an event that was signed.             *)
THEOREM Types == Spec => []TypeInv
BY TypeInit, TypeStep, PTL DEF Spec

-----------------------------------------------------------------------------
(* The edits that wait for relays, one after the other.                    *)
EditSound(s) ==
    /\ edit[s].stage # "none" => s \notin Private
    /\ edit[s].stage \in {"route", "publish", "commit"} => edit[s].wait
    /\ edit[s].stage = "commit" => edit[s].event \in confirmed[s]
    /\ \A e \in handed[s] : e <= signedAt[s]
    /\ edit[s].stage = "sign" /\ edit[s].wait => edit[s].after >= signedAt[s]
    /\ edit[s].stage = "route" =>
          edit[s].event = signedAt[s] /\ \A e \in handed[s] : e < edit[s].event
EditInv == \A s \in Slot : EditSound(s)

LEMMA EditInit == Init => EditInv
BY DEF Init, EditInv, EditSound, NoEdit

(* A step that starts or advances no waited edit may end one. *)
LEMMA EditFrame ==
  ASSUME TypeInv, EditInv, UNCHANGED <<signedAt, handed, confirmed>>,
         \A t \in Slot : edit'[t] = edit[t] \/ edit'[t].stage = "none"
  PROVE  EditInv'
BY DEF EditInv, EditSound

LEMMA EditStart ==
  ASSUME TypeInv, EditInv, NEW s \in Slot, NEW wait \in BOOLEAN, StartEdit(s, wait)
  PROVE  EditInv'
<1>1. edit[s].stage = "none" /\ s \notin Private /\ UNCHANGED <<signedAt, handed, confirmed>>
  BY DEF StartEdit, observed
<1>2. edit'[s].stage = "read" /\ \A t \in Slot \ {s} : edit'[t] = edit[t]
  BY DEF StartEdit, NoEdit, TypeInv, JobsTyped
<1> QED
  BY <1>1, <1>2 DEF EditInv, EditSound

LEMMA EditReads ==
  ASSUME TypeInv, EditInv, NEW s \in Slot, ReadLatest(s)
  PROVE  EditInv'
<1>1. edit[s].stage = "read" /\ UNCHANGED <<signedAt, handed, confirmed>>
  BY DEF ReadLatest, observed
<1>2. cached[s] \in Ranks /\ pending[s].event \in Ranks /\ signedAt[s] \in Ranks /\ edit[s] \in Edit
  BY DEF TypeInv, RowsTyped, JobsTyped, Row
<1>3. /\ edit'[s].stage = "sign" /\ edit'[s].wait = edit[s].wait
      /\ edit'[s].after = IF edit[s].wait
                          THEN Newest(Newest(cached[s], pending[s].event), signedAt[s])
                          ELSE Newest(cached[s], pending[s].event)
      /\ \A t \in Slot \ {s} : edit'[t] = edit[t]
  BY DEF ReadLatest, TypeInv, JobsTyped, Edit
<1>4. edit[s].wait => edit'[s].after >= signedAt[s]
  BY <1>2, <1>3, Basics
<1> QED
  BY <1>1, <1>3, <1>4 DEF EditInv, EditSound

LEMMA EditSigned ==
  ASSUME TypeInv, EditInv, NEW s \in Slot, SignAndCheck(s)
  PROVE  EditInv'
<1>1. edit[s].stage = "sign" /\ edit[s].wait /\ UNCHANGED <<handed, confirmed>>
  BY DEF SignAndCheck
<1>2. PICK e \in Event :
         /\ e > edit[s].after /\ signedAt' = [signedAt EXCEPT ![s] = e]
         /\ edit' = [edit EXCEPT ![s] =
                IF BaseHolds(s, e) THEN [edit[s] EXCEPT !.stage = "route", !.event = e] ELSE NoEdit]
  BY DEF SignAndCheck, Unmade, TypeInv, JobsTyped
<1>3. /\ edit[s] \in Edit /\ signedAt[s] \in Ranks /\ handed[s] \subseteq Event
      /\ signedAt'[s] = e /\ \A t \in Slot \ {s} : signedAt'[t] = signedAt[t]
  BY <1>2 DEF TypeInv, JobsTyped, ObservedTyped
<1>4. /\ edit'[s].stage = "none" \/ (edit'[s].stage = "route" /\ edit'[s].event = e /\ edit'[s].wait)
      /\ \A t \in Slot \ {s} : edit'[t] = edit[t]
  BY <1>1, <1>2, <1>3 DEF TypeInv, JobsTyped, NoEdit, Edit
<1>5. \A f \in handed[s] : f < e
  <2>1. edit[s].after \in Ranks /\ edit[s].after >= signedAt[s] /\ \A f \in handed[s] : f <= signedAt[s]
    BY <1>1, <1>3 DEF EditInv, EditSound, Edit
  <2> QED
    BY <1>2, <1>3, <2>1, Basics
<1>6. EditSound(s)'
  <2>1. \A f \in handed'[s] : f < e /\ f <= e
    BY <1>1, <1>3, <1>5, ConfigConstants DEF Event
  <2>2. s \notin Private
    BY <1>1 DEF EditInv, EditSound
  <2> QED
    BY <1>3, <1>4, <2>1, <2>2 DEF EditSound
<1>7. \A t \in Slot \ {s} : EditSound(t)'
  BY <1>1, <1>3, <1>4 DEF EditInv, EditSound
<1> QED
  BY <1>6, <1>7 DEF EditInv

LEMMA EditHanded ==
  ASSUME TypeInv, EditInv, NEW s \in Slot, EditRoute(s)
  PROVE  EditInv'
<1>1. edit[s].stage = "route" /\ UNCHANGED <<signedAt, confirmed>> /\ edit[s].event \in Event
  BY DEF EditRoute, TypeInv, Signed
<1>2. /\ edit'[s].stage = "publish" /\ edit'[s].wait = edit[s].wait
      /\ \A t \in Slot \ {s} : edit'[t] = edit[t]
  BY DEF EditRoute, TypeInv, JobsTyped, Edit
<1>3. /\ handed'[s] = handed[s] \cup {edit[s].event}
      /\ \A t \in Slot \ {s} : handed'[t] = handed[t]
  BY DEF EditRoute, TypeInv, ObservedTyped
<1>4. edit[s].event <= signedAt[s]
  <2>1. edit[s].event <= edit[s].event
    BY <1>1, ConfigConstants DEF Event
  <2> QED
    BY <1>1, <2>1 DEF EditInv, EditSound
<1> QED
  BY <1>1, <1>2, <1>3, <1>4 DEF EditInv, EditSound

LEMMA EditAnswered ==
  ASSUME TypeInv, EditInv, NEW s \in Slot, NEW oks \in SUBSET Relay, EditAnswers(s, oks)
  PROVE  EditInv'
<1>1. edit[s].stage = "publish" /\ UNCHANGED <<signedAt, handed>> /\ edit[s] \in Edit
  BY DEF EditAnswers, TypeInv, JobsTyped
<1>2. \A t \in Slot \ {s} : edit'[t] = edit[t] /\ confirmed'[t] = confirmed[t]
  BY DEF EditAnswers, TypeInv, JobsTyped, ObservedTyped
<1>3. \/ edit'[s].stage = "none"
      \/ /\ edit'[s].stage = "commit" /\ edit'[s].wait = edit[s].wait
         /\ edit'[s].event \in confirmed'[s]
  BY DEF EditAnswers, TypeInv, JobsTyped, ObservedTyped, NoEdit, Edit
<1> QED
  BY <1>1, <1>2, <1>3 DEF EditInv, EditSound

LEMMA EditKept == TypeInv /\ EditInv /\ [Next]_vars => EditInv'
<1> SUFFICES ASSUME TypeInv, EditInv, [Next]_vars PROVE EditInv'
  OBVIOUS
<1>1. ASSUME NEW s \in Slot, SignAndQueue(s) \/ EditCommit(s) \/ EditFails(s) \/ Requeue(s)
      PROVE  EditInv'
  <2>1. UNCHANGED <<signedAt, handed, confirmed>>
    BY <1>1 DEF SignAndQueue, EditCommit, EditFails, Requeue, observed, signing
  <2>2. edit' = [edit EXCEPT ![s] = NoEdit] \/ UNCHANGED edit
    BY <1>1 DEF SignAndQueue, EditCommit, EditFails, Requeue, signing
  <2> QED
    BY <2>1, <2>2, EditFrame DEF NoEdit, TypeInv, JobsTyped
<1>2. CASE Editors
  BY <1>1, <1>2, EditStart, EditReads, EditSigned, EditHanded, EditAnswered DEF Editors
<1>3. CASE Crash
  BY <1>3 DEF Crash, EditInv, EditSound, NoEdit
<1>4. CASE UNCHANGED <<edit, signedAt, handed, confirmed>>
  BY <1>4, EditFrame
<1>5. ASSUME PrivateLists \/ Remote PROVE UNCHANGED <<edit, signedAt, handed, confirmed>>
  BY <1>5 DEF PrivateLists, Remote, EditPrivateList, StartRound, ReadPlaintext, ReadPrevious,
     CommitPrivateList, PrivateListFails, OtherDevice, Echo, ReconcileStart, ReconcileCommit,
     signing, observed
<1>6. ASSUME Start \/ Stop \/ Pause \/ Resume \/ ChangeRoutes \/ Publisher \/ DeliveryErrors
      PROVE  UNCHANGED <<edit, signedAt, handed, confirmed>>
  BY <1>6 DEF Start, Stop, Pause, Resume, ChangeRoutes, Reroute, Publisher, DeliveryErrors,
     Woken, StartFlush, QueryNext, EndFlush, Deadline, DeliverRoute, DeliverCheck, DeliverAnswers,
     RecheckTargets, DeliverySettles, DeliveryFails, signing, observed
<1>7. ASSUME UNCHANGED vars PROVE UNCHANGED <<edit, signedAt, handed, confirmed>>
  BY <1>7 DEF vars, signing, observed
<1> QED
  BY <1>2, <1>3, <1>4, <1>5, <1>6, <1>7 DEF Next, Environment

(* A private list was queued as it was read. *)
Recommitted(s) ==
    /\ job[s].stage = "commit" /\ job[s].revision = list[s].revision
    /\ job'[s].stage \in {"none", "queued"} /\ content'[s] = content[s]
    /\ pending'[s].event \in Event /\ cached'[s] = pending'[s].event
    /\ list'[s].event = pending'[s].event /\ list'[s].revision = list[s].revision
    /\ made'[s][pending'[s].event] = job[s].text

LEMMA CommitCases ==
  ASSUME TypeInv, NEW s \in Slot, CommitPrivateList(s)
  PROVE  /\ job[s].stage = "commit" /\ \A u \in Slot \ {s} : list'[u] = list[u]
         /\ \/ UNCHANGED <<cached, pending, list>>
            \/ Recommitted(s) /\ \E e \in Event : Accepts(s, e) /\ Enqueue(s, e)
<1> USE Basics
<1>t. /\ RowsTyped /\ made \in [Slot -> [Event -> Said]] /\ job \in [Slot -> Job]
      /\ list \in [Slot -> ListState] /\ list[s] \in ListState
  BY DEF TypeInv, RowsTyped, JobsTyped, ObservedTyped
<1>1. PICK e \in Event :
         /\ made' = [made EXCEPT ![s][e] = job[s].text]
         /\ \/ UNCHANGED <<cached, pending, list>>
            \/ /\ Accepts(s, e) /\ SnapshotIsCurrent(s) /\ Enqueue(s, e)
               /\ list' = [list EXCEPT ![s].dirty = FALSE, ![s].event = e]
  BY DEF CommitPrivateList, Unmade
<1>2. job[s].stage = "commit" /\ UNCHANGED content /\ job'[s].stage \in {"none", "queued"}
  BY <1>t, NextRoundTyped DEF CommitPrivateList
<1>3. made'[s][e] = job[s].text
  BY <1>t, <1>1
<1>4. CASE UNCHANGED <<cached, pending, list>>
  BY <1>2, <1>4
<1>5. CASE /\ Accepts(s, e) /\ SnapshotIsCurrent(s) /\ Enqueue(s, e)
           /\ list' = [list EXCEPT ![s].dirty = FALSE, ![s].event = e]
  <2>1. pending'[s].event = e /\ cached'[s] = e
    <3>1. cached'[s] = e /\ pending'[s] = [event |-> e, acks |-> {}, due |-> TRUE]
      BY <1>t, <1>1, <1>5, EnqueueTyped
    <3> QED
      BY <3>1
  <2>2. /\ list'[s].event = e /\ list'[s].revision = list[s].revision
        /\ \A u \in Slot \ {s} : list'[u] = list[u]
    BY <1>t, <1>5 DEF ListState
  <2> QED
    BY <1>1, <1>2, <1>3, <1>5, <2>1, <2>2 DEF Recommitted, SnapshotIsCurrent
<1> QED
  BY <1>1, <1>4, <1>5

(* What a step does to a row of the outbox and to the cached event.        *)
RowKept(t) ==
    /\ pending'[t].event = pending[t].event /\ cached'[t] >= cached[t]
    /\ \/ cached'[t] = cached[t]
       \/ cached'[t] \in Event /\ cached'[t] > cached[t] /\ ackedBy[t][cached'[t]] # {}
       \/ made'[t][cached'[t]] \in Other
    /\ \/ pending'[t].acks = pending[t].acks
       \/ /\ delivery[t].stage # "none" /\ pending[t].event = delivery[t].event
          /\ pending'[t].acks = delivery[t].acks
RowQueued(t) ==
    /\ pending'[t].event \in Event /\ pending'[t].acks = {}
    /\ pending'[t].event > pending[t].event /\ pending'[t].event >= cached[t]
    /\ cached'[t] = pending'[t].event
    /\ t \in Private => Recommitted(t)
RowCommitted(t) ==
    /\ EditCommit(t) /\ pending'[t] = NoRow
    /\ cached'[t] = edit[t].event
    /\ edit[t].event >= cached[t] /\ edit[t].event >= pending[t].event
RowRemoved(t) ==
    /\ pending'[t] = NoRow /\ cached'[t] = cached[t]
    /\ delivery[t].stage # "none" /\ pending[t].event = delivery[t].event
    /\ \/ delivery[t].stage = "settle" /\ Quorum(delivery[t].targets, delivery[t].acks)
       \/ t \in Private /\ (list[t].event = delivery[t].event => list'[t].dirty)

LEMMA RowMoves ==
  ASSUME TypeInv, EditInv, [Next]_vars, NEW t \in Slot
  PROVE  RowKept(t) \/ RowQueued(t) \/ RowCommitted(t) \/ RowRemoved(t)
<1> USE Basics
<1>t. /\ cached \in [Slot -> Ranks] /\ pending \in [Slot -> Row] /\ list \in [Slot -> ListState]
      /\ cached[t] \in Ranks /\ pending[t] \in Row /\ cached[t] >= cached[t]
  <2>1. \A e \in Ranks : e >= e
    BY ConfigConstants DEF Ranks
  <2> QED
    BY <2>1 DEF TypeInv, RowsTyped
<1> DEFINE same == /\ cached'[t] = cached[t] /\ pending'[t].event = pending[t].event
                   /\ pending'[t].acks = pending[t].acks
<1>1. ASSUME same PROVE RowKept(t)
  BY <1>1, <1>t DEF RowKept
<1>2. ASSUME NEW s \in Slot, NEW e \in Event, Accepts(s, e), Enqueue(s, e),
             s \in Private => Recommitted(s)
      PROVE  RowKept(t) \/ RowQueued(t) \/ RowCommitted(t) \/ RowRemoved(t)
  <2>1. CASE s = t
    <3>1. cached'[t] = e /\ pending'[t] = [event |-> e, acks |-> {}, due |-> TRUE]
      BY <2>1, <1>2, EnqueueTyped DEF TypeInv
    <3> QED
      BY <2>1, <1>2, <3>1 DEF Accepts, RowQueued
  <2>2. CASE s # t
    BY <2>2, <1>1, <1>2, EnqueueTyped DEF TypeInv
  <2> QED
    BY <2>1, <2>2
<1>3. ASSUME NEW s \in Slot, NEW e \in Event, Store(s, e), UNCHANGED pending,
             \/ ackedBy[s][e] # {} /\ e > cached[s]
             \/ made'[s][e] \in Other
      PROVE  RowKept(t)
  <2>1. cached'[t] = IF t = s THEN Newest(cached[t], e) ELSE cached[t]
    BY <1>3, <1>t DEF Store
  <2>2. cached'[t] >= cached[t] /\ (cached'[t] = cached[t] \/ (t = s /\ cached'[t] = e))
    BY <1>t, <2>1 DEF Newest
  <2> QED
    BY <1>3, <1>t, <2>2 DEF RowKept
<1>4. ASSUME NEW s \in Slot,
             \/ \E wait \in BOOLEAN : StartEdit(s, wait)
             \/ ReadLatest(s) \/ SignAndCheck(s) \/ EditRoute(s)
             \/ (\E oks \in SUBSET Relay : EditAnswers(s, oks)) \/ EditFails(s)
      PROVE  UNCHANGED <<cached, pending>>
  BY <1>4 DEF StartEdit, ReadLatest, SignAndCheck, EditRoute, EditAnswers, EditFails, outside, rows
<1>5. ASSUME NEW s \in Slot, SignAndQueue(s) \/ Requeue(s)
      PROVE  RowKept(t) \/ RowQueued(t) \/ RowCommitted(t) \/ RowRemoved(t)
  <2>1. CASE UNCHANGED <<cached, pending>>
    BY <1>1, <2>1
  <2>2. CASE ~ UNCHANGED <<cached, pending>>
    <3>1. s \notin Private
      BY <1>5, ConfigConstants DEF Requeue, SignAndQueue, EditInv, EditSound
    <3>2. \E e \in Event : Accepts(s, e) /\ Enqueue(s, e)
      BY <1>5, <1>t, <2>2 DEF SignAndQueue, Requeue, Unmade
    <3> QED
      BY <3>1, <3>2, <1>2
  <2> QED
    BY <2>1, <2>2
<1>6. ASSUME NEW s \in Slot, EditCommit(s)
      PROVE  RowKept(t) \/ RowCommitted(t)
  <2>1. CASE s = t /\ BaseHolds(s, edit[s].event)
    BY <1>6, <1>t, <2>1 DEF EditCommit, BaseHolds, RowCommitted
  <2>2. CASE s # t \/ ~ BaseHolds(s, edit[s].event)
    <3>1. same
      BY <1>6, <1>t, <2>2 DEF EditCommit, BaseHolds
    <3> QED
      BY <1>1, <3>1
  <2> QED
    BY <2>1, <2>2
<1>7. CASE Editors
  BY <1>1, <1>4, <1>5, <1>6, <1>7 DEF Editors
<1>8. CASE PrivateLists
  <2>1. ASSUME NEW s \in Slot, EditPrivateList(s) \/ StartRound(s) \/ ReadPlaintext(s)
                              \/ ReadPrevious(s) \/ PrivateListFails(s)
        PROVE  UNCHANGED <<cached, pending>>
    BY <2>1 DEF EditPrivateList, StartRound, ReadPlaintext, ReadPrevious, PrivateListFails, outside, rows
  <2>2. ASSUME NEW s \in Slot, CommitPrivateList(s)
        PROVE  RowKept(t) \/ RowQueued(t) \/ RowCommitted(t) \/ RowRemoved(t)
    BY <1>1, <1>2, <2>2, CommitCases
  <2> QED
    BY <1>1, <1>8, <2>1, <2>2 DEF PrivateLists
<1>9. CASE Remote
  <2>1. ASSUME NEW s \in Slot, OtherDevice(s) \/ Echo(s)
        PROVE  /\ UNCHANGED pending
               /\ \E e \in Event : /\ Store(s, e)
                                   /\ \/ ackedBy[s][e] # {} /\ e > cached[s]
                                      \/ made'[s][e] \in Other
    <3>1. CASE Echo(s)
      BY <3>1 DEF Echo
    <3>2. CASE OtherDevice(s)
      <4>1. PICK e \in Event : made' = [made EXCEPT ![s][e] = <<"other", e>>] /\ Store(s, e)
        BY <3>2 DEF OtherDevice, Unmade
      <4>2. made'[s][e] = <<"other", e>>
        BY <4>1 DEF TypeInv, ObservedTyped
      <4>3. <<"other", e>> \in Other
        BY DEF Other, Event
      <4> QED
        BY <3>2, <4>1, <4>2, <4>3 DEF OtherDevice
    <3> QED
      BY <2>1, <3>1, <3>2
  <2>2. ASSUME NEW s \in Slot, ReconcileStart(s) \/ ReconcileCommit(s)
        PROVE  UNCHANGED <<cached, pending>>
    BY <2>2 DEF ReconcileStart, ReconcileCommit, outside, rows
  <2> QED
    BY <1>1, <1>3, <1>9, <2>1, <2>2 DEF Remote
<1>10. CASE Environment
  <2>1. CASE UNCHANGED cached /\ RetryNow
    BY <1>1, <1>t, <2>1 DEF RetryNow, Row
  <2>2. CASE UNCHANGED <<cached, pending>>
    BY <1>1, <2>2
  <2> QED
    BY <1>10, <2>1, <2>2
       DEF Environment, Start, Stop, Pause, Resume, Crash, ChangeRoutes, Reroute, rows
<1>11. ASSUME NEW s \in Slot, DeliverySettles(s) \/ DeliveryFails(s)
       PROVE  RowKept(t) \/ RowRemoved(t)
  <2>1. delivery[s].stage # "none" /\ UNCHANGED cached
    BY <1>11 DEF DeliverySettles, DeliveryFails
  <2>2. CASE UNCHANGED pending \/ s # t \/ ~ ExactRow(s)
    <3>1. pending'[t] = pending[t]
      BY <1>11, <1>t, <2>2 DEF DeliverySettles, DeliveryFails, DeleteRow, Retire, BackOff
    <3> QED
      BY <1>1, <1>t, <2>1, <3>1
  <2>3. CASE BackOff(s) /\ s = t /\ ExactRow(s)
    BY <1>t, <2>1, <2>3 DEF BackOff, RowKept, ExactRow, Row
  <2>4. CASE DeleteRow(s) /\ s = t /\ ExactRow(s)
    <3>1. pending'[t] = NoRow
      BY <1>t, <2>4 DEF DeleteRow
    <3>2. CASE s \in Private /\ Retire(s)
      BY <1>t, <2>1, <2>4, <3>1, <3>2 DEF Retire, RowRemoved, ExactRow, ListState
    <3>3. CASE delivery[s].stage = "settle" /\ Quorum(delivery[s].targets, delivery[s].acks)
      BY <2>1, <2>4, <3>1, <3>3 DEF RowRemoved, ExactRow
    <3> QED
      BY <1>11, <2>4, <3>1, <3>2, <3>3, <2>3, <2>2 DEF DeliverySettles, DeliveryFails
  <2> QED
    BY <1>11, <2>2, <2>3, <2>4 DEF DeliverySettles, DeliveryFails, Retire
<1>12. CASE Publisher \/ DeliveryErrors
  <2>1. ASSUME NEW s \in Slot, Deadline(s) PROVE RowKept(t)
    <3>1. same
      BY <1>t, <2>1 DEF Deadline, Row
    <3> QED
      BY <1>1, <3>1
  <2>2. ASSUME NEW s \in Slot, \/ DeliverRoute(s) \/ DeliverCheck(s) \/ RecheckTargets(s)
                               \/ \E oks \in SUBSET Relay : DeliverAnswers(s, oks)
        PROVE  UNCHANGED <<cached, pending>>
    BY <2>2 DEF DeliverRoute, DeliverCheck, RecheckTargets, DeliverAnswers, rows
  <2>3. ASSUME Woken \/ StartFlush \/ QueryNext \/ EndFlush PROVE UNCHANGED <<cached, pending>>
    BY <2>3 DEF Woken, StartFlush, QueryNext, EndFlush, rows
  <2> QED
    BY <1>1, <1>11, <1>12, <2>1, <2>2, <2>3 DEF Publisher, DeliveryErrors
<1>13. CASE UNCHANGED vars
  BY <1>1, <1>13 DEF vars, rows
<1> QED
  BY <1>7, <1>8, <1>9, <1>10, <1>12, <1>13 DEF Next

(* What a step does to a delivery. *)
DeliveryMove(t) ==
    \/ delivery'[t] = delivery[t]
    \/ delivery'[t].stage = "none" /\ delivery'[t].event = NoEvent
    \/ /\ delivery'[t].stage = "route" /\ delivery'[t].event = pending[t].event
       /\ delivery'[t].acks = pending[t].acks /\ pending'[t] = pending[t]
       /\ pending[t].event # NoEvent
    \/ /\ delivery[t].stage # "none" /\ delivery'[t].event = delivery[t].event
       /\ \/ /\ delivery'[t].acks = delivery[t].acks
             /\ delivery'[t].stage = "settle" => delivery'[t].targets = routes /\ UNCHANGED <<ackedBy, reached>>
          \/ /\ delivery'[t].acks \subseteq delivery[t].acks \cup ackedBy'[t][delivery[t].event]
             /\ delivery'[t].stage # "settle"

LEMMA DeliveryMoves ==
  ASSUME TypeInv, [Next]_vars, NEW t \in Slot
  PROVE  DeliveryMove(t)
<1> USE Basics
<1>t. /\ delivery \in [Slot -> Delivery] /\ ObservedTyped /\ OthersTyped
      /\ NoDelivery.stage = "none" /\ NoDelivery.event = NoEvent
  BY DEF TypeInv, OthersTyped, NoDelivery
<1>1. CASE UNCHANGED delivery
  BY <1>1 DEF DeliveryMove
<1>2. ASSUME NEW s \in Slot, DeliverRoute(s) \/ DeliverCheck(s) PROVE DeliveryMove(t)
  <2>1. delivery[s].stage \in {"route", "check"} /\ delivery[s] \in Delivery
    BY <1>2, <1>t DEF DeliverRoute, DeliverCheck
  <2>2. \/ delivery'[s] = NoDelivery
        \/ /\ delivery'[s].event = delivery[s].event /\ delivery'[s].acks = delivery[s].acks
           /\ delivery'[s].stage # "settle"
    BY <1>2, <1>t, <2>1 DEF DeliverRoute, DeliverCheck, DeliveryEnds, Delivery
  <2>3. \A u \in Slot \ {s} : delivery'[u] = delivery[u]
    BY <1>2, <1>t DEF DeliverRoute, DeliverCheck, DeliveryEnds
  <2> QED
    BY <1>t, <2>1, <2>2, <2>3 DEF DeliveryMove
<1>3. ASSUME NEW s \in Slot, NEW oks \in SUBSET Relay, DeliverAnswers(s, oks) PROVE DeliveryMove(t)
  <2>1. /\ delivery[s].stage = "publish" /\ delivery[s] \in Delivery /\ delivery[s].event \in Event
        /\ Acknowledge(s, delivery[s].event, oks)
    BY <1>3, <1>t DEF DeliverAnswers, TypeInv, Taken
  <2>2. \/ delivery'[s] = NoDelivery
        \/ /\ delivery'[s].event = delivery[s].event /\ delivery'[s].acks = delivery[s].acks \cup oks
           /\ delivery'[s].stage = "recheck"
    BY <1>3, <1>t, <2>1 DEF DeliverAnswers, DeliveryEnds, Delivery
  <2>3. oks \subseteq ackedBy'[s][delivery[s].event]
    <3>1. ackedBy' = [ackedBy EXCEPT ![s][delivery[s].event] = @ \cup oks]
      BY <2>1 DEF Acknowledge
    <3>2. ackedBy'[s][delivery[s].event] = ackedBy[s][delivery[s].event] \cup oks
      BY <1>t, <2>1, <3>1 DEF ObservedTyped
    <3> QED
      BY <3>2
  <2>4. \A u \in Slot \ {s} : delivery'[u] = delivery[u]
    BY <1>3, <1>t DEF DeliverAnswers, DeliveryEnds
  <2> QED
    BY <1>t, <2>1, <2>2, <2>3, <2>4 DEF DeliveryMove
<1>4. ASSUME NEW s \in Slot, RecheckTargets(s) PROVE DeliveryMove(t)
  <2>1. /\ delivery[s].stage = "recheck" /\ delivery[s] \in Delivery /\ UNCHANGED <<ackedBy, reached>>
    BY <1>4, <1>t DEF RecheckTargets, observed
  <2>2. /\ delivery'[s].event = delivery[s].event /\ delivery'[s].acks = delivery[s].acks
        /\ delivery'[s].targets = routes
        /\ \A u \in Slot \ {s} : delivery'[u] = delivery[u]
    BY <1>4, <1>t, <2>1 DEF RecheckTargets, Delivery
  <2> QED
    BY <2>1, <2>2 DEF DeliveryMove
<1>5. ASSUME NEW s \in Slot, DeliverySettles(s) \/ DeliveryFails(s) PROVE DeliveryMove(t)
  BY <1>5, <1>t DEF DeliverySettles, DeliveryFails, DeliveryEnds, DeliveryMove
<1>6. CASE StartFlush
  <2>1. UNCHANGED pending /\ pending[t] \in Row
    BY <1>6 DEF StartFlush, rows, TypeInv, RowsTyped
  <2>2. CASE ~ UNCHANGED delivery
    <3>1. delivery'[t] = IF pending[t].event # NoEvent /\ pending[t].due
                         THEN [NoDelivery EXCEPT !.stage = "route", !.event = pending[t].event,
                                                 !.acks = pending[t].acks]
                         ELSE NoDelivery
      BY <1>6, <2>2 DEF StartFlush
    <3> QED
      BY <1>t, <2>1, <3>1 DEF NoDelivery, DeliveryMove
  <2> QED
    BY <1>1, <2>2
<1>7. CASE Crash
  BY <1>7, <1>t DEF Crash, DeliveryMove
<1>8. ASSUME Editors \/ PrivateLists \/ Remote \/ Start \/ Stop \/ Pause \/ Resume \/ ChangeRoutes
      PROVE  UNCHANGED delivery
  BY <1>8 DEF Editors, StartEdit, ReadLatest, SignAndQueue, SignAndCheck, EditRoute, EditAnswers,
     EditCommit, EditFails, Requeue, PrivateLists, EditPrivateList, StartRound, ReadPlaintext,
     ReadPrevious, CommitPrivateList, PrivateListFails, Remote, OtherDevice, Echo, ReconcileStart,
     ReconcileCommit, Start, Stop, Pause, Resume, ChangeRoutes, Reroute, outside, flush
<1>9. ASSUME Woken \/ QueryNext \/ EndFlush \/ (\E s \in Slot : Deadline(s)) \/ UNCHANGED vars
      PROVE  UNCHANGED delivery
  BY <1>9 DEF Woken, QueryNext, EndFlush, Deadline, flush, vars
<1> QED
  BY <1>1, <1>2, <1>3, <1>4, <1>5, <1>6, <1>7, <1>8, <1>9
     DEF Next, Environment, Publisher, DeliveryErrors

(* Acknowledgements only accumulate, and with them what a majority has.    *)
AcksMove(t) ==
    /\ \A e \in Event : ackedBy[t][e] \subseteq ackedBy'[t][e]
    /\ reached[t] \subseteq reached'[t] /\ confirmed[t] \subseteq confirmed'[t]
    /\ \A e \in Event : ackedBy'[t][e] # ackedBy[t][e] =>
          \/ edit[t].stage = "publish"
          \/ delivery[t].stage # "none" /\ delivery[t].event = e
    /\ \A e \in Event : Quorum(routes', ackedBy'[t][e]) =>
          e \in reached'[t] \/ Quorum(routes, ackedBy[t][e])

LEMMA AcksMoves ==
  ASSUME TypeInv, [Next]_vars, NEW t \in Slot
  PROVE  AcksMove(t)
<1> USE Basics
<1>t. ObservedTyped /\ OthersTyped
  BY DEF TypeInv
<1>1. CASE UNCHANGED <<routes, ackedBy, reached>> /\ confirmed[t] \subseteq confirmed'[t]
  BY <1>1 DEF AcksMove
<1>2. ASSUME NEW s \in Slot, NEW e \in Event, NEW oks \in SUBSET Relay, Acknowledge(s, e, oks),
             \/ edit[s].stage = "publish"
             \/ delivery[s].stage # "none" /\ delivery[s].event = e,
             UNCHANGED routes, confirmed[t] \subseteq confirmed'[t]
      PROVE  AcksMove(t)
  <2>1. /\ ackedBy'[s][e] = ackedBy[s][e] \cup oks
        /\ \A f \in Event \ {e} : ackedBy'[s][f] = ackedBy[s][f]
        /\ \A u \in Slot \ {s} : ackedBy'[u] = ackedBy[u]
        /\ reached'[t] = reached[t] \cup {f \in Event : Quorum(routes, ackedBy'[t][f])}
    BY <1>2, <1>t, AcknowledgeTyped DEF OthersTyped
  <2> QED
    BY <1>2, <2>1 DEF AcksMove
<1>3. ASSUME NEW s \in Slot, NEW oks \in SUBSET Relay, EditAnswers(s, oks) PROVE AcksMove(t)
  <2>1. edit[s].event \in Event /\ edit[s].stage = "publish" /\ Acknowledge(s, edit[s].event, oks)
    BY <1>3 DEF EditAnswers, TypeInv, Signed
  <2>2. UNCHANGED routes /\ confirmed[t] \subseteq confirmed'[t]
    <3>1. UNCHANGED confirmed \/ confirmed' = [confirmed EXCEPT ![s] = @ \cup {edit[s].event}]
      BY <1>3 DEF EditAnswers
    <3>2. confirmed[t] \subseteq confirmed'[t]
      BY <1>t, <3>1 DEF ObservedTyped
    <3> QED
      BY <1>3, <3>2 DEF EditAnswers, outside
  <2> QED
    BY <1>2, <2>1, <2>2
<1>4. ASSUME NEW s \in Slot, NEW oks \in SUBSET Relay, DeliverAnswers(s, oks) PROVE AcksMove(t)
  <2>1. /\ delivery[s].event \in Event /\ delivery[s].stage = "publish"
        /\ Acknowledge(s, delivery[s].event, oks)
    BY <1>4 DEF DeliverAnswers, TypeInv, Taken
  <2>2. UNCHANGED <<routes, confirmed>>
    BY <1>4 DEF DeliverAnswers
  <2> QED
    BY <1>2, <2>1, <2>2
<1>5. CASE ChangeRoutes
  <2>1. PICK relays : Reroute(relays)
    BY <1>5 DEF ChangeRoutes
  <2>2. /\ UNCHANGED <<ackedBy, confirmed>>
        /\ reached'[t] = reached[t] \cup {f \in Event : Quorum(routes', ackedBy[t][f])}
    BY <2>1 DEF Reroute
  <2> QED
    BY <2>2 DEF AcksMove
<1>6. ASSUME Editors, ~ \E s \in Slot, oks \in SUBSET Relay : EditAnswers(s, oks)
      PROVE  UNCHANGED <<routes, ackedBy, reached, confirmed>>
  BY <1>6 DEF Editors, StartEdit, ReadLatest, SignAndQueue, SignAndCheck, EditRoute,
     EditCommit, EditFails, Requeue, outside, observed
<1>7. ASSUME PrivateLists \/ Remote \/ Start \/ Stop \/ Pause \/ Resume \/ Crash
      PROVE  UNCHANGED <<routes, ackedBy, reached, confirmed>>
  BY <1>7 DEF PrivateLists, EditPrivateList, StartRound, ReadPlaintext,
     ReadPrevious, CommitPrivateList, PrivateListFails, Remote, OtherDevice, Echo, ReconcileStart,
     ReconcileCommit, Start, Stop, Pause, Resume, Crash, outside, observed
<1>8. ASSUME Publisher \/ DeliveryErrors \/ UNCHANGED vars,
             ~ \E s \in Slot, oks \in SUBSET Relay : DeliverAnswers(s, oks)
      PROVE  UNCHANGED <<routes, ackedBy, reached, confirmed>>
  BY <1>8 DEF Publisher, DeliveryErrors, Woken, StartFlush, QueryNext, EndFlush, Deadline,
     DeliverRoute, DeliverCheck, RecheckTargets, DeliverySettles, DeliveryFails, vars, observed
<1> QED
  BY <1>1, <1>3, <1>4, <1>5, <1>6, <1>7, <1>8 DEF Next, Environment

(* What a step does to the event being decrypted, and to the local tables. *)
ContentMove(t) ==
    \/ content'[t] = content[t]
    \/ EditPrivateList(t)
    \/ ReconcileCommit(t) /\ CanApply(t, reconcile[t]) /\ content'[t] = made[t][reconcile[t]]
    \/ t \notin Private /\ (SignAndQueue(t) \/ EditCommit(t))

LEMMA ContentMoves ==
  ASSUME TypeInv, EditInv, [Next]_vars, NEW t \in Slot
  PROVE  ContentMove(t)
<1>t. content \in [Slot -> Said]
  BY DEF TypeInv, RowsTyped
<1>1. ASSUME NEW s \in Slot, SignAndQueue(s) \/ EditCommit(s) PROVE ContentMove(t)
  <2>1. s \notin Private
    BY <1>1 DEF SignAndQueue, EditCommit, EditInv, EditSound
  <2>2. \A u \in Slot \ {s} : content'[u] = content[u]
    BY <1>1, <1>t DEF SignAndQueue, EditCommit
  <2> QED
    BY <1>1, <2>1, <2>2 DEF ContentMove
<1>2. ASSUME NEW s \in Slot, EditPrivateList(s) PROVE ContentMove(t)
  BY <1>2, <1>t DEF EditPrivateList, ContentMove
<1>3. ASSUME NEW s \in Slot, ReconcileCommit(s) PROVE ContentMove(t)
  <2>1. \/ UNCHANGED content
        \/ CanApply(s, reconcile[s]) /\ content' = [content EXCEPT ![s] = made[s][reconcile[s]]]
    BY <1>3 DEF ReconcileCommit
  <2> QED
    BY <1>3, <1>t, <2>1 DEF ContentMove
<1>4. ASSUME NEW s \in Slot, \/ \E wait \in BOOLEAN : StartEdit(s, wait)
             \/ ReadLatest(s) \/ SignAndCheck(s) \/ EditRoute(s)
             \/ (\E oks \in SUBSET Relay : EditAnswers(s, oks)) \/ EditFails(s) \/ Requeue(s)
             \/ StartRound(s) \/ ReadPlaintext(s) \/ ReadPrevious(s) \/ CommitPrivateList(s)
             \/ PrivateListFails(s) \/ OtherDevice(s) \/ Echo(s) \/ ReconcileStart(s)
      PROVE  UNCHANGED content
  BY <1>4 DEF StartEdit, ReadLatest, SignAndCheck, EditRoute, EditAnswers, EditFails, Requeue,
     StartRound, ReadPlaintext, ReadPrevious, CommitPrivateList, PrivateListFails, OtherDevice,
     Echo, ReconcileStart, outside, rows
<1>5. ASSUME Environment \/ Publisher \/ DeliveryErrors \/ UNCHANGED vars PROVE UNCHANGED content
  BY <1>5 DEF Environment, Start, Stop, Pause, Resume, Crash, ChangeRoutes, Reroute, Publisher,
     DeliveryErrors, Woken, StartFlush, QueryNext, EndFlush, Deadline, DeliverRoute, DeliverCheck,
     DeliverAnswers, RecheckTargets, DeliverySettles, DeliveryFails, vars, rows
<1>6. UNCHANGED content => ContentMove(t)
  BY DEF ContentMove
<1> QED
  BY <1>1, <1>2, <1>3, <1>4, <1>5, <1>6 DEF Next, Editors, PrivateLists, Remote

LEMMA ReconcileMoves ==
  ASSUME TypeInv, [Next]_vars, NEW t \in Slot
  PROVE  reconcile'[t] \in {NoEvent, reconcile[t], cached[t]}
<1>t. reconcile \in [Slot -> Ranks]
  BY DEF TypeInv, JobsTyped
<1>1. ASSUME NEW s \in Slot, ReconcileStart(s) \/ ReconcileCommit(s)
      PROVE  reconcile'[t] \in {NoEvent, reconcile[t], cached[t]}
  BY <1>1, <1>t DEF ReconcileStart, ReconcileCommit
<1>2. ASSUME Crash PROVE reconcile'[t] = NoEvent
  BY <1>2 DEF Crash
<1>3. ASSUME NEW s \in Slot, OtherDevice(s) \/ Echo(s) PROVE UNCHANGED reconcile
  BY <1>3 DEF OtherDevice, Echo, signing
<1>4. ASSUME Editors \/ PrivateLists PROVE UNCHANGED reconcile
  BY <1>4 DEF Editors, StartEdit, ReadLatest, SignAndQueue, SignAndCheck, EditRoute, EditAnswers,
     EditCommit, EditFails, Requeue, PrivateLists, EditPrivateList, StartRound, ReadPlaintext,
     ReadPrevious, CommitPrivateList, PrivateListFails, signing
<1>5. ASSUME Start \/ Stop \/ Pause \/ Resume \/ ChangeRoutes \/ Publisher \/ DeliveryErrors
             \/ UNCHANGED vars
      PROVE  UNCHANGED reconcile
  BY <1>5 DEF Start, Stop, Pause, Resume, ChangeRoutes, Reroute, Publisher,
     DeliveryErrors, Woken, StartFlush, QueryNext, EndFlush, Deadline, DeliverRoute, DeliverCheck,
     DeliverAnswers, RecheckTargets, DeliverySettles, DeliveryFails, vars, signing
<1> QED
  BY <1>1, <1>2, <1>3, <1>4, <1>5 DEF Next, Remote, Environment
-----------------------------------------------------------------------------
(* Nothing is queued, delivered or applied that is newer than the cache.   *)
CacheInv == \A s \in Slot :
    /\ pending[s].event <= cached[s] /\ delivery[s].event <= cached[s]
    /\ reconcile[s] <= cached[s]

LEMMA CacheInit == Init => CacheInv
BY DEF Init, CacheInv, NoRow, NoDelivery, NoEvent

LEMMA CacheKept ==
  ASSUME TypeInv, TypeInv', EditInv, CacheInv, [Next]_vars
  PROVE  CacheInv' /\ \A t \in Slot : cached'[t] >= cached[t]
<1> SUFFICES ASSUME NEW t \in Slot
    PROVE  /\ pending'[t].event <= cached'[t] /\ delivery'[t].event <= cached'[t]
           /\ reconcile'[t] <= cached'[t] /\ cached'[t] >= cached[t]
  BY DEF CacheInv
<1>t. /\ \A e \in {cached[t], cached'[t], pending[t].event, pending'[t].event, delivery[t].event,
                   delivery'[t].event, reconcile[t], reconcile'[t]} : e \in Nat
      /\ NoEvent = 0 /\ NoRow.event = 0
  BY Basics DEF TypeInv, RowsTyped, JobsTyped, OthersTyped, Row, Delivery, NoEvent, NoRow
<1>1. pending[t].event <= cached[t] /\ delivery[t].event <= cached[t] /\ reconcile[t] <= cached[t]
  BY DEF CacheInv
<1>2. cached'[t] >= cached[t] /\ pending'[t].event <= cached'[t]
  BY <1>t, <1>1, RowMoves DEF RowKept, RowQueued, RowCommitted, RowRemoved
<1>3. delivery'[t].event \in {0, delivery[t].event, pending[t].event}
  BY <1>t, DeliveryMoves DEF DeliveryMove
<1>4. reconcile'[t] \in {0, reconcile[t], cached[t]}
  BY <1>t, ReconcileMoves
<1> QED
  BY <1>t, <1>1, <1>2, <1>3, <1>4

(* Receipts in the outbox and in a delivery are for their event.           *)
ReceiptInv == \A s \in Slot :
    /\ pending[s].event # NoEvent => pending[s].acks \subseteq ackedBy[s][pending[s].event]
    /\ delivery[s].stage # "none" => delivery[s].acks \subseteq ackedBy[s][delivery[s].event]

LEMMA ReceiptInit == Init => ReceiptInv
BY DEF Init, ReceiptInv, NoRow, NoDelivery

LEMMA ReceiptKept ==
  ASSUME TypeInv, TypeInv', EditInv, ReceiptInv, [Next]_vars
  PROVE  ReceiptInv'
<1> SUFFICES ASSUME NEW t \in Slot
    PROVE  /\ pending'[t].event # NoEvent => pending'[t].acks \subseteq ackedBy'[t][pending'[t].event]
           /\ delivery'[t].stage # "none" => delivery'[t].acks \subseteq ackedBy'[t][delivery'[t].event]
  BY DEF ReceiptInv
<1>t. /\ pending[t].event # NoEvent => pending[t].event \in Event
      /\ delivery[t].stage # "none" => delivery[t].event \in Event
      /\ NoRow.event = NoEvent
  BY Basics DEF TypeInv, RowsTyped, Row, Taken, NoRow
<1>1. \A e \in Event : ackedBy[t][e] \subseteq ackedBy'[t][e]
  BY AcksMoves DEF AcksMove
<1>2. /\ pending[t].event # NoEvent => pending[t].acks \subseteq ackedBy'[t][pending[t].event]
      /\ delivery[t].stage # "none" => delivery[t].acks \subseteq ackedBy'[t][delivery[t].event]
  BY <1>t, <1>1 DEF ReceiptInv
<1>3. pending'[t].event # NoEvent => pending'[t].acks \subseteq ackedBy'[t][pending'[t].event]
  BY <1>t, <1>2, RowMoves DEF RowKept, RowQueued, RowCommitted, RowRemoved
<1>4. delivery'[t].stage # "none" => delivery'[t].acks \subseteq ackedBy'[t][delivery'[t].event]
  BY <1>2, DeliveryMoves DEF DeliveryMove
<1> QED
  BY <1>3, <1>4

(* What a majority of the relays has is recorded as such.                  *)
ReachInv == \A s \in Slot :
    /\ \A e \in Event : Quorum(routes, ackedBy[s][e]) => e \in reached[s]
    /\ delivery[s].stage = "settle" /\ Quorum(delivery[s].targets, delivery[s].acks)
       => delivery[s].event \in reached[s]

LEMMA QuorumGrows ==
  ASSUME NEW targets \in SUBSET Relay, NEW acks, NEW more_acks, acks \subseteq more_acks,
         Quorum(targets, acks)
  PROVE  Quorum(targets, more_acks)
<1>1. IsFiniteSet(targets)
  BY ConfigConstants, FS_Subset
<1>2. /\ IsFiniteSet(targets \cap more_acks)
      /\ targets \cap acks \subseteq targets \cap more_acks
  BY <1>1, FS_Subset
<1>3. /\ Cardinality(targets \cap acks) <= Cardinality(targets \cap more_acks)
      /\ Cardinality(targets \cap more_acks) \in Nat
  BY <1>2, FS_Subset, FS_CardinalityType
<1>4. IsFiniteSet(targets \cap acks)
  BY <1>1, FS_Subset
<1>5. Cardinality(targets \cap acks) \in Nat /\ Cardinality(targets) \in Nat
  BY <1>1, <1>4, FS_CardinalityType
<1> QED
  BY <1>3, <1>5 DEF Quorum

LEMMA ReachInit == Init => ReachInv
<1> SUFFICES ASSUME Init, NEW s \in Slot
    PROVE  /\ \A e \in Event : ~ Quorum(routes, ackedBy[s][e])
           /\ delivery[s].stage # "settle"
  BY DEF ReachInv
<1>1. \A e \in Event : ackedBy[s][e] = {}
  BY DEF Init
<1>2. ~ Quorum(routes, {})
  <2>1. IsFiniteSet(routes) /\ Cardinality(routes) \in Nat
    BY ConfigConstants, FS_Subset, FS_CardinalityType DEF Init
  <2>2. routes \cap {} = {} /\ Cardinality({}) = 0
    BY FS_EmptySet
  <2> QED
    BY <2>1, <2>2 DEF Quorum
<1> QED
  BY <1>1, <1>2 DEF Init, NoDelivery

LEMMA ReachKept ==
  ASSUME TypeInv, TypeInv', ReceiptInv, ReachInv, [Next]_vars
  PROVE  ReachInv'
<1> SUFFICES ASSUME NEW t \in Slot
    PROVE  /\ \A e \in Event : Quorum(routes', ackedBy'[t][e]) => e \in reached'[t]
           /\ delivery'[t].stage = "settle" /\ Quorum(delivery'[t].targets, delivery'[t].acks)
              => delivery'[t].event \in reached'[t]
  BY DEF ReachInv
<1>1. \A e \in Event : Quorum(routes', ackedBy'[t][e]) => e \in reached'[t]
  BY AcksMoves DEF AcksMove, ReachInv
<1>2. reached[t] \subseteq reached'[t]
  BY AcksMoves DEF AcksMove
<1>3. ASSUME delivery[t].stage # "none", Quorum(routes, delivery[t].acks)
      PROVE  delivery[t].event \in reached[t]
  <2>1. delivery[t].event \in Event /\ routes \in SUBSET Relay
    BY <1>3 DEF TypeInv, OthersTyped, Taken
  <2>2. delivery[t].acks \subseteq ackedBy[t][delivery[t].event]
    BY <1>3 DEF ReceiptInv
  <2> QED
    BY <1>3, <2>1, <2>2, QuorumGrows DEF ReachInv
<1>4. ASSUME delivery'[t].stage = "settle", Quorum(delivery'[t].targets, delivery'[t].acks)
      PROVE  delivery'[t].event \in reached'[t]
  <2>1. CASE delivery'[t] = delivery[t]
    BY <1>2, <1>4, <2>1 DEF ReachInv
  <2>2. CASE ~ delivery'[t] = delivery[t]
    BY <1>2, <1>3, <1>4, <2>2, DeliveryMoves DEF DeliveryMove
  <2> QED
    BY <2>1, <2>2
<1> QED
  BY <1>1, <1>4

-----------------------------------------------------------------------------
(* What a step does to the job of a private list and to its state.         *)
JobMove(t) ==
    /\ job'[t].stage # "none" => job[t].stage # "none" \/ EditPrivateList(t)
    /\ \/ job'[t].stage \in {"none", "queued", "start"}
       \/ list[t].dirty /\ job'[t].revision = list[t].revision /\ job'[t].text = content[t]
          /\ UNCHANGED <<content, list>>
       \/ /\ job'[t].revision = job[t].revision /\ job'[t].text = job[t].text
          /\ job'[t].stage \in {"previous", "commit"} => job[t].stage \in {"previous", "commit"}
ListMove(t) ==
    \/ Recommitted(t)
    \/ /\ EditPrivateList(t) /\ list'[t].dirty /\ list'[t].event = list[t].event
       /\ list'[t].revision = list[t].revision + 1
    \/ /\ list'[t].event = list[t].event /\ list'[t].revision = list[t].revision
       /\ list[t].dirty => list'[t].dirty
MadeMove(t) == \A e \in Event : made'[t][e] # made[t][e] =>
    /\ made[t][e] = Unsigned
    /\ \/ t \notin Private \/ made'[t][e] \in Other
       \/ job[t].stage = "commit" /\ (Recommitted(t) \/ list'[t] = list[t])

LEMMA JobMoves ==
  ASSUME TypeInv, [Next]_vars, NEW t \in Slot
  PROVE  JobMove(t)
<1>t. /\ job \in [Slot -> Job] /\ list \in [Slot -> ListState]
      /\ NoJobHere.stage = "none" /\ \A s \in Slot : job[s] \in Job
  BY DEF TypeInv, RowsTyped, JobsTyped, NoJobHere
<1>1. CASE job'[t] = job[t]
  BY <1>1 DEF JobMove
<1>2. ASSUME NEW s \in Slot, NextRound(s), job[s].stage # "none" PROVE JobMove(t)
  BY <1>2, <1>t, NextRoundTyped DEF JobMove
<1>3. ASSUME NEW s \in Slot, EditPrivateList(s) PROVE JobMove(t)
  <2>1. CASE s = t
    <3>1. job'[t] = IF job[t].stage = "none" THEN [NoJobHere EXCEPT !.stage = "queued"]
                    ELSE [job[t] EXCEPT !.again = TRUE]
      BY <1>3, <1>t, <2>1 DEF EditPrivateList
    <3>2. \/ job'[t].stage = "queued"
          \/ /\ job'[t].revision = job[t].revision /\ job'[t].text = job[t].text
             /\ job'[t].stage = job[t].stage
      BY <1>t, <3>1 DEF Job, NoJobHere
    <3> QED
      BY <1>3, <2>1, <3>2 DEF JobMove
  <2>2. CASE s # t
    BY <1>1, <1>3, <1>t, <2>2 DEF EditPrivateList
  <2> QED
    BY <2>1, <2>2
<1>4. ASSUME NEW s \in Slot, StartRound(s) \/ ReadPrevious(s) PROVE JobMove(t)
  <2>1. /\ job[s].stage = "queued" /\ job'[s].stage = "start"
        \/ /\ job[s].stage = "previous" /\ job'[s].stage = "commit"
           /\ job'[s].revision = job[s].revision /\ job'[s].text = job[s].text
    BY <1>4, <1>t DEF StartRound, ReadPrevious, Job
  <2>2. \A u \in Slot \ {s} : job'[u] = job[u]
    BY <1>4, <1>t DEF StartRound, ReadPrevious
  <2> QED
    BY <1>1, <2>1, <2>2 DEF JobMove
<1>5. ASSUME NEW s \in Slot, ReadPlaintext(s) PROVE JobMove(t)
  <2>1. job[s].stage = "start" /\ UNCHANGED <<content, list>>
    BY <1>5 DEF ReadPlaintext, outside, rows
  <2>2. CASE NextRound(s)
    BY <1>2, <2>1, <2>2
  <2>3. CASE ~ NextRound(s)
    <3>1. /\ list[s].dirty
          /\ job' = [job EXCEPT ![s].stage = "previous",
                                ![s].revision = list[s].revision, ![s].text = content[s]]
      BY <1>5, <2>3 DEF ReadPlaintext
    <3>2. /\ job'[s].revision = list[s].revision /\ job'[s].text = content[s]
          /\ \A u \in Slot \ {s} : job'[u] = job[u]
      BY <1>t, <3>1 DEF Job
    <3> QED
      BY <1>1, <2>1, <3>1, <3>2 DEF JobMove
  <2> QED
    BY <2>2, <2>3
<1>6. ASSUME NEW s \in Slot, CommitPrivateList(s) \/ PrivateListFails(s)
      PROVE  NextRound(s) /\ job[s].stage # "none"
  BY <1>6 DEF CommitPrivateList, PrivateListFails
<1>7. CASE PrivateLists
  BY <1>2, <1>3, <1>4, <1>5, <1>6, <1>7 DEF PrivateLists
<1>8. CASE Crash
  BY <1>8, <1>t DEF Crash, JobMove
<1>9. ASSUME Editors \/ Remote \/ Start \/ Stop \/ Pause \/ Resume \/ ChangeRoutes
      PROVE  UNCHANGED job
  BY <1>9 DEF Editors, StartEdit, ReadLatest, SignAndQueue, SignAndCheck, EditRoute, EditAnswers,
     EditCommit, EditFails, Requeue, Remote, OtherDevice, Echo, ReconcileStart, ReconcileCommit,
     Start, Stop, Pause, Resume, ChangeRoutes, Reroute, signing
<1>10. ASSUME Publisher \/ DeliveryErrors \/ UNCHANGED vars PROVE UNCHANGED job
  BY <1>10 DEF Publisher, DeliveryErrors, Woken, StartFlush, QueryNext, EndFlush, Deadline,
     DeliverRoute, DeliverCheck, DeliverAnswers, RecheckTargets, DeliverySettles, DeliveryFails,
     vars, signing
<1> QED
  BY <1>1, <1>7, <1>8, <1>9, <1>10 DEF Next, Environment

LEMMA ListMoves ==
  ASSUME TypeInv, [Next]_vars, NEW t \in Slot
  PROVE  ListMove(t)
<1>t. /\ list \in [Slot -> ListState] /\ \A s \in Slot : list[s] \in ListState
  BY DEF TypeInv, RowsTyped
<1>1. CASE list'[t] = list[t]
  BY <1>1 DEF ListMove
<1>2. ASSUME NEW s \in Slot, EditPrivateList(s) PROVE ListMove(t)
  <2>1. /\ list'[s].dirty /\ list'[s].event = list[s].event
        /\ list'[s].revision = list[s].revision + 1
    BY <1>2, <1>t DEF EditPrivateList, ListState
  <2>2. \A u \in Slot \ {s} : list'[u] = list[u]
    BY <1>2, <1>t DEF EditPrivateList
  <2> QED
    BY <1>1, <1>2, <2>1, <2>2 DEF ListMove
<1>3. ASSUME NEW s \in Slot, CommitPrivateList(s) PROVE ListMove(t)
  BY <1>1, <1>3, CommitCases DEF ListMove
<1>4. ASSUME NEW s \in Slot, DeliverySettles(s) \/ DeliveryFails(s) PROVE ListMove(t)
  <2>1. UNCHANGED list \/ list' = [list EXCEPT ![s].dirty = TRUE]
    BY <1>4 DEF DeliverySettles, DeliveryFails, Retire, BackOff
  <2> QED
    BY <1>t, <2>1 DEF ListMove, ListState
<1>5. ASSUME NEW s \in Slot, StartRound(s) \/ ReadPlaintext(s) \/ ReadPrevious(s) \/ PrivateListFails(s)
      PROVE  UNCHANGED list
  BY <1>5 DEF StartRound, ReadPlaintext, ReadPrevious, PrivateListFails, outside, rows
<1>6. ASSUME Editors \/ Remote \/ Environment PROVE UNCHANGED list
  BY <1>6 DEF Editors, StartEdit, ReadLatest, SignAndQueue, SignAndCheck, EditRoute, EditAnswers,
     EditCommit, EditFails, Requeue, Remote, OtherDevice, Echo, ReconcileStart, ReconcileCommit,
     Environment, Start, Stop, Pause, Resume, Crash, ChangeRoutes, Reroute, outside, rows
<1>7. ASSUME \/ Woken \/ StartFlush \/ QueryNext \/ EndFlush \/ UNCHANGED vars
             \/ \E s \in Slot : \/ Deadline(s) \/ DeliverRoute(s) \/ DeliverCheck(s)
                                \/ RecheckTargets(s) \/ \E oks \in SUBSET Relay : DeliverAnswers(s, oks)
      PROVE  UNCHANGED list
  BY <1>7 DEF Woken, StartFlush, QueryNext, EndFlush, Deadline,
     DeliverRoute, DeliverCheck, DeliverAnswers, RecheckTargets, vars, rows
<1> QED
  BY <1>1, <1>2, <1>3, <1>4, <1>5, <1>6, <1>7 DEF Next, PrivateLists, Publisher, DeliveryErrors

LEMMA MadeMoves ==
  ASSUME TypeInv, EditInv, [Next]_vars, NEW t \in Slot
  PROVE  MadeMove(t)
<1>t. made \in [Slot -> [Event -> Said]]
  BY DEF TypeInv, ObservedTyped
<1>1. CASE UNCHANGED made
  BY <1>1 DEF MadeMove
<1>2. ASSUME NEW s \in Slot, NEW e \in Unmade(s), NEW text, made' = [made EXCEPT ![s][e] = text],
             \/ s \notin Private \/ text \in Other
             \/ job[s].stage = "commit" /\ (Recommitted(s) \/ list'[s] = list[s])
      PROVE  MadeMove(t)
  <2>1. /\ made[s][e] = Unsigned /\ e \in Event /\ made'[s][e] = text
        /\ \A f \in Event : made'[t][f] # made[t][f] => t = s /\ f = e
    BY <1>2, <1>t DEF Unmade
  <2> QED
    BY <1>2, <2>1 DEF MadeMove
<1>3. ASSUME NEW s \in Slot, SignAndQueue(s) \/ SignAndCheck(s) PROVE MadeMove(t)
  <2>1. s \notin Private
    BY <1>3 DEF SignAndQueue, SignAndCheck, EditInv, EditSound
  <2>2. \E e \in Unmade(s) : made' = [made EXCEPT ![s][e] = edit[s].text]
    BY <1>3 DEF SignAndQueue, SignAndCheck
  <2> QED
    BY <1>2, <2>1, <2>2
<1>4. ASSUME NEW s \in Slot, CommitPrivateList(s) PROVE MadeMove(t)
  <2>1. \E e \in Unmade(s) : made' = [made EXCEPT ![s][e] = job[s].text]
    BY <1>4 DEF CommitPrivateList
  <2>2. job[s].stage = "commit" /\ (Recommitted(s) \/ list'[s] = list[s])
    BY <1>4, CommitCases
  <2> QED
    BY <1>2, <2>1, <2>2
<1>5. ASSUME NEW s \in Slot, OtherDevice(s) PROVE MadeMove(t)
  <2>1. PICK e \in Unmade(s) : made' = [made EXCEPT ![s][e] = <<"other", e>>]
    BY <1>5 DEF OtherDevice
  <2>2. <<"other", e>> \in Other
    BY DEF Unmade, Other, Event
  <2> QED
    BY <1>2, <2>1, <2>2
<1>6. ASSUME NEW s \in Slot,
             \/ \E wait \in BOOLEAN : StartEdit(s, wait)
             \/ ReadLatest(s) \/ EditRoute(s) \/ (\E oks \in SUBSET Relay : EditAnswers(s, oks))
             \/ EditCommit(s) \/ EditFails(s) \/ Requeue(s)
             \/ EditPrivateList(s) \/ StartRound(s) \/ ReadPlaintext(s) \/ ReadPrevious(s)
             \/ PrivateListFails(s) \/ Echo(s) \/ ReconcileStart(s) \/ ReconcileCommit(s)
      PROVE  UNCHANGED made
  BY <1>6 DEF StartEdit, ReadLatest, EditRoute, EditAnswers, EditCommit, EditFails, Requeue,
     EditPrivateList, StartRound, ReadPlaintext, ReadPrevious, PrivateListFails, Echo,
     ReconcileStart, ReconcileCommit, observed
<1>7. ASSUME Environment \/ Publisher \/ DeliveryErrors \/ UNCHANGED vars PROVE UNCHANGED made
  BY <1>7 DEF Environment, Start, Stop, Pause, Resume, Crash, ChangeRoutes, Reroute, Publisher,
     DeliveryErrors, Woken, StartFlush, QueryNext, EndFlush, Deadline, DeliverRoute, DeliverCheck,
     DeliverAnswers, RecheckTargets, DeliverySettles, DeliveryFails, vars, observed
<1> QED
  BY <1>1, <1>3, <1>4, <1>5, <1>6, <1>7 DEF Next, Editors, PrivateLists, Remote

-----------------------------------------------------------------------------
(* What a job encrypts is the list as it is, unless the revision moved on. *)
JobInv == \A s \in Slot :
    /\ job[s].stage # "none" => s \in Private
    /\ job[s].stage \in {"previous", "commit"} =>
          /\ list[s].dirty /\ job[s].revision <= list[s].revision
          /\ job[s].revision = list[s].revision => job[s].text = content[s]

LEMMA JobInit == Init => JobInv
BY DEF Init, JobInv, NoJobHere

LEMMA JobKept ==
  ASSUME TypeInv, TypeInv', EditInv, JobInv, [Next]_vars
  PROVE  JobInv'
<1> SUFFICES ASSUME NEW t \in Slot
    PROVE  /\ job'[t].stage # "none" => t \in Private
           /\ job'[t].stage \in {"previous", "commit"} =>
                 /\ list'[t].dirty /\ job'[t].revision <= list'[t].revision
                 /\ job'[t].revision = list'[t].revision => job'[t].text = content'[t]
  BY DEF JobInv
<1>t. /\ job[t].revision \in Nat /\ job'[t].revision \in Nat
      /\ list[t].revision \in Nat /\ list'[t].revision \in Nat
  BY DEF TypeInv, RowsTyped, JobsTyped, Job, ListState
<1>1. job'[t].stage # "none" => t \in Private
  BY JobMoves DEF JobMove, JobInv, EditPrivateList
<1>2. ASSUME job'[t].stage \in {"previous", "commit"}
      PROVE  /\ list'[t].dirty /\ job'[t].revision <= list'[t].revision
             /\ job'[t].revision = list'[t].revision => job'[t].text = content'[t]
  <2>1. t \in Private
    BY <1>1, <1>2
  <2>2. ~ Recommitted(t)
    BY <1>2 DEF Recommitted
  <2>3. CASE /\ list[t].dirty /\ job'[t].revision = list[t].revision /\ job'[t].text = content[t]
             /\ UNCHANGED <<content, list>>
    BY <1>t, <2>3
  <2>4. CASE /\ job'[t].revision = job[t].revision /\ job'[t].text = job[t].text
             /\ job[t].stage \in {"previous", "commit"}
    <3>1. /\ list[t].dirty /\ job[t].revision <= list[t].revision
          /\ job[t].revision = list[t].revision => job[t].text = content[t]
      BY <2>4 DEF JobInv
    <3>2. \/ list'[t].dirty /\ list'[t].revision = list[t].revision + 1
          \/ list'[t].revision = list[t].revision /\ list'[t].dirty
      BY <2>2, <3>1, ListMoves DEF ListMove
    <3>3. content'[t] = content[t] \/ list'[t].revision = list[t].revision + 1
      <4>1. ~ CanApply(t, reconcile[t])
        BY <3>1 DEF CanApply
      <4>2. EditPrivateList(t) => list'[t].revision = list[t].revision + 1
        BY DEF EditPrivateList, TypeInv, RowsTyped, ListState
      <4> QED
        BY <2>1, <4>1, <4>2, ContentMoves DEF ContentMove
    <3> QED
      BY <1>t, <2>4, <3>1, <3>2, <3>3
  <2> QED
    BY <1>2, <2>3, <2>4, JobMoves DEF JobMove
<1> QED
  BY <1>1, <1>2

(* A private list that is not dirty is in the outbox or was published.     *)
Known(t, e) == e \in reached[t] \/ e = pending[t].event
ListSound(t) ==
    /\ pending[t].event # NoEvent => list[t].event = pending[t].event
    /\ \A e \in Event : ackedBy[t][e] # {} => e <= cached[t]
    /\ cached[t] # NoEvent /\ made[t][cached[t]] \in Own => list[t].dirty \/ Known(t, cached[t])
    /\ content[t] \in Own => list[t].dirty \/ Carried(t, content[t])
ListInv == \A t \in Private : ListSound(t)

LEMMA ListInit == Init => ListInv
<1> SUFFICES ASSUME Init, NEW t \in Private PROVE ListSound(t)
  BY DEF ListInv
<1>1. t \in Slot
  BY ConfigConstants
<1>2. content[t] = Nothing /\ Nothing \notin Own
  BY <1>1 DEF Init, Nothing, Own
<1> QED
  BY <1>1, <1>2 DEF Init, ListSound, NoRow

LEMMA OwnIsSigned == Unsigned \notin Own /\ \A text \in Own : text \notin Other
BY DEF Own, Other, Unsigned

(* Events that are known stay known, or the list is dirty. *)
LEMMA KnownStays ==
  ASSUME TypeInv, EditInv, ReachInv, ListInv, [Next]_vars, NEW t \in Private,
         NEW e \in Event, Known(t, e)
  PROVE  Known(t, e)' \/ list'[t].dirty \/ Recommitted(t)
<1>t. t \in Slot
  BY ConfigConstants
<1>1. reached[t] \subseteq reached'[t]
  BY <1>t, AcksMoves DEF AcksMove
<1>2. CASE e \in reached[t]
  BY <1>1, <1>2 DEF Known
<1>3. CASE e = pending[t].event
  <2>1. ~ RowCommitted(t)
    BY <1>t DEF RowCommitted, EditCommit, EditInv, EditSound
  <2>2. CASE RowKept(t)
    BY <1>3, <2>2 DEF RowKept, Known
  <2>3. CASE RowRemoved(t)
    <3>1. list[t].event = pending[t].event /\ pending[t].event = delivery[t].event
      BY <1>3, <2>3, Basics DEF ListInv, ListSound, RowRemoved
    <3>2. CASE list'[t].dirty
      BY <3>2
    <3>3. CASE delivery[t].stage = "settle" /\ Quorum(delivery[t].targets, delivery[t].acks)
      BY <1>1, <1>3, <1>t, <3>1, <3>3 DEF ReachInv, Known
    <3> QED
      BY <2>3, <3>1, <3>2, <3>3 DEF RowRemoved
  <2> QED
    BY <1>t, <2>1, <2>2, <2>3, RowMoves DEF RowQueued
<1> QED
  BY <1>2, <1>3 DEF Known

LEMMA ListKept ==
  ASSUME TypeInv, TypeInv', EditInv, CacheInv, CacheInv', ReachInv, JobInv, ListInv, [Next]_vars
  PROVE  ListInv'
<1> SUFFICES ASSUME NEW t \in Private PROVE ListSound(t)'
  BY DEF ListInv
<1>t. t \in Slot
  BY ConfigConstants
<1>n. cached[t] \in Ranks /\ cached'[t] \in Ranks /\ cached'[t] >= cached[t]
  BY <1>t, CacheKept DEF TypeInv, RowsTyped
<1>e. ~ RowCommitted(t) /\ edit[t].stage = "none"
  BY <1>t DEF RowCommitted, EditCommit, EditInv, EditSound
<1>m. \A e \in Event : made[t][e] \in Own => made'[t][e] = made[t][e]
  BY <1>t, OwnIsSigned, MadeMoves DEF MadeMove
<1>c. ASSUME job[t].stage = "commit", job[t].revision = list[t].revision
      PROVE  job[t].text = content[t]
  BY <1>c, <1>t DEF JobInv
<1>d. list[t].dirty => list'[t].dirty \/ Recommitted(t)
  BY <1>t, ListMoves DEF ListMove
<1>1. pending'[t].event # NoEvent => list'[t].event = pending'[t].event
  <2>1. CASE Recommitted(t)
    BY <2>1 DEF Recommitted
  <2>2. CASE ~ Recommitted(t)
    <3>1. list'[t].event = list[t].event
      BY <1>t, <2>2, ListMoves DEF ListMove
    <3>2. pending'[t].event \in {pending[t].event, NoEvent}
      BY <1>t, <1>e, <2>2, RowMoves DEF RowKept, RowQueued, RowRemoved, NoRow
    <3> QED
      BY <3>1, <3>2 DEF ListInv, ListSound
  <2> QED
    BY <2>1, <2>2
<1>2. \A e \in Event : ackedBy'[t][e] # {} => e <= cached'[t]
  <2> SUFFICES ASSUME NEW e \in Event, ackedBy'[t][e] # {} PROVE e <= cached[t]
    BY <1>n, ConfigConstants DEF Ranks, Event
  <2>1. CASE ackedBy'[t][e] = ackedBy[t][e]
    BY <2>1 DEF ListInv, ListSound
  <2>2. CASE ackedBy'[t][e] # ackedBy[t][e]
    <3>1. delivery[t].event = e
      BY <1>t, <1>e, <2>2, AcksMoves DEF AcksMove
    <3> QED
      BY <1>t, <3>1 DEF CacheInv
  <2> QED
    BY <2>1, <2>2
<1>3. ASSUME cached'[t] # NoEvent, made'[t][cached'[t]] \in Own
      PROVE  list'[t].dirty \/ Known(t, cached[t])'
  <2>0. cached'[t] \in Event
    BY <1>3, <1>n, Basics
  <2>1. CASE Recommitted(t)
    BY <2>1 DEF Recommitted, Known
  <2>2. CASE ~ Recommitted(t)
    <3>1. cached'[t] = cached[t]
      <4>1. CASE RowKept(t)
        <5>1. ~ (cached'[t] \in Event /\ cached'[t] > cached[t] /\ ackedBy[t][cached'[t]] # {})
          BY <1>n, ConfigConstants DEF ListInv, ListSound, Ranks
        <5> QED
          BY <1>3, <4>1, <5>1, OwnIsSigned DEF RowKept
      <4>2. CASE RowRemoved(t)
        BY <4>2 DEF RowRemoved
      <4> QED
        BY <1>t, <1>e, <2>2, <4>1, <4>2, RowMoves DEF RowQueued
    <3>2. CASE made[t][cached[t]] \in Own
      BY <1>3, <1>d, <2>0, <2>2, <3>1, <3>2, KnownStays DEF ListInv, ListSound, Known
    <3>3. CASE made[t][cached[t]] \notin Own
      <4>1. made'[t][cached[t]] # made[t][cached[t]] /\ made'[t][cached[t]] \notin Other
        BY <1>3, <3>1, <3>3, OwnIsSigned
      <4>2. job[t].stage = "commit" /\ list'[t] = list[t]
        BY <1>t, <2>0, <2>2, <3>1, <4>1, MadeMoves DEF MadeMove
      <4> QED
        BY <1>t, <4>2 DEF JobInv
    <3> QED
      BY <3>2, <3>3
  <2> QED
    BY <2>1, <2>2
<1>4. ASSUME content'[t] \in Own PROVE list'[t].dirty \/ Carried(t, content[t])'
  <2>1. CASE Recommitted(t)
    <3>1. made'[t][pending'[t].event] = content'[t] /\ pending'[t].event \in Event
      BY <1>c, <2>1 DEF Recommitted
    <3> QED
      BY <3>1 DEF Carried
  <2>2. CASE ~ Recommitted(t) /\ content'[t] = content[t]
    <3>1. CASE list[t].dirty
      BY <1>d, <2>2, <3>1
    <3>2. CASE Carried(t, content[t])
      <4>1. PICK e \in Event : made[t][e] = content[t] /\ Known(t, e)
        BY <3>2 DEF Carried, Known
      <4>2. made'[t][e] = content'[t]
        BY <1>4, <1>m, <2>2, <4>1
      <4>3. Known(t, e)' \/ list'[t].dirty
        BY <2>2, <4>1, KnownStays
      <4> QED
        BY <4>1, <4>2, <4>3 DEF Carried, Known
    <3> QED
      BY <1>4, <2>2, <3>1, <3>2 DEF ListInv, ListSound
  <2>3. CASE EditPrivateList(t)
    BY <1>t, <2>3 DEF EditPrivateList, TypeInv, RowsTyped, ListState
  <2>4. CASE /\ ReconcileCommit(t) /\ CanApply(t, reconcile[t])
             /\ content'[t] = made[t][reconcile[t]]
    <3>1. ~ list[t].dirty /\ pending[t].event = NoEvent /\ cached[t] <= reconcile[t]
      BY <2>4 DEF CanApply
    <3>2. reconcile[t] <= cached[t] /\ reconcile[t] \in Ranks /\ reconcile[t] # NoEvent
      BY <1>t, <2>4 DEF CacheInv, TypeInv, JobsTyped, ReconcileCommit
    <3>3. reconcile[t] = cached[t]
      BY <1>n, <3>1, <3>2, ConfigConstants DEF Ranks
    <3>4. cached[t] \in Event /\ cached[t] \in reached[t]
      BY <1>4, <2>4, <3>1, <3>2, <3>3, Basics DEF ListInv, ListSound, Known
    <3>5. made'[t][cached[t]] = content'[t] /\ cached[t] \in reached'[t]
      BY <1>4, <1>m, <1>t, <2>4, <3>3, <3>4, AcksMoves DEF AcksMove
    <3> QED
      BY <3>4, <3>5 DEF Carried
  <2> QED
    BY <1>t, <2>1, <2>2, <2>3, <2>4, ContentMoves DEF ContentMove
<1> QED
  BY <1>1, <1>2, <1>3, <1>4 DEF ListSound
-----------------------------------------------------------------------------
Inv == TypeInv /\ EditInv /\ CacheInv /\ ReceiptInv /\ ReachInv /\ JobInv /\ ListInv

LEMMA Invariant == Spec => []Inv
<1>1. Init => Inv
  BY TypeInit, EditInit, CacheInit, ReceiptInit, ReachInit, JobInit, ListInit DEF Inv
<1>2. Inv /\ [Next]_vars => Inv'
  BY TypeStep, EditKept, CacheKept, ReceiptKept, ReachKept, JobKept, ListKept DEF Inv
<1> QED
  BY <1>1, <1>2, PTL DEF Spec

-----------------------------------------------------------------------------
(* However late relays answer, a receipt in the outbox is never credited   *)
(* to an event that replaced the one it was given for (the exact row of a  *)
(* settlement).                                                            *)
THEOREM ReceiptsStay == Spec => []ReceiptsAreForTheEvent
<1>1. Inv => ReceiptsAreForTheEvent
  BY DEF Inv, ReceiptInv, ReceiptsAreForTheEvent
<1> QED
  BY <1>1, Invariant, PTL

(* A later waited edit of a session exceeds every earlier one that was     *)
(* handed to relays, confirmed or not (confirmedSignedAt).                 *)
THEOREM LaterWins == Spec => []LaterEditsWin
<1>1. Inv => LaterEditsWin
  BY DEF Inv, EditInv, EditSound, LaterEditsWin
<1> QED
  BY <1>1, Invariant, PTL

(* What the user wrote in a private list is dirty, in the outbox, or at a  *)
(* majority of the relays, through jobs, settlements, retirement, crashes  *)
(* and events of other devices.                                            *)
THEOREM NothingUnsynced == Spec => []UnsyncedIsDirty
<1>1. Inv => UnsyncedIsDirty
  BY DEF Inv, ListInv, ListSound, UnsyncedIsDirty
<1> QED
  BY <1>1, Invariant, PTL

(* No writer of the cache takes it back to an older event.                 *)
THEOREM CacheAdvances == Spec => CacheNeverRegresses
<1>1. Inv /\ Inv' /\ [Next]_vars => \A s \in Slot : cached'[s] >= cached[s]
  BY CacheKept DEF Inv
<1> QED
  BY <1>1, Invariant, PTL DEF Spec, CacheNeverRegresses

LEMMA RowLeft ==
  ASSUME Inv, Inv', [Next]_vars, NEW s \in Slot, pending[s].event # NoEvent,
         pending'[s].event # pending[s].event
  PROVE  \/ pending[s].event \in reached[s] \cup confirmed[s]
         \/ pending'[s].event > pending[s].event \/ cached'[s] > pending[s].event
         \/ s \in Private /\ list'[s].dirty
<1>1. CASE RowKept(s) \/ RowQueued(s)
  BY <1>1 DEF RowKept, RowQueued
<1>2. CASE RowCommitted(s)
  <2>1. edit[s].event \in confirmed[s] /\ edit[s].event \in Event /\ pending[s].event \in Ranks
    BY <1>2 DEF RowCommitted, EditCommit, Inv, EditInv, EditSound, TypeInv, Signed, RowsTyped, Row
  <2> QED
    BY <1>2, <2>1, ConfigConstants DEF RowCommitted, Event, Ranks
<1>3. CASE RowRemoved(s)
  BY <1>3 DEF RowRemoved, Inv, ReachInv, ListInv, ListSound
<1> QED
  BY <1>1, <1>2, <1>3, RowMoves DEF Inv

(* A row leaves the outbox only for a majority, for a newer event, or with *)
(* the list it was built from dirty again.                                 *)
THEOREM RowsLeaveDone == Spec => LeavesWhenDone
<1>1. Inv /\ Inv' /\ [Next]_vars =>
        \A s \in Slot :
          LET e == pending[s].event
          IN  e # NoEvent /\ pending'[s].event # e =>
                 \/ e \in reached[s] \cup confirmed[s]
                 \/ pending'[s].event > e \/ cached'[s] > e
                 \/ s \in Private /\ list'[s].dirty
  BY RowLeft
<1> QED
  BY <1>1, Invariant, PTL DEF Spec, LeavesWhenDone

(* A remote event replaces a local edit of a private list only if that     *)
(* edit is at a majority of the relays (canApplyConfigurationEvent).       *)
THEOREM RemoteYields == Spec => RemoteKeepsLocalEdits
<1> SUFFICES Inv /\ Inv' /\ [Next]_vars =>
        \A s \in Private :
          /\ content[s] \in Own
          /\ content'[s] \in Other
          => \E e \in Event : made[s][e] = content[s] /\ e \in reached[s]
  BY Invariant, PTL DEF Spec, RemoteKeepsLocalEdits
<1> SUFFICES ASSUME Inv, Inv', [Next]_vars, NEW s \in Private, content[s] \in Own, content'[s] \in Other
             PROVE  \E e \in Event : made[s][e] = content[s] /\ e \in reached[s]
  OBVIOUS
<1>1. s \in Slot /\ content'[s] # content[s] /\ content'[s] \notin Own
  BY ConfigConstants, OwnIsSigned
<1>2. ~ EditPrivateList(s)
  <2> SUFFICES ASSUME EditPrivateList(s) PROVE FALSE
    OBVIOUS
  <2>1. edits < MaxEdits /\ edits' = edits + 1 /\ content'[s] = <<"own", edits'>>
    BY <1>1 DEF EditPrivateList, Inv, TypeInv, RowsTyped
  <2>2. edits' \in 1..MaxEdits
    BY <2>1, ConfigConstants DEF Inv, TypeInv, OthersTyped
  <2> QED
    BY <1>1, <2>1, <2>2 DEF Own
<1>3. ~ list[s].dirty /\ pending[s].event = NoEvent
  BY <1>1, <1>2, ContentMoves DEF ContentMove, CanApply, Inv
<1>4. PICK e \in Event : made[s][e] = content[s] /\ Known(s, e)
  BY <1>3 DEF Inv, ListInv, ListSound, Carried, Known
<1> QED
  BY <1>3, <1>4, Basics DEF Known

(* A waited edit of a merged declaration is committed over the declaration *)
(* it was based on or over its own echo only (checkBase).                  *)
THEOREM MergedEditsKeep == Spec => MergedEditsKeepTheirBase
<1> SUFFICES Inv /\ Inv' /\ [Next]_vars =>
        \A s \in Slot :
          edit[s].stage = "commit" /\ s \in Merged /\ content'[s] # content[s]
          => cached[s] \in {edit[s].base, edit[s].event}
  BY Invariant, PTL DEF Spec, MergedEditsKeepTheirBase
<1> SUFFICES ASSUME Inv, Inv', [Next]_vars, NEW s \in Slot, edit[s].stage = "commit", s \in Merged,
                    content'[s] # content[s]
             PROVE  cached[s] \in {edit[s].base, edit[s].event}
  OBVIOUS
<1>1. s \notin Private /\ edit[s].wait
  BY DEF Inv, EditInv, EditSound
<1>2. EditCommit(s)
  BY <1>1, ContentMoves DEF ContentMove, EditPrivateList, CanApply, SignAndQueue, Inv
<1> QED
  BY <1>2 DEF EditCommit, BaseHolds
=============================================================================
