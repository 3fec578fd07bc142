----------------------------- MODULE HistorySync -----------------------------
(***************************************************************************)
(* History of one account: its cursors (dm/sync-store.ts), the pager       *)
(* (dm/gift-wrap-pager.ts) and the backfill of each relay (dm.service.ts). *)
(*                                                                         *)
(* Time is in ticks no shorter than the spread of wrap dates: a wrap       *)
(* reaches a relay at most Overlap ticks after its date.  Cursors live in  *)
(* a row and a cache of it, written together when a write completes;       *)
(* writes complete in the order they were issued.                          *)
(***************************************************************************)
EXTENDS Integers, Sequences, FiniteSets

CONSTANTS
  Relay,
  Wrap,
  PageSize,   \* events a relay returns at most
  Overlap,    \* FORWARD_OVERLAP_SECONDS
  MaxTime,    \* bound: the clock stops here
  MaxEvents   \* bound: sessions ended, crashes, failures, foreground entries

ASSUME HistoryConstants ==
  /\ IsFiniteSet(Relay) /\ Relay # {} /\ IsFiniteSet(Wrap)
  /\ PageSize \in Nat \ {0} /\ Overlap \in Nat
  /\ MaxTime \in Nat \ {0} /\ MaxEvents \in Nat

VARIABLES
  now,
  date,       \* created_at of each wrap, 0 until it is sent
  arrived,    \* when each relay got it, 0 if it has not
  missed,     \* wraps each left out of a read that timed out and counted as read
  taken,      \* wraps given to the intake: processed, or not decodable
  relays,     \* the DM relays of the account
  cursor,     \* relay -> forwardSince, backwardUntil, pendingForward
  writes,     \* cursor writes issued and not completed
  session,    \* is a receiving session running
  active,     \* is the app in the foreground
  requested,  \* what a relay that becomes ready starts
  ready,      \* relays whose live subscription has reached EOSE
  due,        \* passes requested: at once, or by the retry timer
  task,       \* relay -> its backfill pass
  seeded,     \* when a relay's cursor was inherited, 0 if it was not
  events

store == <<cursor, writes>>
network == <<now, date, arrived, missed>>
lifecycle == <<relays, session, active, requested, ready, events>>
vars == <<network, taken, store, lifecycle, due, task, seeded>>

Time == 0..MaxTime
None == -1                            \* null
Done == 0                             \* BACKFILL_DONE
Never(t) == t = None

NoScan == [through |-> 0, floor |-> 0, nextUntil |-> 0]
NoCursor == [exists |-> FALSE, forward |-> None, backward |-> None, scan |-> NoScan]
NoWrite == [kind |-> "none", value |-> 0]
Idle == [pc |-> "idle", skip |-> FALSE, through |-> 0, from |-> None, back |-> None,
         window |-> NoScan, deep |-> FALSE, floor |-> 0, until |-> 0, page |-> {},
         result |-> "none", recovered |-> FALSE, then |-> "none", issue |-> NoWrite]
Request == {"no", "full", "recent"}
Place == {"idle", "write", "query", "intake"}

TypeOK ==
  /\ now \in 1..MaxTime
  /\ date \in [Wrap -> Time] /\ arrived \in [Relay -> [Wrap -> Time]]
  /\ taken \subseteq Wrap /\ missed \in [Relay -> SUBSET Wrap]
  /\ relays \subseteq Relay /\ ready \subseteq relays
  /\ {session, active} \subseteq BOOLEAN /\ requested \in Request /\ due \in [Relay -> Request]
  /\ \A r \in Relay :
       /\ {cursor[r].forward, cursor[r].backward} \subseteq Time \union {None}
       /\ cursor[r].scan \in [through: Time, floor: Time, nextUntil: Time \union {None}]
       /\ task[r].pc \in Place /\ task[r].until \in Time \union {None}
       /\ task[r].pc # "idle" => session /\ r \in ready
       /\ task[r].pc = "write" <=>
            \E i \in 1..Len(writes) : writes[i].mine /\ writes[i].relay = r
  /\ seeded \in [Relay -> Time]
  /\ events \in 0..MaxEvents

On(r) == {w \in Wrap : arrived[r][w] # 0}
-----------------------------------------------------------------------------
(***************************************************************************)
(* The cursor store.                                                       *)
(***************************************************************************)
Least(S) == CHOOSE t \in S : \A u \in S : t <= u

(* Mutant: the coverage of the relay that is ahead. *)
CoverageOfOne ==
  IF \A r \in relays : ~Never(cursor[r].forward) /\ cursor[r].backward = Done
  THEN -Least({-cursor[r].forward : r \in relays}) ELSE None

(* peekSyncCursor: what every configured relay has covered, as far as the  *)
(* finality of group history asks: None unless all are read to the start.  *)
Coverage ==
  IF \A r \in relays : /\ ~Never(cursor[r].forward)
                       /\ cursor[r].backward = Done
  THEN Least({cursor[r].forward : r \in relays}) ELSE None

(* inheritLeastCoveredCursor: unknown coverage is least, then the shorter  *)
(* interval, then the older frontier; configured relays go first.          *)
Length(c) == IF Never(c.forward) \/ Never(c.backward) THEN None
             ELSE IF c.forward < c.backward THEN 0 ELSE c.forward - c.backward
LessCovered(c, d) ==
  \/ Length(c) < Length(d)
  \/ Length(c) = Length(d) /\ c.forward < d.forward

Inheritable ==
  LET known == {r \in Relay : cursor[r].exists}
      source == IF known \intersect relays # {} THEN known \intersect relays
                                                ELSE known
  IN  IF source = {} THEN {NoCursor}
      ELSE {cursor[r] : r \in {s \in source :
              \A o \in source : ~LessCovered(cursor[o], cursor[s])}}

(* upsertCursor and the insert of a seed, when they complete. *)
Written(c, write) ==
  CASE write.kind = "seed" -> IF c.exists THEN c ELSE [write.value EXCEPT !.exists = TRUE]
    [] write.kind = "scan" -> [c EXCEPT !.exists = TRUE, !.scan = write.value]
    [] write.kind = "forward" ->
         [c EXCEPT !.exists = TRUE, !.forward = write.value, !.scan = NoScan]
    [] write.kind = "backward" -> [c EXCEPT !.exists = TRUE, !.backward = write.value]

-----------------------------------------------------------------------------
(***************************************************************************)
(* A pass of one relay: what it does between two awaits, up to the write   *)
(* it then awaits, a query or its end.  After every await it checks the    *)
(* session; one whose session has ended does nothing more, but a write     *)
(* that was issued completes.                                              *)
(***************************************************************************)
Awaiting(t, kind, value, then) ==
  [t EXCEPT !.pc = "write", !.then = then, !.issue = [kind |-> kind, value |-> value]]

(* drainWindow: down to its floor; what is read to its end is covered.     *)
Drained(t) ==
  IF t.deep THEN Awaiting([t EXCEPT !.back = Done], "backward", Done, "ended")
            ELSE Awaiting(t, "forward", t.window.through, "committed")

Paged(t) == IF t.until < t.floor THEN Drained(t) ELSE [t EXCEPT !.pc = "query"]

(* The deep history goes on from its frontier, if it is not complete.      *)
Deepened(t) ==
  IF t.back = Done THEN [t EXCEPT !.pc = "ended"]
  ELSE Paged([Idle EXCEPT !.deep = TRUE, !.recovered = t.recovered, !.floor = Done,
                !.until = IF Never(t.back) THEN t.through ELSE t.back])

(* Mutant: the next window starts where the last one ended. *)
AdjacentWindow(t) ==
  LET window == [through |-> t.through, nextUntil |-> t.through,
                 floor |-> IF Never(t.from) THEN t.through ELSE t.from]
  IN  Awaiting([t EXCEPT !.window = window, !.from = None], "scan", window, "opened")

(* recoverForwardHistory: a window kept from an earlier pass, or a new one *)
(* whose bounds are stored before the first request.  The first of all is  *)
(* empty: what lies before it is left to the deep history.                 *)
NewWindow(t) ==
  LET floor == IF Never(t.from) THEN t.through
               ELSE IF t.from > Overlap THEN t.from - Overlap ELSE Done
      window == [through |-> t.through, floor |-> floor, nextUntil |-> t.through]
  IN  Awaiting([t EXCEPT !.window = window, !.from = None], "scan", window, "opened")

Opened(t) ==
  IF t.window.floor = t.window.through THEN Drained(t)
  ELSE Paged([t EXCEPT !.until = t.window.nextUntil, !.floor = t.window.floor])

(* An older window is followed by one up to the cutoff of this pass.       *)
Committed(t) ==
  IF t.window.through >= t.through THEN Deepened([t EXCEPT !.recovered = TRUE])
  ELSE NewWindow([t EXCEPT !.from = t.window.through])

(* backfillRelayHistory: a recent enough forward frontier is not read      *)
(* again on entry to the foreground.                                       *)
Planned(c, begun) ==
  LET t == [begun EXCEPT !.from = c.forward, !.back = c.backward, !.window = c.scan]
  IN  IF t.skip /\ c.forward = t.through /\ c.scan = NoScan
      THEN Deepened([t EXCEPT !.recovered = TRUE])
      ELSE IF c.scan = NoScan THEN NewWindow(t) ELSE Opened(t)

(* The write it awaited is done; c is the cursor now. *)
Resumed(c, t) ==
  CASE t.then = "planned"   -> Planned(c, t)
    [] t.then = "opened"    -> Opened(t)
    [] t.then = "paged"     -> Paged(t)
    [] t.then = "committed" -> Committed(t)
    [] t.then = "ended"    -> [t EXCEPT !.pc = "ended"]

(* The pass of r goes on as t, over the writes left by others.  One that   *)
(* ends without having read everything waits for the retry timer.          *)
Go(r, t, queued) ==
  LET ends == t.pc = "ended"
      complete == t.recovered /\ t.back = Done
  IN  /\ task' = [task EXCEPT ![r] = IF ends THEN Idle
                                     ELSE [t EXCEPT !.issue = NoWrite]]
      /\ writes' = IF t.issue = NoWrite THEN queued
                   ELSE Append(queued, [relay |-> r, kind |-> t.issue.kind,
                                        value |-> t.issue.value, mine |-> TRUE])
      /\ due' = [due EXCEPT ![r] = IF ends /\ ~complete THEN "full" ELSE "no"]

WriteDone ==
  /\ writes # <<>>
  /\ LET write == Head(writes)
         r == write.relay
         c == Written(cursor[r], write)
     IN /\ cursor' = [cursor EXCEPT ![r] = c]
        /\ IF write.mine THEN Go(r, Resumed(c, task[r]), Tail(writes))
           ELSE writes' = Tail(writes) /\ UNCHANGED <<task, due>>
        /\ seeded' = IF write.kind = "seed" /\ ~cursor[r].exists /\ write.value.exists
                     THEN [seeded EXCEPT ![r] = now] ELSE seeded
  /\ UNCHANGED <<network, taken, lifecycle>>

Event == events < MaxEvents /\ events' = events + 1
Unmoved == UNCHANGED <<network, lifecycle, cursor, seeded>>

(* startRelayHistoryBackfill, then getRelaySyncCursor: a seed on its way   *)
(* is shared.                                                              *)
StartPass(r) ==
  /\ active /\ session /\ r \in ready /\ task[r].pc = "idle" /\ due[r] # "no"
  /\ LET t == [Idle EXCEPT !.through = now, !.skip = due[r] = "recent"]
         seeds == {i \in 1..Len(writes) : writes[i].relay = r /\ writes[i].kind = "seed"}
     IN \/ cursor[r].exists /\ Go(r, Planned(cursor[r], t), writes)
        \/ /\ ~cursor[r].exists /\ seeds = {}
           /\ \E c \in Inheritable :
                Go(r, Awaiting(t, "seed", [c EXCEPT !.scan = NoScan], "planned"), writes)
        \/ /\ ~cursor[r].exists /\ seeds # {}
           /\ Go(r, [t EXCEPT !.pc = "write", !.then = "planned"],
                 [i \in 1..Len(writes) |->
                    IF i \in seeds THEN [writes[i] EXCEPT !.mine = TRUE] ELSE writes[i]])
  /\ Unmoved /\ UNCHANGED taken

(* A retry that rings in the background is dropped: entering the           *)
(* foreground asks for the pass again.                                     *)
DropRetry(r) ==
  /\ ~active /\ due[r] # "no" /\ due' = [due EXCEPT ![r] = "no"]
  /\ UNCHANGED <<network, taken, store, lifecycle, task, seeded>>

(* A relay answers in full with the newest wraps of the range, as many as  *)
(* fit and any of a tie; until then it may have sent any of them.          *)
InRange(r) == {w \in On(r) : date[w] >= task[r].floor /\ date[w] <= task[r].until}
Partial(r) == {page \in SUBSET InRange(r) : Cardinality(page) <= PageSize}
Pages(r) ==
  {page \in Partial(r) :
     /\ page = InRange(r) \/ Cardinality(page) = PageSize
     /\ \A w \in page, o \in InRange(r) \ page : date[w] >= date[o]}

(* Mutants: the oldest second is taken for read; or is read forever. *)
NextUntilBelow(page, until) == Least({date[w] : w \in page}) - 1
NextUntilOldest(page, until) == Least({date[w] : w \in page})

(* readGiftWrapPage: where the next page starts.  A second is read again   *)
(* before it is left.                                                      *)
NextUntil(page, until) ==
  LET oldest == Least({date[w] : w \in page})
  IN  IF oldest < until THEN oldest ELSE until - 1

(* It counts as complete.                                                  *)
Completed(t, page) ==
  [t EXCEPT !.pc = "intake", !.page = page,
            !.result = IF page = {} THEN "drained" ELSE "page",
            !.until = IF page = {} THEN @ ELSE NextUntil(page, @)]

(* EOSE of the relay. *)
QueryAnswers(r) ==
  /\ task[r].pc = "query"
  /\ \E page \in Pages(r) : Go(r, Completed(task[r], page), writes)
  /\ Unmoved /\ UNCHANGED taken

(* The deadline of the query is an EOSE too, whatever has come by then.    *)
QueryTimesOut(r) ==
  /\ task[r].pc = "query"
  /\ \E page \in Partial(r) :
       LET t == Completed(task[r], page)
           passed == IF page = {} THEN InRange(r) ELSE {w \in InRange(r) : date[w] > t.until}
       IN  /\ Go(r, t, writes)
           /\ missed' = [missed EXCEPT ![r] = @ \union (passed \ (page \union taken))]
  /\ UNCHANGED <<now, date, arrived, taken, lifecycle, cursor, seeded>>

(* The relay closes or fails, perhaps after some of the events. *)
QueryFails(r) ==
  /\ Event /\ task[r].pc = "query"
  /\ \E some \in Partial(r) :
       Go(r, [task[r] EXCEPT !.pc = "intake", !.page = some,
                             !.result = "interrupted"], writes)
  /\ UNCHANGED <<network, taken, cursor, relays, session, active, requested, ready, seeded>>

(* Newest first, one at a time. *)
Intake(r) ==
  /\ task[r].pc = "intake"
  /\ \E w \in task[r].page :
       /\ \A o \in task[r].page : date[o] <= date[w]
       /\ taken' = taken \union {w}
       /\ Go(r, [task[r] EXCEPT !.page = @ \ {w}], writes)
  /\ Unmoved

(* The page is done with: the checkpoint of the window, or the frontier of *)
(* the deep history, moves.  An interrupted window does not keep the deep  *)
(* history waiting.                                                        *)
Checkpointed(t) ==
  IF t.deep THEN Awaiting(t, "backward", t.until, "paged")
  ELSE Awaiting(t, "scan", [t.window EXCEPT !.nextUntil = t.until], "paged")

IntakeDone(r) ==
  LET t == task[r] IN
  /\ t.pc = "intake" /\ t.page = {}
  /\ \/ t.result = "page" /\ Go(r, Checkpointed(t), writes)
     \/ t.result = "drained" /\ Go(r, Drained(t), writes)
     \/ /\ t.result = "interrupted"
        /\ Go(r, IF t.deep THEN [t EXCEPT !.pc = "ended"] ELSE Deepened(t), writes)
  /\ Unmoved /\ UNCHANGED taken

Pass(r) ==
  \/ StartPass(r)
  \/ DropRetry(r)
  \/ QueryAnswers(r)
  \/ QueryTimesOut(r)
  \/ Intake(r)
  \/ IntakeDone(r)
-----------------------------------------------------------------------------
(***************************************************************************)
(* Around the passes.                                                      *)
(***************************************************************************)
Tick ==
  /\ now < MaxTime /\ now' = now + 1
  /\ UNCHANGED <<date, arrived, missed, taken, store, lifecycle, due, task, seeded>>

(* A relay of the account gets a wrap. *)
Arrive(r, w) ==
  /\ r \in relays /\ arrived[r][w] = 0
  /\ IF date[w] = 0
     THEN \E d \in 1..now : d >= now - Overlap /\ date' = [date EXCEPT ![w] = d]
     ELSE date[w] >= now - Overlap /\ UNCHANGED date
  /\ arrived' = [arrived EXCEPT ![r][w] = now]
  /\ UNCHANGED <<now, missed, taken, store, lifecycle, due, task, seeded>>

(* The live subscription, a recovery after a reconnection or a poll for    *)
(* notifications takes a wrap.  None of them touches a cursor, and each    *)
(* may lose it with the process, before or after it was taken.             *)
TakeOtherwise(r, w) ==
  /\ session /\ r \in relays /\ w \in On(r) \ taken
  /\ taken' = taken \union {w}
  /\ UNCHANGED <<network, store, lifecycle, due, task, seeded>>

(* The account is entered; history is requested unless in the background.  *)
StartSession ==
  /\ ~session /\ session' = TRUE
  /\ requested' \in IF active THEN {"no", "full"} ELSE {"no"}
  /\ UNCHANGED <<network, taken, store, relays, active, ready, due, task, seeded, events>>

RelayReady(r) ==
  /\ session /\ r \in relays \ ready
  /\ ready' = ready \union {r}
  /\ due' = [due EXCEPT ![r] = requested]
  /\ UNCHANGED <<network, taken, store, relays, session, active, requested, task, seeded, events>>

EnterBackground ==
  /\ active /\ active' = FALSE
  /\ UNCHANGED <<network, taken, store, relays, session, requested, ready, due, task,
                 seeded, events>>

(* The listener of a session starts its history on entry to the foreground. *)
EnterForeground ==
  /\ ~active /\ active' = TRUE /\ Event
  /\ IF session
     THEN /\ requested' \in {"full", "recent"}
          /\ due' = [r \in Relay |-> IF r \in ready /\ task[r].pc = "idle"
                                     THEN requested' ELSE due[r]]
     ELSE UNCHANGED <<requested, due>>
  /\ UNCHANGED <<network, taken, store, relays, session, ready, task, seeded>>

(* Mutant: the passes outlive their session. *)
SessionForgotten ==
  /\ session' = FALSE /\ requested' = "no" /\ ready' = {}
  /\ due' = [r \in Relay |-> "no"]
  /\ UNCHANGED <<network, taken, cursor, seeded, task>>

(* destroy(): everything in memory goes but the writes already issued, of  *)
(* which nobody waits for the result.                                      *)
SessionEnds ==
  /\ session' = FALSE /\ requested' = "no" /\ ready' = {}
  /\ due' = [r \in Relay |-> "no"]
  /\ task' = [r \in Relay |-> Idle]
  /\ UNCHANGED <<network, taken, cursor, seeded>>

Destroy ==
  /\ Event /\ SessionEnds /\ session /\ UNCHANGED active
  /\ relays' \in (SUBSET Relay) \ {{}}
  /\ writes' = [i \in 1..Len(writes) |-> [writes[i] EXCEPT !.mine = FALSE]]

(* The process dies. *)
Crash ==
  /\ Event /\ SessionEnds /\ active' = TRUE
  /\ writes' = <<>>
  /\ UNCHANGED relays

(* A statement is rejected: the pass fails and is tried again. *)
PassFails(r) ==
  /\ Event
  /\ \/ task[r].pc = "intake" /\ UNCHANGED writes
     \/ /\ task[r].pc = "write"
        /\ \E i \in 1..Len(writes) :
             /\ writes[i].mine /\ writes[i].relay = r
             /\ writes' = [j \in 1..(Len(writes) - 1) |->
                            writes[IF j < i THEN j ELSE j + 1]]
  /\ task' = [task EXCEPT ![r] = Idle]
  /\ due' = [due EXCEPT ![r] = "full"]
  /\ UNCHANGED <<network, taken, cursor, relays, session, active, requested, ready, seeded>>
-----------------------------------------------------------------------------
Init ==
  /\ now = 1
  /\ date = [w \in Wrap |-> 0] /\ arrived = [r \in Relay |-> [w \in Wrap |-> 0]]
  /\ missed = [r \in Relay |-> {}] /\ taken = {}
  /\ relays \in (SUBSET Relay) \ {{}}
  /\ cursor = [r \in Relay |-> NoCursor] /\ writes = <<>>
  /\ session = FALSE /\ active = TRUE /\ requested = "no" /\ ready = {}
  /\ due = [r \in Relay |-> "no"] /\ task = [r \in Relay |-> Idle]
  /\ seeded = [r \in Relay |-> 0] /\ events = 0

Next ==
  \/ Tick
  \/ WriteDone
  \/ StartSession
  \/ EnterBackground
  \/ EnterForeground
  \/ Destroy
  \/ Crash
  \/ \E r \in Relay :
       \/ Pass(r)
       \/ QueryFails(r)
       \/ RelayReady(r)
       \/ PassFails(r)
       \/ \E w \in Wrap : Arrive(r, w) \/ TakeOtherwise(r, w)

Spec == Init /\ [][Next]_vars

(* A write completes, a query ends (by EOSE or its timeout), a timer rings *)
(* and what was read is taken in.                                          *)
FairSpec == Spec /\ WF_vars(WriteDone) /\ \A r \in Relay : WF_vars(Pass(r))

-----------------------------------------------------------------------------
(* A relay returns at most PageSize events of one second; the documents    *)
(* leave the others to chance.                                             *)
Pageable(r, w) == Cardinality({o \in On(r) : date[o] = date[w]}) <= PageSize

(* What the cursor of a relay promises about a wrap it holds, the relay    *)
(* having had a cursor of its own when it got it.                          *)
Promised(r, w) ==
  /\ arrived[r][w] # 0 /\ arrived[r][w] >= seeded[r]
  /\ Pageable(r, w) /\ w \notin missed[r]

(* A wrap that no pass, page or session has taken is still ahead of one of *)
(* the frontiers: it came after the forward one was fixed, so that its     *)
(* date is within the overlap, or it is not beyond the backward one.       *)
(* Excepted, here and below, is what a relay left out of a read that timed *)
(* out and counted as read.                                                *)
NothingForgotten ==
  \A r \in Relay : \A w \in Wrap \ taken :
    Promised(r, w) /\ cursor[r].exists =>
      \/ Never(cursor[r].forward) \/ arrived[r][w] >= cursor[r].forward
      \/ Never(cursor[r].backward) \/ date[w] <= cursor[r].backward

(* A stored checkpoint is behind nothing unread of its window, whoever     *)
(* wrote it and however often the window was resumed.                      *)
CheckpointIsRead ==
  \A r \in Relay : \A w \in Wrap \ taken :
    LET scan == cursor[r].scan IN
    Promised(r, w) /\ scan # NoScan =>
      \/ arrived[r][w] >= scan.through
      \/ date[w] < scan.floor \/ date[w] <= scan.nextUntil
      \/ scan.floor = scan.through

(* What the finality of group actions is measured against has been read    *)
(* from every relay of the account.                                        *)
CoverageIsRead ==
  ~Never(Coverage) =>
    \A r \in relays : \A w \in Wrap \ taken :
      Promised(r, w) => arrived[r][w] >= Coverage

(* While a session lasts in the foreground, a relay whose history was      *)
(* asked for is read to its start: no page is asked for again and again,   *)
(* and no interruption, failed statement, time in the background or pass   *)
(* of an earlier session is the end of it.                                 *)
HistoryCompletes ==
  \A r \in Relay :
    <>[](session /\ active /\ r \in ready /\ requested # "no")
      => <>[](cursor[r].backward = Done /\ ~Never(cursor[r].forward))
=============================================================================
