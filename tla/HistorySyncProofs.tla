-------------------------- MODULE HistorySyncProofs --------------------------
(***************************************************************************)
(* What the cursors of a relay promise of its history (HistorySync), for   *)
(* any relays, wraps, page size, overlap and faults: all of it but what a  *)
(* read that timed out, and counted as read, left out.                     *)
(***************************************************************************)
EXTENDS HistorySync, TLAPS, FiniteSetTheorems, WellFoundedInduction

Stamp == Nat \cup {None}
Window == [through : Nat, floor : Nat, nextUntil : Nat]
Cursor == [exists : BOOLEAN, forward : Stamp, backward : Stamp, scan : Window]
Issue == [kind : {"seed"}, value : Cursor] \cup [kind : {"scan"}, value : Window]
           \cup [kind : {"forward", "backward"}, value : Nat]
Write == [relay : Relay, kind : {"seed"}, value : Cursor, mine : BOOLEAN]
           \cup [relay : Relay, kind : {"scan"}, value : Window, mine : BOOLEAN]
           \cup [relay : Relay, kind : {"forward", "backward"}, value : Nat, mine : BOOLEAN]
PassState == [pc : Place \cup {"ended"}, skip : BOOLEAN, through : Nat, from : Stamp,
          back : Stamp, window : Window, deep : BOOLEAN, floor : Nat, until : Nat,
          page : SUBSET Wrap, result : {"none", "page", "drained", "interrupted"},
          recovered : BOOLEAN,
          then : {"none", "planned", "opened", "paged", "committed", "ended"},
          issue : Issue \cup {NoWrite}]

TypeInv ==
  /\ now \in Nat /\ 1 <= now /\ now <= MaxTime
  /\ date \in [Wrap -> Nat] /\ arrived \in [Relay -> [Wrap -> Nat]]
  /\ taken \subseteq Wrap /\ missed \in [Relay -> SUBSET Wrap]
  /\ relays \subseteq Relay /\ relays # {} /\ ready \subseteq relays
  /\ session \in BOOLEAN /\ active \in BOOLEAN
  /\ requested \in Request /\ due \in [Relay -> Request]
  /\ cursor \in [Relay -> Cursor] /\ writes \in Seq(Write)
  /\ task \in [Relay -> PassState]
  /\ seeded \in [Relay -> Nat]
  /\ events \in 0..MaxEvents

ClockInv ==
  /\ \A r \in Relay : seeded[r] <= now
  /\ \A w \in Wrap : date[w] <= now
  /\ \A r \in Relay, w \in Wrap : arrived[r][w] # 0 =>
       /\ 1 <= date[w] /\ date[w] <= arrived[r][w]
       /\ arrived[r][w] <= now /\ arrived[r][w] <= date[w] + Overlap

(* The write a pass awaits, and who awaits it. *)
Matches(t, write) ==
  \/ t.then = "planned" /\ write.kind = "seed" /\ ~ t.deep
  \/ t.then = "opened" /\ write.kind = "scan" /\ ~ t.deep
  \/ t.then = "paged" /\ write.kind = (IF t.deep THEN "backward" ELSE "scan")
  \/ t.then = "committed" /\ write.kind = "forward" /\ write.value = t.window.through /\ ~ t.deep
  \/ t.then = "ended" /\ write.kind = "backward" /\ t.deep

(* Single: of one relay, one seed and one write that a pass awaits.       *)
Single(ws, r) ==
  \A i, j \in 1..Len(ws) :
    /\ ws[i].relay = r /\ ws[j].relay = r
    /\ \/ ws[i].mine /\ ws[j].mine
       \/ ws[i].kind = "seed" /\ ws[j].kind = "seed"
    => i = j

Claimed(ws, r, t) ==
  /\ \A i \in 1..Len(ws) :
       ws[i].relay = r /\ ws[i].mine => t.pc = "write" /\ Matches(t, ws[i])
  /\ t.pc = "write" => \E i \in 1..Len(ws) : ws[i].relay = r /\ ws[i].mine

LinkInv ==
  \A r \in Relay :
    /\ Single(writes, r) /\ Claimed(writes, r, task[r])
    /\ task[r].pc \in Place /\ task[r].issue = NoWrite
    /\ task[r].pc # "idle" => session /\ r \in ready
    /\ task[r].pc = "idle" => task[r] = Idle

-----------------------------------------------------------------------------
PendingOf(ws, r) == {[kind |-> ws[i].kind, value |-> ws[i].value] :
                       i \in {j \in 1..Len(ws) : ws[j].relay = r}}
Issued(Q, kind) == {p.value : p \in {q \in Q : q.kind = kind}}

Forwards(c, Q) == {c.forward} \cup Issued(Q, "forward")
Backwards(c, Q, t) == {c.backward, t.back} \cup Issued(Q, "backward")
Windows(c, Q, t) == {c.scan, t.window} \cup Issued(Q, "scan")

World(r) == [left |-> {w \in Wrap \ taken : Promised(r, w)},
             arrived |-> arrived[r], date |-> date, now |-> now]

Ahead(w, F, W, x) ==
  /\ \A f \in F : x.arrived[w] >= f
  /\ \A win \in W : \/ x.arrived[w] >= win.through
                    \/ x.date[w] >= win.floor /\ win.floor # win.through

Kept(fwd, F, B, W, x) ==
  /\ \A w \in x.left : \A b \in B : Never(b) \/ x.date[w] <= b \/ Ahead(w, F, W, x)
  /\ \A w \in x.left : \A win \in W :
       \/ x.arrived[w] >= win.through \/ win.floor = win.through
       \/ x.date[w] < win.floor \/ x.date[w] <= win.nextUntil
  /\ Never(fwd) => \A b \in B : Never(b)
  /\ \A win \in W : win.floor = win.through \/ ~ Never(fwd)
  /\ \A f \in F : f <= x.now
  /\ \A b \in B : b <= x.now
  /\ \A win \in W : win.through <= x.now /\ win.floor <= x.now /\ win.nextUntil <= x.now

Covered(t, w, F, W, x) ==
  IF t.deep THEN Ahead(w, F, W, x)
  ELSE x.arrived[w] >= t.window.through \/ x.date[w] < t.window.floor

Reading(t, F, W, x) ==
  /\ t.floor = IF t.deep THEN 0 ELSE t.window.floor
  /\ t.deep \/ t.window.floor # t.window.through
  /\ \A w \in x.left :
       \/ Covered(t, w, F, W, x)
       \/ x.date[w] <= t.until /\ ~ (t.pc = "intake" /\ t.result = "drained")
       \/ t.pc = "intake" /\ w \in t.page

Within(t, F, W, x) ==
  /\ t.through <= x.now
  /\ \A f \in F : f <= t.through
  /\ \A win \in W : win.through <= t.through

Passing(t, fwd, F, W, x) ==
  /\ t.until <= x.now
  /\ IF t.deep THEN /\ ~ Never(fwd) /\ t.window = NoScan
                    /\ t.pc = "write" => t.then \in {"paged", "ended"}
               ELSE Within(t, F, W, x)
  /\ t.pc \in {"query", "intake"} => Reading(t, F, W, x)
  /\ t.pc = "write" /\ t.then = "paged" => Reading(t, F, W, x)
  /\ t.pc = "intake" => t.result \in {"page", "drained", "interrupted"}
  /\ t.pc = "write" /\ t.then = "paged" => t.page = {}

Heritage(v, t, x) ==
  /\ v.scan = NoScan
  /\ (Never(v.forward) \/ ~ v.exists) => Never(v.backward)
  /\ v.forward <= x.now /\ v.backward <= x.now
  /\ t.pc # "idle" => v.forward <= t.through

Fresh(c, Q, t, x) ==
  /\ c = NoCursor
  /\ \A p \in Q : p.kind = "seed" /\ Heritage(p.value, t, x)
  /\ t.pc # "idle" => /\ t.pc = "write" /\ t.then = "planned" /\ ~ t.deep
                      /\ t.through <= x.now
  /\ t.window = NoScan /\ t.back = None /\ t.until <= x.now

Sound(c, Q, t, x) ==
  IF c.exists
  THEN /\ Issued(Q, "seed") = {}
       /\ Kept(c.forward, Forwards(c, Q), Backwards(c, Q, t), Windows(c, Q, t), x)
       /\ t.pc # "idle" => Passing(t, c.forward, Forwards(c, Q), Windows(c, Q, t), x)
       /\ t.then # "planned" \/ t.pc # "write"
  ELSE Fresh(c, Q, t, x)

SoundInv == \A r \in Relay : Sound(cursor[r], PendingOf(writes, r), task[r], World(r))

IInv == TypeInv /\ ClockInv /\ LinkInv /\ SoundInv
-----------------------------------------------------------------------------
(* A world and what is known of a relay's cursor. *)
WorldOK(x) ==
  /\ x.now \in Nat
  /\ \A w \in x.left :
       /\ x.date[w] \in Nat /\ x.arrived[w] \in Nat
       /\ 1 <= x.date[w] /\ x.date[w] <= x.arrived[w]
       /\ x.arrived[w] <= x.now /\ x.arrived[w] <= x.date[w] + Overlap

Setting(fwd, F, B, W, x) ==
  /\ fwd \in F /\ F \subseteq Stamp /\ B \subseteq Stamp /\ W \subseteq Window
  /\ WorldOK(x)

Adds(t, kind) == IF t.issue.kind = kind THEN {t.issue.value} ELSE {}

Outcome(fwd, F, B, W, t, x) ==
  LET F2 == F \cup Adds(t, "forward")
      B2 == B \cup {t.back} \cup Adds(t, "backward")
      W2 == W \cup {t.window} \cup Adds(t, "scan")
  IN  /\ t \in PassState /\ t.pc \in {"write", "query", "ended"}
      /\ IF t.pc = "write" THEN /\ t.issue \in Issue /\ Matches(t, t.issue)
                                /\ t.then # "planned"
                           ELSE t.issue = NoWrite
      /\ Kept(fwd, F2, B2, W2, x)
      /\ t.pc # "ended" => Passing(t, fwd, F2, W2, x)

LEMMA KeptShrinks ==
  ASSUME NEW fwd, NEW F, NEW B, NEW W, NEW x, Setting(fwd, F, B, W, x),
         Kept(fwd, F, B, W, x),
         NEW fwd2, fwd2 \in F, Never(fwd2) => Never(fwd),
         NEW F2, F2 \subseteq F, NEW B2, B2 \subseteq B \cup {None},
         NEW W2, W2 \subseteq W \cup {NoScan}
  PROVE  Kept(fwd2, F2, B2, W2, x)
<1>1. NoScan.through = 0 /\ NoScan.floor = 0 /\ NoScan.nextUntil = 0
  BY DEF NoScan
<1>2. \A w \in x.left : Ahead(w, F, W, x) => Ahead(w, F2, W2, x)
  BY <1>1 DEF Ahead, Setting, WorldOK
<1> QED
  BY <1>1, <1>2 DEF Kept, Setting, WorldOK, Never, None

LEMMA KeptForward ==
  ASSUME NEW fwd, NEW F, NEW B, NEW W, NEW x, Setting(fwd, F, B, W, x),
         Kept(fwd, F, B, W, x), NEW win \in W,
         \A w \in x.left : \/ x.arrived[w] >= win.through \/ win.floor = win.through
                           \/ x.date[w] < win.floor
  PROVE  Kept(fwd, F \cup {win.through}, B, W, x)
<1>1. \A w \in x.left : Ahead(w, F, W, x) => Ahead(w, F \cup {win.through}, W, x)
  BY DEF Ahead, Setting, WorldOK, Window
<1> QED
  BY <1>1 DEF Kept

LEMMA KeptWindow ==
  ASSUME NEW fwd, NEW F, NEW B, NEW W, NEW x, Setting(fwd, F, B, W, x),
         Kept(fwd, F, B, W, x), NEW win \in Window,
         win.through <= x.now, win.nextUntil = win.through, fwd <= win.through,
         win.floor = IF Never(fwd) THEN win.through
                     ELSE IF fwd > Overlap THEN fwd - Overlap ELSE Done
  PROVE  Kept(fwd, F, B, W \cup {win}, x)
<1> USE HistoryConstants
<1>0. fwd \in Stamp
  BY DEF Setting
<1>1. ASSUME NEW w \in x.left, Ahead(w, F, W, x), ~ Never(fwd)
      PROVE  Ahead(w, F, W \cup {win}, x)
  <2>1. x.arrived[w] >= fwd
    BY <1>1 DEF Ahead, Setting
  <2>2. x.arrived[w] >= win.through \/ (x.date[w] >= win.floor /\ win.floor # win.through)
    BY <1>0, <1>1, <2>1 DEF Setting, WorldOK, Window, Stamp, Never, None, Done
  <2> QED
    BY <1>1, <2>2 DEF Ahead
<1>2. win.floor <= x.now
  BY <1>0 DEF Setting, WorldOK, Window, Stamp, Never, None, Done
<1>3. \A w \in x.left : x.arrived[w] >= win.through \/ x.date[w] <= win.nextUntil
  BY DEF Setting, WorldOK, Window
<1> QED
  BY <1>1, <1>2, <1>3 DEF Kept

LEMMA KeptCheckpoint ==
  ASSUME NEW fwd, NEW F, NEW B, NEW W, NEW x, Setting(fwd, F, B, W, x),
         Kept(fwd, F, B, W, x), NEW win \in W, NEW until \in Nat, until <= x.now,
         \A w \in x.left : \/ x.arrived[w] >= win.through \/ x.date[w] < win.floor
                           \/ x.date[w] <= until
  PROVE  Kept(fwd, F, B, W \cup {[win EXCEPT !.nextUntil = until]}, x)
<1> DEFINE next == [win EXCEPT !.nextUntil = until]
<1>1. next \in Window /\ next.through = win.through /\ next.floor = win.floor
      /\ next.nextUntil = until
  BY DEF Window, Setting
<1> HIDE DEF next
<1>2. \A w \in x.left : Ahead(w, F, W, x) => Ahead(w, F, W \cup {next}, x)
  BY <1>1 DEF Ahead
<1> QED
  BY <1>1, <1>2 DEF Kept, next

LEMMA KeptFrontier ==
  ASSUME NEW fwd, NEW F, NEW B, NEW W, NEW x, Setting(fwd, F, B, W, x),
         Kept(fwd, F, B, W, x), NEW b \in Nat, b <= x.now, ~ Never(fwd),
         \A w \in x.left : Ahead(w, F, W, x) \/ x.date[w] <= b
  PROVE  Kept(fwd, F, B \cup {b}, W, x)
BY DEF Kept

-----------------------------------------------------------------------------
(* A pass over the windows, with a session in which its relay has a cursor. *)
Going(fwd, F, B, W, t, x) ==
  /\ Setting(fwd, F, B, W, x)
  /\ t \in PassState /\ t.issue = NoWrite /\ ~ t.deep /\ t.until <= x.now
  /\ Kept(fwd, F, B \cup {t.back}, W \cup {t.window}, x)
  /\ Within(t, F, W \cup {t.window}, x)

LEMMA Awaited ==
  ASSUME NEW t \in PassState, NEW kind, NEW value,
         \/ kind = "seed" /\ value \in Cursor
         \/ kind = "scan" /\ value \in Window
         \/ kind \in {"forward", "backward"} /\ value \in Nat,
         NEW then \in {"none", "planned", "opened", "paged", "committed", "ended"}
  PROVE  LET u == Awaiting(t, kind, value, then) IN
         /\ u \in PassState /\ u.pc = "write" /\ u.then = then
         /\ u.issue \in Issue /\ u.issue.kind = kind /\ u.issue.value = value
         /\ u.window = t.window /\ u.back = t.back /\ u.deep = t.deep
         /\ u.through = t.through /\ u.floor = t.floor /\ u.until = t.until
         /\ u.page = t.page
<1> DEFINE issue == [kind |-> kind, value |-> value]
<1>1. issue \in Issue /\ issue.kind = kind /\ issue.value = value
  BY DEF Issue
<1> HIDE DEF issue
<1>2. Awaiting(t, kind, value, then) = [t EXCEPT !.pc = "write", !.then = then, !.issue = issue]
  BY DEF Awaiting, issue
<1>3. [t EXCEPT !.pc = "write", !.then = then, !.issue = issue] \in PassState
  BY <1>1 DEF PassState, Place
<1> QED
  BY <1>1, <1>2, <1>3 DEF PassState

LEMMA IdleTyped ==
  /\ Idle \in PassState /\ NoScan \in Window /\ Idle.pc = "idle" /\ Idle.issue = NoWrite
  /\ Idle.window = NoScan /\ Idle.back = None /\ Idle.deep = FALSE /\ Idle.then = "none"
  /\ Idle.until = 0
  /\ NoWrite.kind = "none" /\ NoScan.floor = 0 /\ NoScan.through = 0 /\ NoScan.nextUntil = 0
BY DEF PassState, Idle, Place, NoWrite, NoScan, Window, Stamp

LEMMA DrainedGoes ==
  ASSUME NEW fwd, NEW F, NEW B, NEW W, NEW x, NEW t, Going(fwd, F, B, W, t, x),
         LET win == t.window IN
         \A w \in x.left : \/ x.arrived[w] >= win.through \/ win.floor = win.through
                           \/ x.date[w] < win.floor
  PROVE  Outcome(fwd, F, B, W, Drained(t), x)
<1> DEFINE u == Drained(t)
<1>0. t \in PassState /\ t.window \in Window /\ t.window.through \in Nat
  BY DEF Going, PassState, Window
<1>1. /\ u \in PassState /\ u.pc = "write" /\ u.then = "committed" /\ u.window = t.window
      /\ u.issue \in Issue /\ u.issue.kind = "forward" /\ u.issue.value = t.window.through
      /\ u.back = t.back /\ u.deep = FALSE /\ u.through = t.through /\ u.until = t.until
  BY <1>0, Awaited DEF Drained, Going
<1> HIDE DEF u
<1>3. Kept(fwd, F \cup {t.window.through}, B \cup {u.back}, W \cup {u.window}, x)
  <2>1. Setting(fwd, F, B \cup {t.back}, W \cup {t.window}, x)
    BY <1>0 DEF Going, Setting, PassState
  <2> QED
    BY <1>1, <2>1, KeptForward DEF Going
<1>4. Adds(u, "forward") = {t.window.through} /\ Adds(u, "backward") = {} /\ Adds(u, "scan") = {}
  BY <1>1 DEF Adds
<1>5. Passing(u, fwd, F \cup {t.window.through}, W \cup {t.window}, x)
  BY <1>1 DEF Passing, Within, Going
<1>6. Matches(u, u.issue)
  BY <1>1 DEF Matches
<1> QED
  BY <1>1, <1>3, <1>4, <1>5, <1>6 DEF Outcome, u

LEMMA PagedGoes ==
  ASSUME NEW fwd, NEW F, NEW B, NEW W, NEW x, NEW t, Going(fwd, F, B, W, t, x),
         LET win == t.window IN
           /\ t.floor = win.floor /\ win.floor # win.through
           /\ \A w \in x.left : \/ x.arrived[w] >= win.through \/ x.date[w] < win.floor
                                \/ x.date[w] <= t.until
  PROVE  Outcome(fwd, F, B, W, Paged(t), x)
<1>0. t \in PassState /\ t.window \in Window /\ t.until \in Nat /\ t.floor \in Nat
  BY DEF Going, PassState
<1>1. CASE t.until < t.floor
  <2>1. \A w \in x.left : \/ x.arrived[w] >= t.window.through
                          \/ x.date[w] < t.window.floor
    BY <1>0, <1>1 DEF Going, Setting, WorldOK, Window
  <2> QED
    BY <1>1, <2>1, DrainedGoes DEF Paged
<1>2. CASE ~ t.until < t.floor
  <2> DEFINE u == [t EXCEPT !.pc = "query"]
  <2>1. /\ u \in PassState /\ u.pc = "query" /\ u.issue = NoWrite /\ u.window = t.window
        /\ u.back = t.back /\ u.deep = FALSE /\ u.through = t.through
        /\ u.floor = t.floor /\ u.until = t.until /\ Paged(t) = u
    BY <1>0, <1>2 DEF Paged, Going, PassState, Place
  <2> HIDE DEF u
  <2>2. Adds(u, "forward") = {} /\ Adds(u, "backward") = {} /\ Adds(u, "scan") = {}
    BY <2>1 DEF Adds, NoWrite
  <2>3. Reading(u, F, W \cup {t.window}, x)
    BY <2>1 DEF Reading, Covered
  <2>4. Passing(u, fwd, F, W \cup {t.window}, x)
    BY <2>1, <2>3 DEF Passing, Within, Going
  <2> QED
    BY <2>1, <2>2, <2>4 DEF Outcome, Going
<1> QED
  BY <1>1, <1>2

(* The deep history: what is not ahead is not beyond where it is read to. *)
DeepGoing(fwd, F, B, W, t, x) ==
  /\ Setting(fwd, F, B, W, x)
  /\ t \in PassState /\ t.issue = NoWrite /\ t.deep /\ t.window = NoScan /\ t.floor = 0
  /\ t.until <= x.now /\ ~ Never(fwd)
  /\ Kept(fwd, F, B \cup {t.back}, W \cup {t.window}, x)

LEMMA DeepPagedGoes ==
  ASSUME NEW fwd, NEW F, NEW B, NEW W, NEW x, NEW t, DeepGoing(fwd, F, B, W, t, x),
         \A w \in x.left : Ahead(w, F, W \cup {t.window}, x) \/ x.date[w] <= t.until
  PROVE  Outcome(fwd, F, B, W, Paged(t), x)
<1> DEFINE u == [t EXCEPT !.pc = "query"]
<1>1. /\ u \in PassState /\ u.pc = "query" /\ u.issue = NoWrite /\ u.window = t.window
      /\ u.back = t.back /\ u.deep = TRUE /\ u.floor = 0 /\ u.until = t.until /\ Paged(t) = u
  BY DEF Paged, DeepGoing, PassState, Place
<1> HIDE DEF u
<1>2. Adds(u, "forward") = {} /\ Adds(u, "backward") = {} /\ Adds(u, "scan") = {}
  BY <1>1 DEF Adds, NoWrite
<1>3. Reading(u, F, W \cup {t.window}, x)
  BY <1>1 DEF Reading, Covered
<1>4. Passing(u, fwd, F, W \cup {t.window}, x)
  BY <1>1, <1>3 DEF Passing, DeepGoing
<1> QED
  BY <1>1, <1>2, <1>4 DEF Outcome, DeepGoing

LEMMA DeepDrainedGoes ==
  ASSUME NEW fwd, NEW F, NEW B, NEW W, NEW x, NEW t, DeepGoing(fwd, F, B, W, t, x),
         \A w \in x.left : Ahead(w, F, W \cup {t.window}, x)
  PROVE  Outcome(fwd, F, B, W, Drained(t), x)
<1> DEFINE u == Drained(t)
<1>1. /\ u \in PassState /\ u.pc = "write" /\ u.then = "ended" /\ u.window = t.window
      /\ u.issue \in Issue /\ u.issue.kind = "backward" /\ u.issue.value = 0
      /\ u.back = 0 /\ u.deep = TRUE /\ u.until = t.until
  <2> DEFINE v == [t EXCEPT !.back = Done]
  <2>1. v \in PassState /\ v.back = 0 /\ v.deep = TRUE /\ v.window = t.window
        /\ v.until = t.until
    BY DEF PassState, DeepGoing, Stamp, Done
  <2>2. u = Awaiting(v, "backward", Done, "ended")
    BY DEF Drained, DeepGoing
  <2> HIDE DEF v, u
  <2> QED
    BY <2>1, <2>2, Awaited DEF Done
<1> HIDE DEF u
<1>3. Setting(fwd, F, B \cup {t.back}, W \cup {t.window}, x)
  BY DEF DeepGoing, Setting, PassState
<1>4. Kept(fwd, F, B \cup {t.back} \cup {0}, W \cup {t.window}, x)
  <2>1. 0 \in Nat /\ 0 <= x.now
    BY DEF DeepGoing, Setting, WorldOK
  <2>2. \A w \in x.left : Ahead(w, F, W \cup {t.window}, x) \/ x.date[w] <= 0
    OBVIOUS
  <2>3. Kept(fwd, F, B \cup {t.back}, W \cup {t.window}, x) /\ ~ Never(fwd)
    BY DEF DeepGoing
  <2> QED
    BY <1>3, <2>1, <2>2, <2>3, KeptFrontier
<1>5. Setting(fwd, F, B \cup {t.back} \cup {0}, W \cup {t.window}, x)
  BY <1>3 DEF Setting, Stamp
<1>6. Kept(fwd, F, B \cup {0}, W \cup {t.window}, x)
  BY <1>4, <1>5, KeptShrinks DEF Setting
<1>7. Adds(u, "forward") = {} /\ Adds(u, "backward") = {0} /\ Adds(u, "scan") = {}
  BY <1>1 DEF Adds
<1>8. Passing(u, fwd, F, W \cup {t.window}, x) /\ Matches(u, u.issue)
  BY <1>1 DEF Passing, Matches, DeepGoing
<1> QED
  BY <1>1, <1>6, <1>7, <1>8 DEF Outcome, u

LEMMA DeepenedGoes ==
  ASSUME NEW fwd, NEW F, NEW B, NEW W, NEW x, NEW t, Going(fwd, F, B, W, t, x),
         ~ Never(fwd)
  PROVE  Outcome(fwd, F, B, W, Deepened(t), x)
<1>0. t \in PassState /\ t.back \in Stamp /\ t.through \in Nat /\ t.recovered \in BOOLEAN
      /\ t.window \in Window
  BY DEF Going, PassState
<1>1. CASE t.back = Done
  <2> DEFINE u == [t EXCEPT !.pc = "ended"]
  <2>1. /\ u \in PassState /\ u.pc = "ended" /\ u.issue = NoWrite /\ u.window = t.window
        /\ u.back = t.back /\ Deepened(t) = u
    BY <1>0, <1>1 DEF Deepened, Going, PassState
  <2> HIDE DEF u
  <2>2. Adds(u, "forward") = {} /\ Adds(u, "backward") = {} /\ Adds(u, "scan") = {}
    BY <2>1 DEF Adds, NoWrite
  <2> QED
    BY <2>1, <2>2 DEF Outcome, Going
<1>2. CASE t.back # Done
  <2> DEFINE v == [Idle EXCEPT !.deep = TRUE, !.recovered = t.recovered, !.floor = Done,
                     !.until = IF Never(t.back) THEN t.through ELSE t.back]
  <2>1. /\ v \in PassState /\ v.issue = NoWrite /\ v.deep /\ v.window = NoScan /\ v.floor = 0
        /\ v.back = None /\ v.until = IF Never(t.back) THEN t.through ELSE t.back
    <3>1. (IF Never(t.back) THEN t.through ELSE t.back) \in Nat
      BY <1>0 DEF Stamp, Never
    <3> QED
      BY <1>0, <3>1, IdleTyped DEF PassState, Done
  <2>2. Deepened(t) = Paged(v)
    BY <1>2 DEF Deepened
  <2> HIDE DEF v
  <2>3. Kept(fwd, F, B \cup {v.back}, W \cup {v.window}, x)
    <3>1. Setting(fwd, F, B \cup {t.back}, W \cup {t.window}, x)
      BY <1>0 DEF Going, Setting
    <3> QED
      BY <2>1, <3>1, KeptShrinks DEF Going, Setting
  <2>4. v.until <= x.now
    BY <1>0, <2>1 DEF Going, Within, Kept
  <2>5. DeepGoing(fwd, F, B, W, v, x)
    BY <2>1, <2>3, <2>4 DEF DeepGoing, Going
  <2>6. ASSUME NEW w \in x.left
        PROVE  Ahead(w, F, W \cup {v.window}, x) \/ x.date[w] <= v.until
    <3>1. Ahead(w, F, W \cup {t.window}, x) => Ahead(w, F, W \cup {v.window}, x)
      BY <2>1 DEF Ahead, NoScan, Going, Setting, WorldOK
    <3>2. CASE Never(t.back)
      <4>1. CASE x.date[w] <= t.through
        BY <2>1, <3>2, <4>1
      <4>2. CASE ~ x.date[w] <= t.through
        <5>1. x.arrived[w] > t.through /\ x.arrived[w] \in Nat
          BY <1>0, <4>2 DEF Going, Setting, WorldOK
        <5>2. \A f \in F : x.arrived[w] >= f
          BY <1>0, <5>1 DEF Going, Setting, Within, Stamp, None
        <5>3. \A win \in W \cup {t.window} : x.arrived[w] >= win.through
          BY <1>0, <5>1 DEF Going, Setting, Within, Window
        <5> QED
          BY <3>1, <5>2, <5>3 DEF Ahead
      <4> QED
        BY <4>1, <4>2
    <3>3. CASE ~ Never(t.back)
      BY <2>1, <3>1, <3>3 DEF Going, Kept
    <3> QED
      BY <3>2, <3>3
  <2> QED
    BY <2>2, <2>5, <2>6, DeepPagedGoes
<1> QED
  BY <1>1, <1>2

LEMMA NewWindowGoes ==
  ASSUME NEW fwd, NEW F, NEW B, NEW W, NEW x, NEW t, Going(fwd, F, B, W, t, x),
         t.from = fwd
  PROVE  Outcome(fwd, F, B, W, NewWindow(t), x)
<1> USE HistoryConstants
<1> DEFINE floor == IF Never(t.from) THEN t.through
                    ELSE IF t.from > Overlap THEN t.from - Overlap ELSE Done
           win == [through |-> t.through, floor |-> floor, nextUntil |-> t.through]
           v == [t EXCEPT !.window = win, !.from = None]
           u == NewWindow(t)
<1>0. /\ t \in PassState /\ t.back \in Stamp /\ t.window \in Window /\ t.through \in Nat
      /\ t.from \in Stamp /\ t.through <= x.now /\ x.now \in Nat
  BY DEF Going, PassState, Within, Setting, WorldOK
<1>1. win \in Window /\ win.through = t.through /\ win.nextUntil = t.through /\ win.floor = floor
  BY <1>0 DEF Window, Stamp, Never, None, Done
<1>2. /\ v \in PassState /\ v.window = win /\ v.back = t.back /\ v.through = t.through
      /\ v.deep = FALSE /\ v.issue = NoWrite /\ v.until = t.until
  BY <1>0, <1>1 DEF PassState, Going, Stamp
<1>3. u = Awaiting(v, "scan", win, "opened")
  BY DEF NewWindow
<1>4. fwd <= t.through
  BY DEF Going, Within, Setting
<1>5. Setting(fwd, F, B \cup {t.back}, W \cup {t.window}, x)
  BY <1>0 DEF Going, Setting
<1>6. Kept(fwd, F, B \cup {t.back}, W \cup {t.window} \cup {win}, x)
  <2>1. win.floor = IF Never(fwd) THEN win.through
                    ELSE IF fwd > Overlap THEN fwd - Overlap ELSE Done
    BY <1>1
  <2> HIDE DEF win
  <2> QED
    BY <1>0, <1>1, <1>4, <1>5, <2>1, KeptWindow DEF Going
<1> HIDE DEF win, v, u
<1>8. /\ u \in PassState /\ u.pc = "write" /\ u.then = "opened" /\ u.window = win /\ u.back = t.back
      /\ u.issue \in Issue /\ u.issue.kind = "scan" /\ u.issue.value = win
      /\ u.deep = FALSE /\ u.through = t.through /\ u.until = t.until
  BY <1>1, <1>2, <1>3, Awaited
<1>9. Adds(u, "forward") = {} /\ Adds(u, "backward") = {} /\ Adds(u, "scan") = {win}
  BY <1>8 DEF Adds
<1>10. Kept(fwd, F, B \cup {t.back}, W \cup {win}, x)
  <2>1. Setting(fwd, F, B \cup {t.back}, W \cup {t.window} \cup {win}, x)
    BY <1>1, <1>5 DEF Setting
  <2> QED
    BY <1>6, <2>1, KeptShrinks DEF Setting
<1>11. Passing(u, fwd, F, W \cup {win}, x) /\ Matches(u, u.issue)
  BY <1>0, <1>1, <1>8 DEF Passing, Within, Going, Matches
<1>12. W \cup {u.window} \cup Adds(u, "scan") = W \cup {win}
  BY <1>8, <1>9
<1> QED
  BY <1>8, <1>9, <1>10, <1>11, <1>12 DEF Outcome, u

LEMMA GoingOn ==
  ASSUME NEW fwd, NEW F, NEW B, NEW W, NEW x, NEW t, Going(fwd, F, B, W, t, x),
         NEW v \in PassState, v.issue = NoWrite, ~ v.deep, v.back = t.back, v.window = t.window,
         v.through = t.through, v.until <= x.now
  PROVE  Going(fwd, F, B, W, v, x)
BY DEF Going, Within

LEMMA OpenedGoes ==
  ASSUME NEW fwd, NEW F, NEW B, NEW W, NEW x, NEW t, Going(fwd, F, B, W, t, x)
  PROVE  Outcome(fwd, F, B, W, Opened(t), x)
<1>0. t \in PassState /\ t.window \in Window
  BY DEF Going, PassState
<1>1. CASE t.window.floor = t.window.through
  BY <1>1, DrainedGoes DEF Opened
<1>2. CASE t.window.floor # t.window.through
  <2> DEFINE v == [t EXCEPT !.until = t.window.nextUntil, !.floor = t.window.floor]
  <2>1. /\ v \in PassState /\ v.issue = NoWrite /\ v.deep = FALSE /\ v.back = t.back
        /\ v.window = t.window /\ v.through = t.through
        /\ v.until = t.window.nextUntil /\ v.floor = t.window.floor /\ Opened(t) = Paged(v)
    BY <1>0, <1>2 DEF PassState, Window, Going, Opened
  <2> HIDE DEF v
  <2>2. v.until <= x.now
    BY <2>1 DEF Going, Kept
  <2>3. /\ Going(fwd, F, B, W, v, x)
        /\ \A w \in x.left : \/ x.arrived[w] >= v.window.through \/ x.date[w] < v.window.floor
                             \/ x.date[w] <= v.until
    BY <1>2, <2>1, <2>2, GoingOn DEF Going, Kept
  <2> QED
    BY <1>2, <2>1, <2>2, <2>3, PagedGoes
<1> QED
  BY <1>1, <1>2

LEMMA CommittedGoes ==
  ASSUME NEW fwd, NEW F, NEW B, NEW W, NEW x, NEW t, Going(fwd, F, B, W, t, x),
         fwd = t.window.through
  PROVE  Outcome(fwd, F, B, W, Committed(t), x)
<1>0. t \in PassState /\ t.window \in Window /\ fwd \in Nat
  BY DEF Going, PassState, Window
<1>1. CASE t.window.through >= t.through
  <2> DEFINE v == [t EXCEPT !.recovered = TRUE]
  <2>1. /\ v \in PassState /\ v.issue = NoWrite /\ v.deep = FALSE /\ v.back = t.back
        /\ v.window = t.window /\ v.through = t.through /\ v.until = t.until
        /\ Committed(t) = Deepened(v)
    BY <1>0, <1>1 DEF PassState, Going, Committed
  <2> HIDE DEF v
  <2> QED
    BY <1>0, <2>1, GoingOn, DeepenedGoes DEF Never, None, Going
<1>2. CASE ~ t.window.through >= t.through
  <2> DEFINE v == [t EXCEPT !.from = t.window.through]
  <2>1. /\ v \in PassState /\ v.issue = NoWrite /\ v.deep = FALSE /\ v.back = t.back
        /\ v.window = t.window /\ v.through = t.through /\ v.from = fwd
        /\ v.until = t.until
        /\ Committed(t) = NewWindow(v)
    BY <1>0, <1>2 DEF PassState, Going, Committed, Stamp
  <2> HIDE DEF v
  <2>2. Going(fwd, F, B, W, v, x)
    BY <2>1, GoingOn DEF Going
  <2> QED
    BY <2>1, <2>2, NewWindowGoes
<1> QED
  BY <1>1, <1>2

LEMMA PlannedGoes ==
  ASSUME NEW c \in Cursor, NEW F, NEW B, NEW W, NEW x, NEW t \in PassState,
         t.issue = NoWrite, ~ t.deep, t.until <= x.now,
         Setting(c.forward, F, B, W, x), c.backward \in B, c.scan \in W,
         Kept(c.forward, F, B, W, x), Within(t, F, W, x)
  PROVE  Outcome(c.forward, F, B, W, Planned(c, t), x)
<1> DEFINE v == [t EXCEPT !.from = c.forward, !.back = c.backward, !.window = c.scan]
<1>1. /\ v \in PassState /\ v.issue = NoWrite /\ v.deep = FALSE /\ v.from = c.forward
      /\ v.back = c.backward /\ v.window = c.scan /\ v.through = t.through /\ v.skip = t.skip
      /\ v.until = t.until
  BY DEF PassState, Cursor
<1>2. Planned(c, t) = IF v.skip /\ c.forward = v.through /\ c.scan = NoScan
                      THEN Deepened([v EXCEPT !.recovered = TRUE])
                      ELSE IF c.scan = NoScan THEN NewWindow(v) ELSE Opened(v)
  BY DEF Planned
<1> HIDE DEF v
<1>3. B \cup {v.back} = B /\ W \cup {v.window} = W
  BY <1>1
<1>4. Going(c.forward, F, B, W, v, x)
  BY <1>1, <1>3 DEF Going, Within
<1>5. CASE v.skip /\ c.forward = v.through /\ c.scan = NoScan
  <2> DEFINE y == [v EXCEPT !.recovered = TRUE]
  <2>1. /\ y \in PassState /\ y.issue = NoWrite /\ y.deep = FALSE /\ y.back = v.back
        /\ y.window = v.window /\ y.through = v.through /\ y.until = v.until
        /\ Planned(c, t) = Deepened(y)
    BY <1>1, <1>2, <1>5 DEF PassState
  <2> HIDE DEF y
  <2>2. ~ Never(c.forward)
    BY <1>1, <1>5 DEF PassState, Never, None
  <2> QED
    BY <1>4, <2>1, <2>2, GoingOn, DeepenedGoes DEF Going
<1>6. CASE ~ (v.skip /\ c.forward = v.through /\ c.scan = NoScan)
  BY <1>1, <1>2, <1>4, <1>6, NewWindowGoes, OpenedGoes
<1> QED
  BY <1>5, <1>6

LEMMA CheckpointedGoes ==
  ASSUME NEW fwd, NEW F, NEW B, NEW W, NEW x, NEW t, Going(fwd, F, B, W, t, x),
         LET win == t.window IN
           /\ t.floor = win.floor /\ win.floor # win.through
           /\ \A w \in x.left : \/ x.arrived[w] >= win.through \/ x.date[w] < win.floor
                                \/ x.date[w] <= t.until,
         t.page = {}
  PROVE  Outcome(fwd, F, B, W, Checkpointed(t), x)
<1> DEFINE next == [t.window EXCEPT !.nextUntil = t.until]
           u == Checkpointed(t)
<1>0. t \in PassState /\ t.window \in Window /\ t.until \in Nat /\ t.back \in Stamp
  BY DEF Going, PassState
<1>1. next \in Window /\ next.through = t.window.through
  BY <1>0 DEF Window
<1>2. u = Awaiting(t, "scan", next, "paged")
  BY DEF Checkpointed, Going
<1>3. Setting(fwd, F, B \cup {t.back}, W \cup {t.window}, x)
  BY <1>0 DEF Going, Setting
<1>4. Kept(fwd, F, B \cup {t.back}, W \cup {t.window} \cup {next}, x)
  BY <1>0, <1>3, KeptCheckpoint DEF Going
<1> HIDE DEF next, u
<1>5. /\ u \in PassState /\ u.pc = "write" /\ u.then = "paged" /\ u.window = t.window
      /\ u.issue \in Issue /\ u.issue.kind = "scan" /\ u.issue.value = next
      /\ u.back = t.back /\ u.deep = FALSE /\ u.through = t.through /\ u.floor = t.floor
      /\ u.until = t.until /\ u.page = {}
  BY <1>0, <1>1, <1>2, Awaited DEF Going
<1>6. Adds(u, "forward") = {} /\ Adds(u, "backward") = {} /\ Adds(u, "scan") = {next}
  BY <1>5 DEF Adds
<1>7. Reading(u, F, W \cup {t.window} \cup {next}, x)
  BY <1>5 DEF Reading, Covered
<1>8. Passing(u, fwd, F, W \cup {t.window} \cup {next}, x) /\ Matches(u, u.issue)
  BY <1>1, <1>5, <1>7 DEF Passing, Within, Going, Matches
<1> QED
  BY <1>4, <1>5, <1>6, <1>8 DEF Outcome, u

LEMMA DeepCheckpointedGoes ==
  ASSUME NEW fwd, NEW F, NEW B, NEW W, NEW x, NEW t, DeepGoing(fwd, F, B, W, t, x),
         t.page = {},
         \A w \in x.left : Ahead(w, F, W \cup {t.window}, x) \/ x.date[w] <= t.until
  PROVE  Outcome(fwd, F, B, W, Checkpointed(t), x)
<1> DEFINE u == Checkpointed(t)
<1>0. t \in PassState /\ t.until \in Nat /\ t.back \in Stamp /\ t.window \in Window
  BY DEF DeepGoing, PassState
<1>1. u = Awaiting(t, "backward", t.until, "paged")
  BY DEF Checkpointed, DeepGoing
<1> HIDE DEF u
<1>2. /\ u \in PassState /\ u.pc = "write" /\ u.then = "paged" /\ u.window = t.window
      /\ u.issue \in Issue /\ u.issue.kind = "backward" /\ u.issue.value = t.until
      /\ u.back = t.back /\ u.deep = TRUE /\ u.floor = 0 /\ u.until = t.until /\ u.page = {}
  BY <1>0, <1>1, Awaited DEF DeepGoing
<1>3. Adds(u, "forward") = {} /\ Adds(u, "backward") = {t.until} /\ Adds(u, "scan") = {}
  BY <1>2 DEF Adds
<1>4. Setting(fwd, F, B \cup {t.back}, W \cup {t.window}, x)
  BY <1>0 DEF DeepGoing, Setting
<1>5. Kept(fwd, F, B \cup {t.back} \cup {t.until}, W \cup {t.window}, x)
  BY <1>0, <1>4, KeptFrontier DEF DeepGoing
<1>6. Reading(u, F, W \cup {t.window}, x)
  BY <1>2 DEF Reading, Covered
<1>7. Passing(u, fwd, F, W \cup {t.window}, x) /\ Matches(u, u.issue)
  BY <1>2, <1>6 DEF Passing, DeepGoing, Matches
<1> QED
  BY <1>2, <1>3, <1>5, <1>7 DEF Outcome, u

-----------------------------------------------------------------------------
(* What is pending of a relay, and the relay's state after a step. *)
Behind(c, Q) == {c.backward} \cup Issued(Q, "backward")
Scans(c, Q) == {c.scan} \cup Issued(Q, "scan")

LEMMA IssuedTyped ==
  ASSUME NEW Q, Q \subseteq Issue
  PROVE  /\ Issued(Q, "forward") \subseteq Nat /\ Issued(Q, "backward") \subseteq Nat
         /\ Issued(Q, "scan") \subseteq Window /\ Issued(Q, "seed") \subseteq Cursor
BY DEF Issued, Issue

LEMMA IssuedShrinks ==
  ASSUME NEW Q, NEW Q2, Q2 \subseteq Q, NEW kind
  PROVE  Issued(Q2, kind) \subseteq Issued(Q, kind)
BY DEF Issued

LEMMA SettingHolds ==
  ASSUME NEW c \in Cursor, NEW Q, Q \subseteq Issue, NEW x, WorldOK(x)
  PROVE  Setting(c.forward, Forwards(c, Q), Behind(c, Q), Scans(c, Q), x)
BY IssuedTyped DEF Setting, Forwards, Behind, Scans, Cursor, Stamp

LEMMA PassingShrinks ==
  ASSUME NEW fwd, NEW F, NEW B, NEW W, NEW x, Setting(fwd, F, B, W, x), NEW t,
         Passing(t, fwd, F, W, x),
         NEW fwd2, Never(fwd2) => Never(fwd), NEW F2, F2 \subseteq F,
         NEW W2, W2 \subseteq W \cup {NoScan}, t.through \in Nat
  PROVE  Passing(t, fwd2, F2, W2, x)
<1>1. \A w \in x.left : Ahead(w, F, W, x) => Ahead(w, F2, W2, x)
  BY IdleTyped DEF Ahead, Setting, WorldOK
<1>2. Reading(t, F, W, x) => Reading(t, F2, W2, x)
  BY <1>1 DEF Reading, Covered
<1>3. Within(t, F, W, x) => Within(t, F2, W2, x)
  BY IdleTyped DEF Within
<1> QED
  BY <1>2, <1>3 DEF Passing

(* A cursor that some of the writes have changed, with fewer left. *)
LEMMA SoundShrinks ==
  ASSUME NEW c \in Cursor, NEW Q, Q \subseteq Issue, NEW x, WorldOK(x), NEW t \in PassState,
         c.exists, Sound(c, Q, t, x),
         NEW d \in Cursor, d.exists, d.forward \in Forwards(c, Q),
         Never(d.forward) => Never(c.forward), d.backward \in Behind(c, Q),
         d.scan \in Scans(c, Q) \cup {NoScan},
         NEW Q2, Q2 \subseteq Q
  PROVE  Sound(d, Q2, t, x)
<1> DEFINE F == Forwards(c, Q)
           B == Backwards(c, Q, t)
           W == Windows(c, Q, t)
<1>1. Setting(c.forward, F, B, W, x)
  BY SettingHolds DEF Setting, Behind, Scans, Backwards, Windows, PassState
<1>2. /\ Issued(Q2, "seed") \subseteq Issued(Q, "seed")
      /\ Forwards(d, Q2) \subseteq F /\ Backwards(d, Q2, t) \subseteq B \cup {None}
      /\ Windows(d, Q2, t) \subseteq W \cup {NoScan}
  BY IssuedShrinks DEF Forwards, Backwards, Windows, Behind, Scans
<1>3. Kept(c.forward, F, B, W, x) /\ Issued(Q, "seed") = {}
  BY DEF Sound
<1>4. Kept(d.forward, Forwards(d, Q2), Backwards(d, Q2, t), Windows(d, Q2, t), x)
  BY <1>1, <1>2, <1>3, KeptShrinks
<1>5. t.pc # "idle" => Passing(t, d.forward, Forwards(d, Q2), Windows(d, Q2, t), x)
  <2>1. t.through \in Nat
    BY DEF PassState
  <2>2. t.pc # "idle" => Passing(t, c.forward, F, W, x)
    BY DEF Sound
  <2> QED
    BY <1>1, <1>2, <2>1, <2>2, PassingShrinks
<1> QED
  BY <1>2, <1>3, <1>4, <1>5 DEF Sound

LEMMA FewerPending ==
  ASSUME NEW c \in Cursor, NEW Q, Q \subseteq Issue, NEW x, WorldOK(x), NEW t \in PassState,
         Sound(c, Q, t, x), NEW Q2, Q2 \subseteq Q
  PROVE  Sound(c, Q2, t, x)
<1>1. CASE c.exists
  BY <1>1, SoundShrinks DEF Forwards, Behind, Scans
<1>2. CASE ~ c.exists
  BY <1>2 DEF Sound, Fresh
<1> QED
  BY <1>1, <1>2

LEMMA PassEnds ==
  ASSUME NEW c \in Cursor, NEW Q, Q \subseteq Issue, NEW x, WorldOK(x), NEW t \in PassState,
         Sound(c, Q, t, x)
  PROVE  Sound(c, Q, Idle, x)
<1>1. CASE c.exists
  <2>1. Setting(c.forward, Forwards(c, Q), Backwards(c, Q, t), Windows(c, Q, t), x)
    BY SettingHolds DEF Setting, Behind, Scans, Backwards, Windows, PassState
  <2>2. Kept(c.forward, Forwards(c, Q), Backwards(c, Q, Idle), Windows(c, Q, Idle), x)
    <3>1. /\ Backwards(c, Q, Idle) \subseteq Backwards(c, Q, t) \cup {None}
          /\ Windows(c, Q, Idle) \subseteq Windows(c, Q, t) \cup {NoScan}
      BY IdleTyped DEF Backwards, Windows
    <3> QED
      BY <1>1, <2>1, <3>1, KeptShrinks DEF Sound, Forwards
  <2> QED
    BY <1>1, <2>2, IdleTyped DEF Sound
<1>2. CASE ~ c.exists
  BY <1>2, IdleTyped DEF Sound, Fresh, Heritage, WorldOK
<1> QED
  BY <1>1, <1>2

(* The task that is stored for the outcome of a step of the pass. *)
Stored(t) == IF t.pc = "ended" THEN Idle ELSE [t EXCEPT !.issue = NoWrite]

LEMMA OutcomeSound ==
  ASSUME NEW c \in Cursor, NEW Q, Q \subseteq Issue, NEW x, WorldOK(x), c.exists,
         Issued(Q, "seed") = {}, NEW t,
         Outcome(c.forward, Forwards(c, Q), Behind(c, Q), Scans(c, Q), t, x),
         NEW Q2, \A p \in Q2 : p \in Q \/ (t.pc = "write" /\ p = t.issue)
  PROVE  Sound(c, Q2, Stored(t), x)
<1> DEFINE F == Forwards(c, Q) \cup Adds(t, "forward")
           B == Behind(c, Q) \cup {t.back} \cup Adds(t, "backward")
           W == Scans(c, Q) \cup {t.window} \cup Adds(t, "scan")
           u == Stored(t)
<1>0. t \in PassState /\ (t.pc = "write" => t.issue \in Issue /\ t.issue.kind # "seed")
  BY DEF Outcome, Matches
<1>1. Setting(c.forward, F, B, W, x)
  <2>1. Adds(t, "forward") \subseteq Nat /\ Adds(t, "backward") \subseteq Nat
        /\ Adds(t, "scan") \subseteq Window
    BY <1>0, IdleTyped DEF Adds, Outcome, Issue
  <2> QED
    BY <1>0, <2>1, SettingHolds DEF Setting, PassState, Stamp
<1>2. \A kind : Issued(Q2, kind) \subseteq Issued(Q, kind) \cup
                   (IF t.pc = "write" THEN Adds(t, kind) ELSE {})
  BY DEF Issued, Adds
<1>3. Issued(Q2, "seed") = {}
  BY <1>0, <1>2 DEF Adds
<1>4. CASE t.pc = "ended"
  <2>1. u = Idle
    BY <1>4 DEF Stored
  <2>2. /\ Forwards(c, Q2) \subseteq F /\ Backwards(c, Q2, Idle) \subseteq B \cup {None}
        /\ Windows(c, Q2, Idle) \subseteq W \cup {NoScan}
    BY <1>2, <1>4, IdleTyped DEF Forwards, Behind, Scans, Backwards, Windows
  <2>3. Kept(c.forward, Forwards(c, Q2), Backwards(c, Q2, Idle), Windows(c, Q2, Idle), x)
    BY <1>1, <2>2, KeptShrinks DEF Outcome, Forwards
  <2> QED
    BY <1>3, <2>1, <2>3, IdleTyped DEF Sound
<1>5. CASE t.pc # "ended"
  <2>1. /\ u.pc = t.pc /\ u.back = t.back /\ u.window = t.window /\ u.then = t.then
        /\ u.deep = t.deep /\ u.through = t.through /\ u.floor = t.floor
        /\ u.until = t.until /\ u.page = t.page /\ u.result = t.result
    BY <1>0, <1>5 DEF Stored, PassState
  <2>2. /\ Forwards(c, Q2) \subseteq F /\ Backwards(c, Q2, u) \subseteq B \cup {None}
        /\ Windows(c, Q2, u) \subseteq W \cup {NoScan}
    BY <1>2, <2>1 DEF Forwards, Behind, Scans, Backwards, Windows
  <2>3. Kept(c.forward, Forwards(c, Q2), Backwards(c, Q2, u), Windows(c, Q2, u), x)
    BY <1>1, <2>2, KeptShrinks DEF Outcome, Forwards
  <2>4. Passing(t, c.forward, Forwards(c, Q2), Windows(c, Q2, u), x)
    <3>1. t.through \in Nat /\ Passing(t, c.forward, F, W, x)
      BY <1>0, <1>5 DEF PassState, Outcome
    <3> QED
      BY <1>1, <2>2, <3>1, PassingShrinks
  <2>5. Passing(u, c.forward, Forwards(c, Q2), Windows(c, Q2, u), x)
    BY <2>1, <2>4 DEF Passing, Within, Reading, Covered
  <2>6. u.then # "planned" \/ u.pc # "write"
    BY <1>5, <2>1 DEF Outcome
  <2> QED
    BY <1>3, <2>3, <2>5, <2>6 DEF Sound
<1> QED
  BY <1>4, <1>5

(* Time passes, wraps are taken and others arrive. *)
Later(x, y) ==
  /\ x.now <= y.now
  /\ \A w \in y.left : \/ /\ w \in x.left
                          /\ y.arrived[w] = x.arrived[w] /\ y.date[w] = x.date[w]
                       \/ y.arrived[w] >= x.now

LEMMA AheadLater ==
  ASSUME NEW x, NEW y, WorldOK(x), WorldOK(y), Later(x, y),
         NEW F, F \subseteq Stamp, \A f \in F : f <= x.now,
         NEW W, W \subseteq Window, \A win \in W : win.through <= x.now,
         NEW w \in y.left, w \notin x.left \/ x.arrived[w] # y.arrived[w] \/ x.date[w] # y.date[w]
  PROVE  Ahead(w, F, W, y) /\ \A win \in W : y.arrived[w] >= win.through
<1>1. y.arrived[w] >= x.now /\ y.arrived[w] \in Nat /\ x.now \in Nat
  BY DEF Later, WorldOK
<1>2. ASSUME NEW f \in F PROVE y.arrived[w] >= f
  <2>1. f \in Stamp /\ f <= x.now
    OBVIOUS
  <2> QED
    BY <1>1, <2>1 DEF Stamp, None
<1>3. \A win \in W : y.arrived[w] >= win.through
  BY <1>1 DEF Window
<1> QED
  BY <1>2, <1>3 DEF Ahead

LEMMA SoundLater ==
  ASSUME NEW c \in Cursor, NEW Q, Q \subseteq Issue, NEW t \in PassState,
         NEW x, NEW y, WorldOK(x), WorldOK(y), Later(x, y), Sound(c, Q, t, x)
  PROVE  Sound(c, Q, t, y)
<1>0. x.now \in Nat /\ y.now \in Nat /\ x.now <= y.now
  BY DEF WorldOK, Later
<1>1. CASE c.exists
  <2> DEFINE F == Forwards(c, Q)
             B == Backwards(c, Q, t)
             W == Windows(c, Q, t)
             New(w) == w \notin x.left \/ x.arrived[w] # y.arrived[w] \/ x.date[w] # y.date[w]
  <2>1. Setting(c.forward, F, B, W, x)
    BY SettingHolds DEF Setting, Behind, Scans, Backwards, Windows, PassState
  <2>2. Kept(c.forward, F, B, W, x) /\ (t.pc # "idle" => Passing(t, c.forward, F, W, x))
    BY <1>1 DEF Sound
  <2>win. t.window \in W
    BY DEF Windows
  <2> HIDE DEF F, B, W
  <2>3. \A w \in y.left : New(w) =>
          Ahead(w, F, W, y) /\ \A win \in W : y.arrived[w] >= win.through
    <3>1. F \subseteq Stamp /\ W \subseteq Window
      BY <2>1 DEF Setting
    <3>2. (\A f \in F : f <= x.now) /\ \A win \in W : win.through <= x.now
      BY <2>2 DEF Kept
    <3> QED
      BY <3>1, <3>2, AheadLater
  <2>4. \A w \in y.left : ~ New(w) => (Ahead(w, F, W, x) <=> Ahead(w, F, W, y))
    BY DEF Ahead
  <2>5. Kept(c.forward, F, B, W, y)
    <3>1. /\ \A f \in F : f <= y.now
          /\ \A b \in B : b <= y.now
          /\ \A win \in W : win.through <= y.now /\ win.floor <= y.now /\ win.nextUntil <= y.now
      BY <1>0, <2>1, <2>2 DEF Kept, Setting, Stamp, None, Window
    <3>2. \A w \in y.left : \A b \in B : Never(b) \/ y.date[w] <= b \/ Ahead(w, F, W, y)
      BY <2>2, <2>3, <2>4 DEF Kept
    <3>3. \A w \in y.left : \A win \in W :
            \/ y.arrived[w] >= win.through \/ win.floor = win.through
            \/ y.date[w] < win.floor \/ y.date[w] <= win.nextUntil
      BY <2>2, <2>3 DEF Kept
    <3> QED
      BY <2>2, <3>1, <3>2, <3>3 DEF Kept
  <2>6. ASSUME t.pc # "idle" PROVE Passing(t, c.forward, F, W, y)
    <3>1. Passing(t, c.forward, F, W, x) /\ t.through \in Nat /\ t.until \in Nat
      BY <2>2, <2>6 DEF PassState
    <3>2. Within(t, F, W, x) => Within(t, F, W, y)
      BY <1>0, <3>1 DEF Within
    <3>4. Reading(t, F, W, x) => Reading(t, F, W, y)
      BY <1>0, <2>3, <2>4, <2>win, <3>1 DEF Reading, Covered
    <3>5. t.until <= y.now
      BY <1>0, <3>1 DEF Passing
    <3> QED
      BY <3>1, <3>2, <3>4, <3>5 DEF Passing
  <2> QED
    BY <1>1, <2>5, <2>6 DEF Sound, F, B, W
<1>2. CASE ~ c.exists
  <2>1. \A p \in Q : p.kind = "seed" => p.value \in Cursor
    BY DEF Issue
  <2> QED
    BY <1>0, <1>2, <2>1 DEF Sound, Fresh, Heritage, Cursor, Stamp, None, PassState
<1> QED
  BY <1>1, <1>2

LEMMA SoundTaken ==
  ASSUME NEW c \in Cursor, NEW Q, Q \subseteq Issue, NEW t \in PassState,
         NEW x, NEW y, WorldOK(x), WorldOK(y), Sound(c, Q, t, x), t.pc = "intake",
         NEW w, y.left = x.left \ {w}, y.arrived = x.arrived, y.date = x.date, y.now = x.now
  PROVE  Sound(c, Q, [t EXCEPT !.page = @ \ {w}], y)
<1> DEFINE u == [t EXCEPT !.page = @ \ {w}]
<1>1. /\ u.pc = t.pc /\ u.back = t.back /\ u.window = t.window /\ u.then = t.then
      /\ u.deep = t.deep /\ u.through = t.through /\ u.floor = t.floor
      /\ u.until = t.until /\ u.page = t.page \ {w} /\ u.result = t.result
  BY DEF PassState
<1> SUFFICES Sound(c, Q, u, y)
  OBVIOUS
<1> HIDE DEF u
<1>2. Later(x, y)
  BY DEF Later, WorldOK
<1>3. Sound(c, Q, t, y)
  BY <1>2, SoundLater
<1>4. CASE c.exists
  <2>1. /\ Backwards(c, Q, u) = Backwards(c, Q, t) /\ Windows(c, Q, u) = Windows(c, Q, t)
    BY <1>1 DEF Backwards, Windows
  <2>2. Reading(t, Forwards(c, Q), Windows(c, Q, t), y) =>
          Reading(u, Forwards(c, Q), Windows(c, Q, t), y)
    BY <1>1 DEF Reading, Covered
  <2>3. Passing(u, c.forward, Forwards(c, Q), Windows(c, Q, t), y)
    BY <1>1, <1>3, <1>4, <2>2 DEF Sound, Passing, Within
  <2> QED
    BY <1>1, <1>3, <1>4, <2>1, <2>3 DEF Sound
<1>5. CASE ~ c.exists
  BY <1>1, <1>3, <1>5 DEF Sound, Fresh, Heritage
<1> QED
  BY <1>4, <1>5

-----------------------------------------------------------------------------
(* The steps of a pass, over the cursor of its relay. *)
LEMMA PassView ==
  ASSUME NEW c \in Cursor, NEW Q, Q \subseteq Issue, NEW t \in PassState, NEW x, WorldOK(x),
         Sound(c, Q, t, x), c.exists, t.pc # "idle", t.issue = NoWrite
  PROVE  /\ ~ t.deep => Going(c.forward, Forwards(c, Q), Behind(c, Q), Scans(c, Q), t, x)
         /\ t.deep /\ t.floor = 0 =>
              DeepGoing(c.forward, Forwards(c, Q), Behind(c, Q), Scans(c, Q), t, x)
         /\ Passing(t, c.forward, Forwards(c, Q), Scans(c, Q) \cup {t.window}, x)
<1>1. Setting(c.forward, Forwards(c, Q), Behind(c, Q), Scans(c, Q), x)
  BY SettingHolds
<1>2. /\ Backwards(c, Q, t) = Behind(c, Q) \cup {t.back}
      /\ Windows(c, Q, t) = Scans(c, Q) \cup {t.window}
  BY DEF Backwards, Behind, Windows, Scans
<1>3. /\ Kept(c.forward, Forwards(c, Q), Behind(c, Q) \cup {t.back}, Scans(c, Q) \cup {t.window}, x)
      /\ Passing(t, c.forward, Forwards(c, Q), Scans(c, Q) \cup {t.window}, x)
  BY <1>2 DEF Sound
<1> QED
  BY <1>1, <1>3 DEF Going, DeepGoing, Passing

LEMMA AnsweredSound ==
  ASSUME NEW c \in Cursor, NEW Q, Q \subseteq Issue, NEW t \in PassState, NEW x, WorldOK(x),
         Sound(c, Q, t, x), t.pc = "query", NEW page, page \subseteq Wrap,
         NEW until \in Nat, until <= t.until, NEW result \in {"page", "drained", "interrupted"},
         \A w \in x.left : t.floor <= x.date[w] /\ x.date[w] <= t.until =>
           w \in page \/ (result # "drained" /\ x.date[w] <= until),
         NEW u, u = [t EXCEPT !.pc = "intake", !.page = page, !.result = result, !.until = until]
  PROVE  u \in PassState /\ Sound(c, Q, u, x)
<1>1. /\ u \in PassState /\ u.pc = "intake" /\ u.back = t.back /\ u.window = t.window
      /\ u.deep = t.deep /\ u.through = t.through /\ u.floor = t.floor
      /\ u.until = until /\ u.page = page /\ u.result = result
  BY DEF PassState, Place
<1>2. c.exists
  BY DEF Sound, Fresh
<1> DEFINE F == Forwards(c, Q)
           W == Windows(c, Q, t)
<1>3. Backwards(c, Q, u) = Backwards(c, Q, t) /\ Windows(c, Q, u) = W
  BY <1>1 DEF Backwards, Windows
<1>4. Passing(t, c.forward, F, W, x)
  BY <1>2 DEF Sound
<1> HIDE DEF F, W
<1>5. Reading(u, F, W, x)
  <2>1. t.until \in Nat /\ t.floor \in Nat /\ x.now \in Nat
    BY DEF PassState, WorldOK
  <2>2. Reading(t, F, W, x)
    BY <1>4 DEF Passing
  <2>4. ASSUME NEW w \in x.left
        PROVE  \/ Covered(u, w, F, W, x)
               \/ x.date[w] <= u.until /\ u.result # "drained"
               \/ w \in u.page
    <3>1. Covered(t, w, F, W, x) => Covered(u, w, F, W, x)
      BY <1>1 DEF Covered
    <3>2. Covered(t, w, F, W, x) \/ x.date[w] <= t.until
      BY <2>2 DEF Reading
    <3>3. x.date[w] < t.floor => Covered(t, w, F, W, x)
      BY <2>1, <2>2 DEF Reading, Covered, WorldOK
    <3>4. x.date[w] \in Nat
      BY DEF WorldOK
    <3> QED
      BY <1>1, <2>1, <3>1, <3>2, <3>3, <3>4
  <2> QED
    BY <1>1, <2>2, <2>4 DEF Reading
<1>6. Passing(u, c.forward, F, W, x)
  <2>1. u.until <= x.now
    BY <1>1, <1>4 DEF Passing, PassState, WorldOK
  <2> QED
    BY <1>1, <1>4, <1>5, <2>1 DEF Passing, Within
<1> QED
  BY <1>1, <1>2, <1>3, <1>6 DEF Sound, F, W

LEMMA IntakeDoneGoes ==
  ASSUME NEW c \in Cursor, NEW Q, Q \subseteq Issue, NEW t \in PassState, NEW x, WorldOK(x),
         Sound(c, Q, t, x), t.pc = "intake", t.page = {}, t.issue = NoWrite, NEW u,
         \/ t.result = "page" /\ u = Checkpointed(t)
         \/ t.result = "drained" /\ u = Drained(t)
         \/ t.result = "interrupted" /\ u = IF t.deep THEN [t EXCEPT !.pc = "ended"]
                                            ELSE Deepened(t)
  PROVE  /\ c.exists
         /\ Outcome(c.forward, Forwards(c, Q), Behind(c, Q), Scans(c, Q), u, x)
<1> DEFINE fwd == c.forward
           F == Forwards(c, Q)
           B == Behind(c, Q)
           W == Scans(c, Q)
<1>1. c.exists
  BY DEF Sound, Fresh
<1>2. Passing(t, fwd, F, W \cup {t.window}, x)
  BY <1>1, PassView
<1>3. Reading(t, F, W \cup {t.window}, x)
  BY <1>2 DEF Passing
<1>4. CASE t.deep
  <2>1. DeepGoing(fwd, F, B, W, t, x)
    BY <1>1, <1>3, <1>4, PassView DEF Reading
  <2> HIDE DEF fwd, F, B, W
  <2>2. CASE t.result = "page"
    BY <1>1, <1>3, <1>4, <2>1, <2>2, DeepCheckpointedGoes DEF Reading, Covered, fwd, F, B, W
  <2>3. CASE t.result = "drained"
    BY <1>1, <1>3, <1>4, <2>1, <2>3, DeepDrainedGoes DEF Reading, Covered, fwd, F, B, W
  <2>4. CASE t.result = "interrupted"
    <3>1. u = [t EXCEPT !.pc = "ended"]
      BY <1>4, <2>4
    <3>2. /\ u \in PassState /\ u.pc = "ended" /\ u.issue = NoWrite /\ u.window = t.window
          /\ u.back = t.back
      BY <3>1 DEF PassState
    <3>3. Adds(u, "forward") = {} /\ Adds(u, "backward") = {} /\ Adds(u, "scan") = {}
      BY <3>2 DEF Adds, NoWrite
    <3> QED
      BY <1>1, <2>1, <3>2, <3>3 DEF Outcome, DeepGoing, fwd, F, B, W
  <2> QED
    BY <1>1, <2>2, <2>3, <2>4 DEF fwd, F, B, W
<1>5. CASE ~ t.deep
  <2>1. Going(fwd, F, B, W, t, x)
    BY <1>1, <1>5, PassView
  <2> HIDE DEF fwd, F, B, W
  <2>2. CASE t.result = "page"
    BY <1>1, <1>3, <1>5, <2>1, <2>2, CheckpointedGoes DEF Reading, Covered, fwd, F, B, W
  <2>3. CASE t.result = "drained"
    BY <1>1, <1>3, <1>5, <2>1, <2>3, DrainedGoes DEF Reading, Covered, fwd, F, B, W
  <2>4. CASE t.result = "interrupted"
    <3>1. ~ Never(fwd)
      BY <1>3, <1>5, <2>1 DEF Reading, Going, Kept
    <3> QED
      BY <1>1, <1>5, <2>1, <2>4, <3>1, DeepenedGoes DEF fwd, F, B, W
  <2> QED
    BY <1>1, <2>2, <2>3, <2>4 DEF fwd, F, B, W
<1> QED
  BY <1>4, <1>5

(* A write completes: the cursor it leaves, and the pass that awaited it. *)
LEMMA WrittenSound ==
  ASSUME NEW c \in Cursor, NEW Q, Q \subseteq Issue, NEW t \in PassState, NEW x, WorldOK(x),
         Sound(c, Q, t, x), c.exists, NEW p \in Q, NEW Q2, Q2 \subseteq Q,
         NEW write, write.kind = p.kind, write.value = p.value
  PROVE  LET d == Written(c, write) IN
         /\ d \in Cursor /\ d.exists /\ Sound(d, Q2, t, x)
         /\ p.kind = "forward" => d.forward = p.value
         /\ p.kind # "seed"
<1> DEFINE d == Written(c, write)
<1>1. Issued(Q, "seed") = {}
  BY DEF Sound
<1>2. p.kind # "seed"
  BY <1>1 DEF Issued
<1>3. CASE p.kind = "scan"
  <2>1. d = [c EXCEPT !.exists = TRUE, !.scan = p.value]
    BY <1>3 DEF Written
  <2>2. p.value \in Window /\ p.value \in Issued(Q, "scan")
    BY <1>3 DEF Issue, Issued
  <2> HIDE DEF d
  <2>3. /\ d \in Cursor /\ d.exists /\ d.forward = c.forward /\ d.backward = c.backward
        /\ d.scan = p.value
    BY <2>1, <2>2 DEF Cursor
  <2>4. Sound(d, Q2, t, x)
    BY <2>2, <2>3, SoundShrinks DEF Forwards, Behind, Scans
  <2> QED
    BY <1>2, <1>3, <2>3, <2>4 DEF d
<1>4. CASE p.kind = "forward"
  <2>1. d = [c EXCEPT !.exists = TRUE, !.forward = p.value, !.scan = NoScan]
    BY <1>4 DEF Written
  <2>2. p.value \in Nat /\ p.value \in Issued(Q, "forward")
    BY <1>4 DEF Issue, Issued
  <2> HIDE DEF d
  <2>3. /\ d \in Cursor /\ d.exists /\ d.forward = p.value /\ d.backward = c.backward
        /\ d.scan = NoScan
    BY <2>1, <2>2, IdleTyped DEF Cursor, Stamp
  <2>4. Sound(d, Q2, t, x)
    BY <2>2, <2>3, SoundShrinks DEF Forwards, Behind, Scans, Never, None
  <2> QED
    BY <1>2, <1>4, <2>3, <2>4 DEF d
<1>5. CASE p.kind = "backward"
  <2>1. d = [c EXCEPT !.exists = TRUE, !.backward = p.value]
    BY <1>5 DEF Written
  <2>2. p.value \in Nat /\ p.value \in Issued(Q, "backward")
    BY <1>5 DEF Issue, Issued
  <2> HIDE DEF d
  <2>3. /\ d \in Cursor /\ d.exists /\ d.forward = c.forward /\ d.backward = p.value
        /\ d.scan = c.scan
    BY <2>1, <2>2 DEF Cursor, Stamp
  <2>4. Sound(d, Q2, t, x)
    BY <2>2, <2>3, SoundShrinks DEF Forwards, Behind, Scans
  <2> QED
    BY <1>2, <1>5, <2>3, <2>4 DEF d
<1> QED
  BY <1>2, <1>3, <1>4, <1>5 DEF Issue

LEMMA ResumedGoes ==
  ASSUME NEW c \in Cursor, NEW Q, Q \subseteq Issue, NEW t \in PassState, NEW x, WorldOK(x),
         Sound(c, Q, t, x), c.exists, t.pc = "write", t.issue = NoWrite,
         NEW p, Matches(t, p), p.kind = "forward" => c.forward = p.value, p.kind # "seed"
  PROVE  Outcome(c.forward, Forwards(c, Q), Behind(c, Q), Scans(c, Q), Resumed(c, t), x)
<1> DEFINE fwd == c.forward
           F == Forwards(c, Q)
           B == Behind(c, Q)
           W == Scans(c, Q)
<1>1. Passing(t, fwd, F, W \cup {t.window}, x)
  BY PassView
<1>2. ~ t.deep => Going(fwd, F, B, W, t, x)
  BY PassView
<1>3. t.deep /\ t.floor = 0 => DeepGoing(fwd, F, B, W, t, x)
  BY PassView
<1>4. Setting(fwd, F, B, W, x) /\ Kept(fwd, F, B \cup {t.back}, W \cup {t.window}, x)
  <2>1. /\ Backwards(c, Q, t) = B \cup {t.back} /\ Windows(c, Q, t) = W \cup {t.window}
    BY DEF Backwards, Behind, Windows, Scans
  <2> QED
    BY <2>1, SettingHolds DEF Sound
<1> HIDE DEF F, B, W
<1>5. CASE t.then = "opened"
  BY <1>2, <1>5, OpenedGoes DEF Resumed, Matches, F, B, W
<1>6. CASE t.then = "paged"
  <2>1. Reading(t, F, W \cup {t.window}, x)
    BY <1>1, <1>6 DEF Passing
  <2>2. Resumed(c, t) = Paged(t)
    BY <1>6 DEF Resumed
  <2>3. CASE t.deep
    BY <1>3, <2>1, <2>2, <2>3, DeepPagedGoes DEF Reading, Covered, F, B, W
  <2>4. CASE ~ t.deep
    BY <1>2, <2>1, <2>2, <2>4, PagedGoes DEF Reading, Covered, F, B, W
  <2> QED
    BY <2>3, <2>4
<1>7. CASE t.then = "committed"
  BY <1>2, <1>7, CommittedGoes DEF Resumed, Matches, F, B, W
<1>8. CASE t.then = "ended"
  <2> DEFINE u == [t EXCEPT !.pc = "ended"]
  <2>1. /\ u \in PassState /\ u.pc = "ended" /\ u.issue = NoWrite /\ u.window = t.window
        /\ u.back = t.back /\ Resumed(c, t) = u
    BY <1>8 DEF PassState, Resumed
  <2> HIDE DEF u
  <2>2. Adds(u, "forward") = {} /\ Adds(u, "backward") = {} /\ Adds(u, "scan") = {}
    BY <2>1 DEF Adds, NoWrite
  <2> QED
    BY <1>4, <2>1, <2>2 DEF Outcome, F, B, W
<1> QED
  BY <1>5, <1>6, <1>7, <1>8 DEF Matches

(* An inherited cursor promises only what arrives from now on. *)
Onward(v, y) == v.exists => \A w \in y.left : y.arrived[w] >= y.now

LEMMA SeededSound ==
  ASSUME NEW c \in Cursor, NEW Q, Q \subseteq Issue, NEW t \in PassState, NEW x, NEW y,
         WorldOK(x), WorldOK(y), Sound(c, Q, t, x), ~ c.exists, y.now = x.now,
         NEW p \in Q, NEW write, write.kind = p.kind, write.value = p.value,
         Onward(p.value, y)
  PROVE  LET d == Written(c, write) IN
         /\ p.kind = "seed" /\ d \in Cursor /\ d.exists /\ Sound(d, {}, Idle, y)
         /\ t.pc = "write" /\ t.issue = NoWrite =>
              Outcome(d.forward, Forwards(d, {}), Behind(d, {}), Scans(d, {}), Planned(d, t), y)
<1> DEFINE d == Written(c, write)
           v == p.value
<1>1. /\ p.kind = "seed" /\ v \in Cursor /\ v.scan = NoScan /\ v.forward <= y.now
      /\ v.backward <= y.now /\ ((Never(v.forward) \/ ~ v.exists) => Never(v.backward))
      /\ t.pc # "idle" => /\ v.forward <= t.through /\ t.through <= y.now /\ ~ t.deep
                          /\ t.until <= y.now
  BY DEF Sound, Fresh, Heritage, Issue
<1>2. d = [v EXCEPT !.exists = TRUE]
  BY <1>1 DEF Written
<1> HIDE DEF d
<1>3. /\ d \in Cursor /\ d.exists /\ d.forward = v.forward /\ d.backward = v.backward
      /\ d.scan = NoScan
  BY <1>1, <1>2 DEF Cursor
<1> HIDE DEF v
<1>4. /\ Issued({}, "forward") = {} /\ Issued({}, "backward") = {} /\ Issued({}, "scan") = {}
      /\ Issued({}, "seed") = {}
  BY DEF Issued
<1>5. /\ Forwards(d, {}) = {d.forward} /\ Behind(d, {}) = {d.backward} /\ Scans(d, {}) = {NoScan}
      /\ Backwards(d, {}, Idle) = {d.backward} \cup {None} /\ Windows(d, {}, Idle) = {NoScan}
  BY <1>3, <1>4, IdleTyped DEF Forwards, Behind, Scans, Backwards, Windows
<1>6. Setting(d.forward, {d.forward}, {d.backward}, {NoScan}, y)
  <2>1. {} \subseteq Issue
    OBVIOUS
  <2>2. Setting(d.forward, Forwards(d, {}), Behind(d, {}), Scans(d, {}), y)
    BY <1>3, <2>1, SettingHolds
  <2> QED
    BY <1>5, <2>2
<1>7. Kept(d.forward, {d.forward}, {d.backward}, {NoScan}, y)
  <2>1. ASSUME v.exists, NEW w \in y.left PROVE Ahead(w, {d.forward}, {NoScan}, y)
    <3>1. y.arrived[w] >= y.now /\ y.arrived[w] \in Nat /\ y.now \in Nat
      BY <2>1 DEF WorldOK, Onward, v
    <3> QED
      BY <1>1, <1>3, <3>1, IdleTyped DEF Ahead, Cursor, Stamp, None
  <2> QED
    <3>1. y.now \in Nat
      BY DEF WorldOK
    <3>2. \A w \in y.left : Never(d.backward) \/ Ahead(w, {d.forward}, {NoScan}, y)
      BY <1>1, <1>3, <2>1
    <3>3. Never(d.forward) => Never(d.backward)
      BY <1>1, <1>3
    <3>4. \A win \in {NoScan} : win.floor = 0 /\ win.through = 0 /\ win.nextUntil = 0
      BY IdleTyped
    <3>5. d.forward <= y.now /\ d.backward <= y.now
      BY <1>1, <1>3
    <3>6. \A win \in {NoScan} : win.floor = win.through /\ win.through <= y.now
                                /\ win.floor <= y.now /\ win.nextUntil <= y.now
      BY <3>1, <3>4
    <3> HIDE DEF Never
    <3> QED
      BY <3>2, <3>3, <3>5, <3>6 DEF Kept
<1>8. Sound(d, {}, Idle, y)
  <2>1. Kept(d.forward, {d.forward}, {d.backward} \cup {None}, {NoScan}, y)
    BY <1>6, <1>7, KeptShrinks
  <2> QED
    BY <1>3, <1>4, <1>5, <2>1, IdleTyped DEF Sound
<1>9. ASSUME t.pc = "write", t.issue = NoWrite
      PROVE  Outcome(d.forward, {d.forward}, {d.backward}, {NoScan}, Planned(d, t), y)
  <2>1. Within(t, {d.forward}, {NoScan}, y)
    BY <1>1, <1>3, <1>9, IdleTyped DEF Within, PassState
  <2> QED
    BY <1>1, <1>3, <1>6, <1>7, <1>9, <2>1, PlannedGoes
<1> QED
  BY <1>1, <1>3, <1>5, <1>8, <1>9 DEF d

LEMMA StartedGoes ==
  ASSUME NEW c \in Cursor, NEW Q, Q \subseteq Issue, NEW x, WorldOK(x), Sound(c, Q, Idle, x),
         c.exists, NEW t \in PassState, t.issue = NoWrite, ~ t.deep, t.through = x.now, t.until = 0
  PROVE  Outcome(c.forward, Forwards(c, Q), Behind(c, Q), Scans(c, Q), Planned(c, t), x)
<1>1. Setting(c.forward, Forwards(c, Q), Behind(c, Q), Scans(c, Q), x)
  BY SettingHolds
<1>2. Setting(c.forward, Forwards(c, Q), Backwards(c, Q, Idle), Windows(c, Q, Idle), x)
  BY <1>1, IdleTyped DEF Setting, Behind, Scans, Backwards, Windows, Stamp
<1>3. Kept(c.forward, Forwards(c, Q), Behind(c, Q), Scans(c, Q), x)
  <2>1. Behind(c, Q) \subseteq Backwards(c, Q, Idle) /\ Scans(c, Q) \subseteq Windows(c, Q, Idle)
    BY DEF Behind, Scans, Backwards, Windows
  <2> QED
    BY <1>2, <2>1, KeptShrinks DEF Sound, Forwards
<1>4. Within(t, Forwards(c, Q), Scans(c, Q), x)
  BY <1>3 DEF Within, Kept, WorldOK
<1>5. c.backward \in Behind(c, Q) /\ c.scan \in Scans(c, Q)
  BY DEF Behind, Scans
<1>6. t.until <= x.now
  BY DEF WorldOK
<1> QED
  BY <1>1, <1>3, <1>4, <1>5, <1>6, PlannedGoes

LEMMA SeedAwaited ==
  ASSUME NEW c \in Cursor, NEW Q, Q \subseteq Issue, NEW x, WorldOK(x), Sound(c, Q, Idle, x),
         ~ c.exists, NEW t \in PassState, t.pc = "write", t.then = "planned", ~ t.deep,
         t.through = x.now, t.window = NoScan, t.back = None, t.until = 0,
         NEW Q2, \A p \in Q2 : p \in Q \/ (p.kind = "seed" /\ Heritage(p.value, Idle, x))
  PROVE  Sound(c, Q2, t, x)
<1>1. x.now <= x.now /\ 0 <= x.now
  BY DEF WorldOK
<1> QED
  BY <1>1 DEF Sound, Fresh, Heritage

-----------------------------------------------------------------------------
(* The queue of writes. *)
Entry(ws, i) == [kind |-> ws[i].kind, value |-> ws[i].value]

LEMMA PendingIs ==
  ASSUME NEW ws, NEW r, NEW p
  PROVE  p \in PendingOf(ws, r) <=>
           \E i \in 1..Len(ws) : ws[i].relay = r /\ p = Entry(ws, i)
BY DEF PendingOf, Entry

LEMMA EntryTyped ==
  ASSUME NEW ws \in Seq(Write), NEW i \in 1..Len(ws)
  PROVE  /\ ws[i] \in Write /\ Entry(ws, i) \in Issue
         /\ Entry(ws, i).kind = ws[i].kind /\ Entry(ws, i).value = ws[i].value
<1>1. ws[i] \in Write
  OBVIOUS
<1> QED
  BY <1>1 DEF Entry, Write, Issue

LEMMA PendingTyped ==
  ASSUME NEW ws \in Seq(Write), NEW r
  PROVE  PendingOf(ws, r) \subseteq Issue
BY PendingIs, EntryTyped

NoneMine(ws, r) == \A i \in 1..Len(ws) : ws[i].relay = r => ~ ws[i].mine
NoSeed(ws, r) == \A i \in 1..Len(ws) : ws[i].relay = r => ws[i].kind # "seed"

LEMMA Appended ==
  ASSUME NEW ws \in Seq(Write), NEW e \in Write
  PROVE  LET vs == Append(ws, e) IN
         /\ vs \in Seq(Write) /\ Len(vs) = Len(ws) + 1 /\ vs[Len(vs)] = e
         /\ \A i \in 1..Len(ws) : vs[i] = ws[i]
         /\ \A i \in 1..Len(vs) : i \in 1..Len(ws) \/ i = Len(vs)
         /\ 1..Len(ws) \subseteq 1..Len(vs) /\ Len(vs) \in 1..Len(vs)
         /\ Len(vs) \notin 1..Len(ws)
OBVIOUS

LEMMA Shortened ==
  ASSUME NEW ws \in Seq(Write), ws # <<>>
  PROVE  LET vs == Tail(ws) IN
         /\ vs \in Seq(Write) /\ Len(vs) = Len(ws) - 1 /\ 1 \in 1..Len(ws) /\ Head(ws) = ws[1]
         /\ \A i \in 1..Len(vs) : i + 1 \in 1..Len(ws) /\ vs[i] = ws[i + 1] /\ i + 1 # 1
         /\ \A i \in 1..Len(ws) : i = 1 \/ i - 1 \in 1..Len(vs)
OBVIOUS

LEMMA AppendedQueue ==
  ASSUME NEW ws \in Seq(Write), NEW e \in Write, NEW vs, vs = Append(ws, e), NEW q, NEW t,
         Single(ws, q), NEW u,
         IF q = e.relay THEN /\ NoneMine(ws, q) /\ u.pc = "write" /\ Matches(u, e)
                             /\ e.kind = "seed" => NoSeed(ws, q)
                        ELSE Claimed(ws, q, t) /\ u = t,
         e.mine
  PROVE  /\ Single(vs, q) /\ Claimed(vs, q, u)
         /\ \A p \in PendingOf(vs, q) :
              p \in PendingOf(ws, q) \/ (q = e.relay /\ p = [kind |-> e.kind, value |-> e.value])
<1>1. /\ Len(vs) = Len(ws) + 1 /\ vs[Len(vs)] = e
      /\ \A i \in 1..Len(ws) : vs[i] = ws[i]
      /\ \A i \in 1..Len(vs) : i \in 1..Len(ws) \/ i = Len(vs)
      /\ 1..Len(ws) \subseteq 1..Len(vs) /\ Len(vs) \in 1..Len(vs)
  BY Appended
<1>2. Single(vs, q)
  BY <1>1 DEF Single, NoneMine, NoSeed
<1>3. Claimed(vs, q, u)
  BY <1>1 DEF Claimed, NoneMine
<1>4. ASSUME NEW p \in PendingOf(vs, q)
      PROVE  p \in PendingOf(ws, q) \/ (q = e.relay /\ p = [kind |-> e.kind, value |-> e.value])
  <2>1. PICK i \in 1..Len(vs) : vs[i].relay = q /\ p = Entry(vs, i)
    BY <1>4 DEF PendingOf, Entry
  <2>2. CASE i \in 1..Len(ws)
    <3>1. ws[i].relay = q /\ p = Entry(ws, i)
      BY <1>1, <2>1, <2>2 DEF Entry
    <3> QED
      BY <2>2, <3>1, PendingIs
  <2>3. CASE i = Len(vs)
    BY <1>1, <2>1, <2>3 DEF Entry
  <2> QED
    BY <1>1, <2>1, <2>2, <2>3
<1> QED
  BY <1>2, <1>3, <1>4

LEMMA TailQueue ==
  ASSUME NEW ws \in Seq(Write), ws # <<>>, NEW vs, vs = Tail(ws), NEW q, NEW t,
         Single(ws, q), Claimed(ws, q, t)
  PROVE  /\ Single(vs, q) /\ PendingOf(vs, q) \subseteq PendingOf(ws, q)
         /\ Entry(ws, 1) \in PendingOf(ws, ws[1].relay)
         /\ ~ (ws[1].relay = q /\ ws[1].mine) => Claimed(vs, q, t)
         /\ ws[1].relay = q /\ ws[1].mine => NoneMine(vs, q)
         /\ ws[1].relay = q /\ ws[1].kind = "seed" => NoSeed(vs, q)
<1>1. /\ Len(vs) = Len(ws) - 1 /\ 1 \in 1..Len(ws) /\ Len(ws) \in Nat
      /\ \A i \in 1..Len(vs) : i + 1 \in 1..Len(ws) /\ vs[i] = ws[i + 1] /\ i + 1 # 1
      /\ \A i \in 1..Len(ws) : i = 1 \/ i - 1 \in 1..Len(vs)
  BY Shortened
<1>2. Single(vs, q)
  <2> SUFFICES ASSUME NEW i \in 1..Len(vs), NEW j \in 1..Len(vs),
                      vs[i].relay = q, vs[j].relay = q,
                      \/ vs[i].mine /\ vs[j].mine
                      \/ vs[i].kind = "seed" /\ vs[j].kind = "seed"
               PROVE  i = j
    BY DEF Single
  <2>1. i + 1 = j + 1
    BY <1>1 DEF Single
  <2> QED
    BY <1>1, <2>1
<1>3. \A p \in PendingOf(vs, q) : p \in PendingOf(ws, q)
  <2> SUFFICES ASSUME NEW p \in PendingOf(vs, q) PROVE p \in PendingOf(ws, q)
    OBVIOUS
  <2>1. PICK i \in 1..Len(vs) : vs[i].relay = q /\ p = Entry(vs, i)
    BY DEF PendingOf, Entry
  <2>2. i + 1 \in 1..Len(ws) /\ ws[i + 1].relay = q /\ p = Entry(ws, i + 1)
    BY <1>1, <2>1 DEF Entry
  <2> QED
    BY <2>2, PendingIs
<1>4. ASSUME ~ (ws[1].relay = q /\ ws[1].mine) PROVE Claimed(vs, q, t)
  <2>1. ASSUME NEW i \in 1..Len(vs), vs[i].relay = q, vs[i].mine
        PROVE  t.pc = "write" /\ Matches(t, vs[i])
    BY <1>1, <2>1 DEF Claimed
  <2>2. ASSUME t.pc = "write" PROVE \E i \in 1..Len(vs) : vs[i].relay = q /\ vs[i].mine
    <3>1. PICK i \in 1..Len(ws) : ws[i].relay = q /\ ws[i].mine
      BY <2>2 DEF Claimed
    <3>2. i - 1 \in 1..Len(vs) /\ (i - 1) + 1 = i
      BY <1>1, <1>4, <3>1
    <3>3. vs[i - 1] = ws[i]
      BY <1>1, <3>2
    <3> QED
      BY <3>1, <3>2, <3>3
  <2> QED
    BY <2>1, <2>2 DEF Claimed
<1>5. /\ ws[1].relay = q /\ ws[1].mine => NoneMine(vs, q)
      /\ ws[1].relay = q /\ ws[1].kind = "seed" => NoSeed(vs, q)
  BY <1>1 DEF Single, NoneMine, NoSeed
<1>6. Entry(ws, 1) \in PendingOf(ws, ws[1].relay)
  BY <1>1, PendingIs
<1> QED
  BY <1>2, <1>3, <1>4, <1>5, <1>6

(* What Go needs of a task: it awaits a write of its own or none. *)
Ready(t) ==
  /\ t \in PassState /\ t.pc \in {"write", "query", "intake", "ended"}
  /\ IF t.pc = "write" THEN t.issue \in Issue /\ Matches(t, t.issue) ELSE t.issue = NoWrite

LEMMA StoredTyped ==
  ASSUME NEW t \in PassState, t.pc # "idle"
  PROVE  LET u == Stored(t) IN
         /\ u \in PassState /\ u.issue = NoWrite /\ u.pc \in Place /\ (u.pc = "idle" => u = Idle)
         /\ u.pc = "idle" <=> t.pc = "ended"
         /\ t.pc # "ended" =>
              /\ u.pc = t.pc /\ u.then = t.then /\ u.deep = t.deep /\ u.window = t.window
              /\ u.through = t.through /\ u.back = t.back /\ u.until = t.until
<1>1. CASE t.pc = "ended"
  BY <1>1, IdleTyped DEF Stored, Place
<1>2. CASE t.pc # "ended"
  <2>1. Stored(t) = [t EXCEPT !.issue = NoWrite]
    BY <1>2 DEF Stored
  <2> QED
    BY <1>2, <2>1 DEF PassState, Place
<1> QED
  BY <1>1, <1>2

LEMMA GoMoves ==
  ASSUME TypeInv, NEW r \in Relay, NEW t, Ready(t), NEW queued \in Seq(Write), Go(r, t, queued),
         \A q \in Relay : Single(queued, q) /\ (q # r => Claimed(queued, q, task[q])),
         NoneMine(queued, r),
         t.pc = "write" /\ t.issue.kind = "seed" => NoSeed(queued, r)
  PROVE  /\ task' = [task EXCEPT ![r] = Stored(t)] /\ task' \in [Relay -> PassState]
         /\ writes' \in Seq(Write) /\ due' \in [Relay -> Request]
         /\ \A q \in Relay :
              /\ Single(writes', q) /\ Claimed(writes', q, task'[q])
              /\ \A p \in PendingOf(writes', q) :
                   p \in PendingOf(queued, q) \/ (q = r /\ t.pc = "write" /\ p = t.issue)
<1>1. /\ task' = [task EXCEPT ![r] = Stored(t)]
      /\ due' = [due EXCEPT ![r] = IF t.pc = "ended" /\ ~ (t.recovered /\ t.back = Done)
                                   THEN "full" ELSE "no"]
      /\ writes' = IF t.issue = NoWrite THEN queued
                   ELSE Append(queued, [relay |-> r, kind |-> t.issue.kind,
                                        value |-> t.issue.value, mine |-> TRUE])
  BY DEF Go, Stored
<1>2. Stored(t) \in PassState /\ t.pc # "idle"
  BY StoredTyped DEF Ready
<1>3. task' \in [Relay -> PassState] /\ due' \in [Relay -> Request]
  BY <1>1, <1>2 DEF TypeInv, Request
<1>4. \A q \in Relay : task'[q] = IF q = r THEN Stored(t) ELSE task[q]
  BY <1>1 DEF TypeInv
<1>5. CASE t.pc # "write"
  <2>1. writes' = queued
    BY <1>1, <1>5 DEF Ready
  <2>2. Claimed(writes', r, task'[r])
    <3>1. task'[r].pc # "write"
      BY <1>2, <1>4, <1>5, StoredTyped DEF Ready
    <3> QED
      BY <2>1, <3>1 DEF Claimed, NoneMine
  <2> QED
    BY <1>1, <1>3, <1>4, <2>1, <2>2
<1>6. CASE t.pc = "write"
  <2> DEFINE e == [relay |-> r, kind |-> t.issue.kind, value |-> t.issue.value, mine |-> TRUE]
  <2>1. t.issue \in Issue /\ Matches(t, t.issue)
    BY <1>6 DEF Ready
  <2>2. e \in Write /\ e.relay = r /\ e.kind = t.issue.kind /\ e.value = t.issue.value /\ e.mine
        /\ t.issue = [kind |-> e.kind, value |-> e.value]
    BY <2>1 DEF Issue, Write
  <2>3. t.issue # NoWrite
    BY <2>1, IdleTyped DEF Issue
  <2>4. writes' = Append(queued, e)
    BY <1>1, <2>3
  <2> HIDE DEF e
  <2>5. task'[r].pc = "write" /\ Matches(task'[r], e)
    <3>1. Stored(t).pc = "write" /\ Stored(t).then = t.then /\ Stored(t).deep = t.deep
          /\ Stored(t).window = t.window
      BY <1>2, <1>6, StoredTyped DEF Ready
    <3>2. task'[r] = Stored(t)
      BY <1>4
    <3> QED
      BY <2>1, <2>2, <3>1, <3>2 DEF Matches
  <2>6. writes' \in Seq(Write)
    BY <2>2, <2>4, Appended
  <2>7. ASSUME NEW q \in Relay
        PROVE  /\ Single(writes', q) /\ Claimed(writes', q, task'[q])
               /\ \A p \in PendingOf(writes', q) :
                    p \in PendingOf(queued, q) \/ (q = r /\ p = t.issue)
    <3>1. IF q = e.relay THEN /\ NoneMine(queued, q) /\ task'[q].pc = "write"
                              /\ Matches(task'[q], e)
                              /\ e.kind = "seed" => NoSeed(queued, q)
                         ELSE Claimed(queued, q, task[q]) /\ task'[q] = task[q]
      BY <1>4, <1>6, <2>2, <2>5
    <3> QED
      BY <2>2, <2>4, <3>1, AppendedQueue
  <2> QED
    BY <1>1, <1>3, <1>6, <2>6, <2>7
<1> QED
  BY <1>5, <1>6

-----------------------------------------------------------------------------
(* Pages: what one leaves out of its range is not newer than where the     *)
(* next page starts.                                                       *)
LEMMA LeastOfNaturals ==
  ASSUME NEW S \in SUBSET Nat, S # {}
  PROVE  Least(S) \in S /\ \A u \in S : Least(S) <= u
<1> DEFINE R == {p \in Nat \X Nat : p[1] < p[2]}
<1>1. IsWellFoundedOn(R, Nat)
  BY NatLessThanWellFounded DEF OpToRel
<1>2. PICK x \in S : \A y \in S : ~ (<<y, x>> \in R)
  BY <1>1, WFMin
<1>3. ASSUME NEW y \in S PROVE x <= y
  <2>1. x \in Nat /\ y \in Nat
    OBVIOUS
  <2>2. ~ y < x
    BY <1>2, <2>1
  <2> QED
    BY <2>1, <2>2
<1> QED
  BY <1>2, <1>3 DEF Least

LEMMA WorldHolds ==
  ASSUME TypeInv, ClockInv, NEW r \in Relay
  PROVE  /\ WorldOK(World(r))
         /\ World(r).left = {w \in Wrap \ taken : Promised(r, w)}
         /\ World(r).arrived = arrived[r] /\ World(r).date = date /\ World(r).now = now
BY DEF TypeInv, ClockInv, WorldOK, World, Promised

LEMMA WorldHoldsAfter ==
  ASSUME TypeInv', ClockInv', NEW r \in Relay
  PROVE  /\ WorldOK(World(r)')
         /\ World(r)'.left = {w \in Wrap \ taken' : Promised(r, w)'}
         /\ World(r)'.arrived = arrived'[r] /\ World(r)'.date = date' /\ World(r)'.now = now'
BY DEF TypeInv, ClockInv, WorldOK, World, Promised

LEMMA OldestOfPage ==
  ASSUME TypeInv, ClockInv, NEW r \in Relay, NEW page \in Partial(r), page # {}
  PROVE  LET oldest == Least({date[w] : w \in page}) IN
         /\ oldest \in Nat /\ 1 <= oldest /\ oldest <= task[r].until
         /\ \A w \in page : oldest <= date[w] /\ date[w] <= task[r].until /\ date[w] \in Nat
         /\ \E w \in page : oldest = date[w]
<1> DEFINE S == {date[w] : w \in page}
<1>1. \A w \in page : w \in Wrap /\ w \in On(r) /\ date[w] <= task[r].until /\ date[w] \in Nat
                      /\ 1 <= date[w]
  BY DEF Partial, InRange, On, TypeInv, ClockInv
<1>2. S \in SUBSET Nat /\ S # {}
  BY <1>1
<1>3. Least(S) \in S /\ \A u \in S : Least(S) <= u
  BY <1>2, LeastOfNaturals
<1> QED
  BY <1>1, <1>3

LEMMA PageReads ==
  ASSUME TypeInv, ClockInv, NEW r \in Relay, NEW page \in Pages(r), NEW w \in Wrap,
         arrived[r][w] # 0, Pageable(r, w), w \notin page,
         task[r].floor <= date[w], date[w] <= task[r].until
  PROVE  page # {} /\ date[w] <= NextUntil(page, task[r].until)
<1> USE HistoryConstants
<1> DEFINE range == InRange(r)
           oldest == Least({date[o] : o \in page})
           same == {o \in On(r) : date[o] = date[w]}
<1>0. /\ task[r].floor \in Nat /\ task[r].until \in Nat /\ date[w] \in Nat
      /\ w \in range /\ IsFiniteSet(On(r)) /\ IsFiniteSet(same)
  <2>1. task[r].floor \in Nat /\ task[r].until \in Nat /\ date[w] \in Nat
    BY DEF TypeInv, PassState
  <2>2. w \in range
    BY <2>1 DEF On, InRange
  <2>3. IsFiniteSet(On(r))
    BY FS_Subset DEF On
  <2> QED
    BY <2>1, <2>2, <2>3, FS_Subset
<1>1. /\ page \subseteq range /\ Cardinality(page) = PageSize /\ page \in Partial(r)
      /\ \A o \in page : date[o] >= date[w]
  BY <1>0 DEF Pages, Partial
<1>2. page # {}
  BY <1>1, FS_EmptySet
<1>3. /\ oldest \in Nat /\ oldest <= task[r].until /\ date[w] <= oldest
      /\ \A o \in page : oldest <= date[o] /\ date[o] <= task[r].until /\ date[o] \in Nat
  BY <1>1, <1>2, OldestOfPage
<1>4. CASE oldest < task[r].until
  BY <1>2, <1>3, <1>4 DEF NextUntil
<1>5. CASE ~ oldest < task[r].until
  <2>1. date[w] # task[r].until
    <3> SUFFICES ASSUME date[w] = task[r].until PROVE FALSE
      OBVIOUS
    <3>1. page \cup {w} \subseteq same
      BY <1>0, <1>1, <1>3, <1>5 DEF InRange
    <3>2. IsFiniteSet(page) /\ Cardinality(page \cup {w}) = PageSize + 1
      <4>1. IsFiniteSet(page)
        BY <1>0, <3>1, FS_Subset
      <4> QED
        BY <1>1, <4>1, FS_AddElement
    <3>3. Cardinality(page \cup {w}) <= Cardinality(same)
      BY <1>0, <3>1, FS_Subset
    <3>4. Cardinality(same) <= PageSize /\ Cardinality(same) \in Nat
      BY <1>0, FS_CardinalityType DEF Pageable
    <3> QED
      BY <3>2, <3>3, <3>4
  <2>2. NextUntil(page, task[r].until) = task[r].until - 1
    BY <1>5 DEF NextUntil
  <2> QED
    BY <1>0, <1>2, <2>1, <2>2
<1> QED
  BY <1>4, <1>5

LEMMA NextUntilTyped ==
  ASSUME TypeInv, ClockInv, NEW r \in Relay, NEW page \in Partial(r), page # {}
  PROVE  /\ NextUntil(page, task[r].until) \in Nat
         /\ NextUntil(page, task[r].until) <= task[r].until
<1>1. task[r].until \in Nat
  BY DEF TypeInv, PassState
<1> QED
  BY <1>1, OldestOfPage DEF NextUntil

(* A relay whose cursor, pass and writes a step leaves alone. *)
LEMMA RelayKept ==
  ASSUME IInv, NEW q \in Relay, WorldOK(World(q)'), Later(World(q), World(q)'),
         NEW Q2, Q2 \subseteq PendingOf(writes, q)
  PROVE  Sound(cursor[q], Q2, task[q], World(q)')
<1>1. /\ cursor[q] \in Cursor /\ task[q] \in PassState /\ PendingOf(writes, q) \subseteq Issue
      /\ WorldOK(World(q)) /\ Sound(cursor[q], PendingOf(writes, q), task[q], World(q))
  BY PendingTyped, WorldHolds DEF IInv, TypeInv, SoundInv
<1>2. Sound(cursor[q], PendingOf(writes, q), task[q], World(q)')
  BY <1>1, SoundLater
<1> QED
  BY <1>1, <1>2, FewerPending

LEMMA GoKeeps ==
  ASSUME IInv, TypeInv', ClockInv', NEW r \in Relay, NEW t, Ready(t),
         NEW queued \in Seq(Write), Go(r, t, queued),
         \A q \in Relay : /\ Single(queued, q)
                          /\ q # r => /\ Claimed(queued, q, task[q])
                                      /\ PendingOf(queued, q) \subseteq PendingOf(writes, q)
                                      /\ cursor'[q] = cursor[q] /\ Later(World(q), World(q)'),
         NoneMine(queued, r),
         t.pc = "write" /\ t.issue.kind = "seed" => NoSeed(queued, r),
         session, r \in ready, UNCHANGED <<session, ready>>,
         \A Q2 : (\A p \in Q2 : p \in PendingOf(queued, r) \/ (t.pc = "write" /\ p = t.issue)) =>
                   Sound(cursor'[r], Q2, Stored(t), World(r)')
  PROVE  LinkInv' /\ SoundInv'
<1>1. /\ task' = [task EXCEPT ![r] = Stored(t)]
      /\ \A q \in Relay :
           /\ Single(writes', q) /\ Claimed(writes', q, task'[q])
           /\ \A p \in PendingOf(writes', q) :
                p \in PendingOf(queued, q) \/ (q = r /\ t.pc = "write" /\ p = t.issue)
  BY GoMoves DEF IInv
<1>2. \A q \in Relay : task'[q] = IF q = r THEN Stored(t) ELSE task[q]
  BY <1>1 DEF IInv, TypeInv
<1>3. LinkInv'
  <2>1. /\ Stored(t).pc \in Place /\ Stored(t).issue = NoWrite
        /\ Stored(t).pc = "idle" => Stored(t) = Idle
    BY StoredTyped DEF Ready
  <2> QED
    BY <1>1, <1>2, <2>1 DEF IInv, LinkInv
<1>4. ASSUME NEW q \in Relay, q # r
      PROVE  Sound(cursor'[q], PendingOf(writes', q), task'[q], World(q)')
  <2>1. /\ PendingOf(writes', q) \subseteq PendingOf(writes, q)
        /\ cursor'[q] = cursor[q] /\ task'[q] = task[q] /\ Later(World(q), World(q)')
    BY <1>1, <1>2, <1>4
  <2>2. WorldOK(World(q)')
    BY WorldHoldsAfter
  <2> QED
    BY <2>1, <2>2, RelayKept
<1>5. Sound(cursor'[r], PendingOf(writes', r), task'[r], World(r)')
  BY <1>1, <1>2
<1> QED
  BY <1>3, <1>4, <1>5 DEF SoundInv

-----------------------------------------------------------------------------
(* The steps, beginning with those that leave passes and cursors alone. *)
LEMMA LaterWorld ==
  ASSUME TypeInv, ClockInv, TypeInv', ClockInv', NEW q \in Relay, now <= now',
         \A w \in Wrap \ taken' : Promised(q, w)' =>
           \/ /\ w \notin taken /\ Promised(q, w)
              /\ arrived'[q][w] = arrived[q][w] /\ date'[w] = date[w]
           \/ arrived'[q][w] >= now
  PROVE  Later(World(q), World(q)')
BY WorldHolds, WorldHoldsAfter DEF Later

LEMMA SameNetwork ==
  ASSUME TypeInv, ClockInv, TypeInv', ClockInv', NEW q \in Relay, UNCHANGED <<date, arrived>>,
         now <= now', seeded'[q] = seeded[q], taken \subseteq taken', missed[q] \subseteq missed'[q]
  PROVE  Later(World(q), World(q)')
<1>1. \A w \in Wrap : Promised(q, w)' => Promised(q, w)
  BY DEF Promised, Pageable, On
<1> QED
  BY <1>1, LaterWorld

LEMMA QuietKeeps ==
  ASSUME IInv, TypeInv', ClockInv', UNCHANGED <<cursor, writes, task>>,
         \A q \in Relay : session /\ q \in ready => session' /\ q \in ready',
         \A q \in Relay : Later(World(q), World(q)')
  PROVE  IInv'
<1>1. LinkInv'
  BY DEF IInv, LinkInv
<1>2. ASSUME NEW q \in Relay
      PROVE  Sound(cursor'[q], PendingOf(writes', q), task'[q], World(q)')
  <2>1. WorldOK(World(q)')
    BY WorldHoldsAfter
  <2>2. Sound(cursor[q], PendingOf(writes, q), task[q], World(q)')
    BY <2>1, RelayKept
  <2> QED
    BY <2>2
<1> QED
  BY <1>1, <1>2 DEF IInv, SoundInv

LEMMA TickKeeps ==
  ASSUME IInv, Tick
  PROVE  IInv'
<1> USE HistoryConstants DEF store, lifecycle
<1>1. TypeInv'
  BY DEF IInv, TypeInv, Tick
<1>2. ClockInv'
  BY DEF IInv, TypeInv, ClockInv, Tick
<1>3. now <= now' /\ taken \subseteq taken' /\ UNCHANGED <<date, arrived, missed, seeded>>
  BY DEF IInv, TypeInv, Tick
<1>4. \A q \in Relay : Later(World(q), World(q)')
  BY <1>1, <1>2, <1>3, SameNetwork DEF IInv
<1> QED
  BY <1>1, <1>2, <1>4, QuietKeeps DEF Tick

LEMMA TakeOtherwiseKeeps ==
  ASSUME IInv, NEW r \in Relay, NEW w \in Wrap, TakeOtherwise(r, w)
  PROVE  IInv'
<1> USE DEF store, lifecycle, network
<1>1. TypeInv'
  BY DEF IInv, TypeInv, TakeOtherwise
<1>2. ClockInv'
  BY DEF IInv, ClockInv, TakeOtherwise
<1>3. now <= now' /\ taken \subseteq taken' /\ UNCHANGED <<date, arrived, missed, seeded>>
  BY DEF IInv, TypeInv, TakeOtherwise
<1>4. \A q \in Relay : Later(World(q), World(q)')
  BY <1>1, <1>2, <1>3, SameNetwork DEF IInv
<1> QED
  BY <1>1, <1>2, <1>4, QuietKeeps DEF TakeOtherwise

LEMMA ArriveKeeps ==
  ASSUME IInv, NEW r \in Relay, NEW w \in Wrap, Arrive(r, w)
  PROVE  IInv'
<1> USE HistoryConstants DEF store, lifecycle
<1>0. /\ TypeInv /\ ClockInv /\ now \in Nat /\ 1 <= now
      /\ taken' = taken /\ seeded' = seeded /\ now' = now /\ missed' = missed
  BY DEF IInv, TypeInv, Arrive
<1>1. \E d \in Nat : /\ 1 <= d /\ d <= now /\ now <= d + Overlap
                     /\ date' = [date EXCEPT ![w] = d] /\ (date[w] = 0 \/ date[w] = d)
  <2>1. CASE date[w] = 0
    BY <1>0, <2>1 DEF Arrive, TypeInv
  <2>2. CASE date[w] # 0
    BY <1>0, <2>2 DEF Arrive, TypeInv, ClockInv
  <2> QED
    BY <2>1, <2>2
<1>2. PICK d \in Nat : /\ 1 <= d /\ d <= now /\ now <= d + Overlap
                       /\ date' = [date EXCEPT ![w] = d] /\ (date[w] = 0 \/ date[w] = d)
  BY <1>1
<1>3. /\ date' \in [Wrap -> Nat] /\ arrived' \in [Relay -> [Wrap -> Nat]]
      /\ date'[w] = d /\ \A o \in Wrap \ {w} : date'[o] = date[o]
      /\ arrived'[r][w] = now
      /\ \A q \in Relay, o \in Wrap : <<q, o>> # <<r, w>> => arrived'[q][o] = arrived[q][o]
  BY <1>0, <1>2 DEF Arrive, TypeInv
<1>4. TypeInv'
  BY <1>0, <1>3 DEF TypeInv, Arrive
<1>5. ClockInv'
  <2>1. \A o \in Wrap : date'[o] <= now'
    BY <1>0, <1>2, <1>3 DEF ClockInv
  <2>2. ASSUME NEW q \in Relay, NEW o \in Wrap, arrived'[q][o] # 0
        PROVE  /\ 1 <= date'[o] /\ date'[o] <= arrived'[q][o]
               /\ arrived'[q][o] <= now' /\ arrived'[q][o] <= date'[o] + Overlap
    <3>1. CASE q = r /\ o = w
      BY <1>0, <1>2, <1>3, <3>1
    <3>2. CASE ~ (q = r /\ o = w)
      <4>1. arrived'[q][o] = arrived[q][o]
        BY <1>3, <3>2
      <4>2. date'[o] = date[o]
        BY <1>0, <1>2, <1>3, <2>2, <4>1 DEF ClockInv
      <4> QED
        BY <1>0, <2>2, <4>1, <4>2 DEF ClockInv
    <3> QED
      BY <3>1, <3>2
  <2> QED
    BY <1>0, <2>1, <2>2 DEF ClockInv
<1>6. ASSUME NEW q \in Relay PROVE Later(World(q), World(q)')
  <2>1. ASSUME NEW o \in Wrap, arrived[q][o] # 0
        PROVE  arrived'[q][o] # 0 /\ date'[o] = date[o]
    BY <1>0, <1>2, <1>3, <2>1 DEF ClockInv
  <2>2. ASSUME NEW o \in Wrap, Promised(q, o)', <<q, o>> # <<r, w>>
        PROVE  Promised(q, o) /\ arrived'[q][o] = arrived[q][o] /\ date'[o] = date[o]
    <3>1. arrived[q][o] # 0 /\ arrived'[q][o] = arrived[q][o] /\ arrived[q][o] >= seeded[q]
      BY <1>0, <1>3, <2>2 DEF Promised
    <3>2. {p \in On(q) : date[p] = date[o]} \subseteq {p \in On(q)' : date'[p] = date'[o]}
      BY <2>1, <3>1 DEF On
    <3>3. IsFiniteSet({p \in On(q)' : date'[p] = date'[o]})
      BY FS_Subset DEF On
    <3>4. /\ Cardinality({p \in On(q) : date[p] = date[o]}) <=
               Cardinality({p \in On(q)' : date'[p] = date'[o]})
          /\ Cardinality({p \in On(q) : date[p] = date[o]}) \in Nat
          /\ Cardinality({p \in On(q)' : date'[p] = date'[o]}) \in Nat
      BY <3>2, <3>3, FS_Subset, FS_CardinalityType
    <3>5. Cardinality({p \in On(q)' : date'[p] = date'[o]}) <= PageSize
      BY <2>2 DEF Promised, Pageable
    <3>6. o \notin missed[q]
      BY <1>0, <2>2 DEF Promised
    <3>7. Pageable(q, o)
      BY <3>4, <3>5, HistoryConstants DEF Pageable
    <3> QED
      BY <2>1, <3>1, <3>6, <3>7 DEF Promised
  <2>3. \A o \in Wrap \ taken' : Promised(q, o)' =>
           \/ /\ o \notin taken /\ Promised(q, o)
              /\ arrived'[q][o] = arrived[q][o] /\ date'[o] = date[o]
           \/ arrived'[q][o] >= now
    BY <1>0, <1>3, <2>2
  <2> QED
    BY <1>0, <1>4, <1>5, <2>3, LaterWorld
<1> QED
  BY <1>4, <1>5, <1>6, QuietKeeps DEF Arrive

LEMMA LifecycleKeeps ==
  ASSUME IInv,
         \/ StartSession \/ EnterBackground \/ EnterForeground
         \/ \E r \in Relay : RelayReady(r) \/ DropRetry(r)
  PROVE  IInv'
<1> USE DEF store, lifecycle, network
<1>1. UNCHANGED <<now, date, arrived, missed, taken, cursor, writes, task, seeded, relays>>
  BY DEF StartSession, EnterBackground, EnterForeground, RelayReady, DropRetry
<1>2. TypeInv'
  <2>1. /\ session' \in BOOLEAN /\ active' \in BOOLEAN /\ requested' \in Request
        /\ due' \in [Relay -> Request] /\ ready' \subseteq relays
    BY DEF IInv, TypeInv, Request, StartSession, EnterBackground, EnterForeground, RelayReady,
           DropRetry
  <2>2. events' \in 0..MaxEvents
    BY HistoryConstants DEF IInv, TypeInv, Event, StartSession, EnterBackground,
       EnterForeground, RelayReady, DropRetry
  <2> QED
    BY <1>1, <2>1, <2>2 DEF IInv, TypeInv
<1>3. ClockInv'
  BY <1>1 DEF IInv, ClockInv
<1>4. \A q \in Relay : Later(World(q), World(q)')
  BY <1>1, <1>2, <1>3, SameNetwork DEF IInv, TypeInv
<1>5. \A q \in Relay : session /\ q \in ready => session' /\ q \in ready'
  BY DEF StartSession, EnterBackground, EnterForeground, RelayReady, DropRetry
<1> QED
  BY <1>1, <1>2, <1>3, <1>4, <1>5, QuietKeeps

LEMMA StoredSame ==
  ASSUME NEW t \in PassState, t.issue = NoWrite, t.pc # "ended"
  PROVE  Stored(t) = t
BY DEF Stored, PassState

(* A step of a pass that is not waiting for a write. *)
LEMMA PassMoves ==
  ASSUME IInv, NEW r \in Relay, NEW t, Ready(t), Go(r, t, writes), task[r].pc # "write",
         session, r \in ready, UNCHANGED <<now, date, arrived>>,
         UNCHANGED <<cursor, seeded, relays, session, active, requested, ready>>,
         missed' \in [Relay -> SUBSET Wrap], \A q \in Relay : missed[q] \subseteq missed'[q],
         taken \subseteq taken', taken' \subseteq Wrap, events' \in 0..MaxEvents,
         t.pc = "write" /\ t.issue.kind = "seed" => NoSeed(writes, r),
         WorldOK(World(r)') /\ Later(World(r), World(r)') =>
           \A Q2 : (\A p \in Q2 : p \in PendingOf(writes, r) \/ (t.pc = "write" /\ p = t.issue)) =>
                     Sound(cursor[r], Q2, Stored(t), World(r)')
  PROVE  IInv'
<1>1. /\ \A q \in Relay : Single(writes, q) /\ Claimed(writes, q, task[q])
      /\ NoneMine(writes, r) /\ writes \in Seq(Write)
  BY DEF IInv, TypeInv, LinkInv, Claimed, NoneMine
<1>2. TypeInv'
  <2>1. task' \in [Relay -> PassState] /\ writes' \in Seq(Write) /\ due' \in [Relay -> Request]
    BY <1>1, GoMoves DEF IInv
  <2> QED
    BY <2>1 DEF IInv, TypeInv
<1>3. ClockInv'
  BY DEF IInv, ClockInv
<1>4. ASSUME NEW q \in Relay PROVE Later(World(q), World(q)')
  <2>1. TypeInv /\ ClockInv /\ now \in Nat
    BY DEF IInv, TypeInv
  <2> HIDE DEF IInv
  <2> QED
    BY <1>2, <1>3, <2>1, SameNetwork
<1>5. WorldOK(World(r)')
  BY <1>2, <1>3, WorldHoldsAfter
<1>6. LinkInv' /\ SoundInv'
  BY <1>1, <1>2, <1>3, <1>4, <1>5, GoKeeps
<1> QED
  BY <1>2, <1>3, <1>6 DEF IInv

LEMMA PassKeeps ==
  ASSUME IInv, NEW r \in Relay, NEW t, Ready(t), Go(r, t, writes), task[r].pc # "write",
         session, r \in ready,
         UNCHANGED <<network, cursor, seeded, relays, session, active, requested, ready>>,
         taken \subseteq taken', taken' \subseteq Wrap, events' \in 0..MaxEvents,
         t.pc = "write" /\ t.issue.kind = "seed" => NoSeed(writes, r),
         WorldOK(World(r)') /\ Later(World(r), World(r)') =>
           \A Q2 : (\A p \in Q2 : p \in PendingOf(writes, r) \/ (t.pc = "write" /\ p = t.issue)) =>
                     Sound(cursor[r], Q2, Stored(t), World(r)')
  PROVE  IInv'
<1>1. /\ UNCHANGED <<now, date, arrived>> /\ missed' \in [Relay -> SUBSET Wrap]
      /\ \A q \in Relay : missed[q] \subseteq missed'[q]
  BY DEF network, IInv, TypeInv
<1> QED
  BY <1>1, PassMoves

LEMMA RelayState ==
  ASSUME IInv, NEW r \in Relay
  PROVE  /\ cursor[r] \in Cursor /\ task[r] \in PassState /\ PendingOf(writes, r) \subseteq Issue
         /\ WorldOK(World(r)) /\ Sound(cursor[r], PendingOf(writes, r), task[r], World(r))
         /\ task[r].issue = NoWrite /\ task[r].pc \in Place
         /\ task[r].pc # "idle" => session /\ r \in ready
         /\ task[r].pc = "idle" => task[r] = Idle
BY PendingTyped, WorldHolds DEF IInv, TypeInv, SoundInv, LinkInv

LEMMA AnswerKeeps ==
  ASSUME IInv, NEW r \in Relay, task[r].pc = "query",
         NEW page \in SUBSET Wrap, NEW until \in Nat, until <= task[r].until,
         NEW result \in {"page", "drained", "interrupted"},
         \A w \in World(r)'.left : task[r].floor <= date[w] /\ date[w] <= task[r].until =>
           w \in page \/ (result # "drained" /\ date[w] <= until),
         NEW u, u = [task[r] EXCEPT !.pc = "intake", !.page = page, !.result = result,
                                    !.until = until],
         Go(r, u, writes), UNCHANGED <<now, date, arrived>>,
         UNCHANGED <<taken, cursor, seeded, relays, session, active, requested, ready>>,
         missed' \in [Relay -> SUBSET Wrap], \A q \in Relay : missed[q] \subseteq missed'[q],
         events' \in 0..MaxEvents
  PROVE  IInv'
<1>1. u \in PassState /\ u.pc = "intake" /\ u.issue = NoWrite
  BY RelayState DEF PassState, Place
<1>2. ASSUME WorldOK(World(r)'), Later(World(r), World(r)')
      PROVE  Sound(cursor[r], PendingOf(writes, r), u, World(r)')
  <2> DEFINE v == [task[r] EXCEPT !.pc = "intake", !.page = page, !.result = result,
                                  !.until = until]
  <2>1. World(r)'.date = date
    BY DEF World
  <2>2. Sound(cursor[r], PendingOf(writes, r), task[r], World(r)')
    BY <1>2, RelayState, SoundLater
  <2>3. PICK x : x = World(r)'
    OBVIOUS
  <2>4. Sound(cursor[r], PendingOf(writes, r), v, x)
    BY <1>2, <2>1, <2>2, <2>3, RelayState, AnsweredSound
  <2>5. u = v
    OBVIOUS
  <2> HIDE DEF v
  <2> QED
    BY <2>3, <2>4, <2>5
<1>3. Ready(u) /\ Stored(u) = u
  BY <1>1, StoredSame DEF Ready
<1>4. ASSUME WorldOK(World(r)'), Later(World(r), World(r)'), NEW Q2,
             \A p \in Q2 : p \in PendingOf(writes, r) \/ (u.pc = "write" /\ p = u.issue)
      PROVE  Sound(cursor[r], Q2, Stored(u), World(r)')
  <2>1. Q2 \subseteq PendingOf(writes, r)
    BY <1>1, <1>4
  <2>2. Sound(cursor[r], PendingOf(writes, r), u, World(r)')
    BY <1>2, <1>4
  <2> QED
    BY <1>1, <1>3, <1>4, <2>1, <2>2, RelayState, FewerPending
<1>5. taken \subseteq taken' /\ taken' \subseteq Wrap
  BY DEF IInv, TypeInv
<1>6. session /\ r \in ready
  BY RelayState
<1> QED
  BY <1>1, <1>3, <1>4, <1>5, <1>6, PassMoves

(* A read that completes, with all there was or with what had come by then.*)
LEMMA CompletedTyped ==
  ASSUME IInv, NEW r \in Relay, NEW page \in Partial(r)
  PROVE  LET t == task[r]
             result == IF page = {} THEN "drained" ELSE "page"
             until == IF page = {} THEN t.until ELSE NextUntil(page, t.until)
         IN  /\ page \in SUBSET Wrap /\ until \in Nat /\ until <= t.until
             /\ Completed(t, page) = [t EXCEPT !.pc = "intake", !.page = page,
                                               !.result = result, !.until = until]
             /\ Completed(t, page).until = until
<1>1. task[r] \in PassState /\ task[r].until \in Nat /\ page \subseteq Wrap
  BY RelayState DEF PassState, Partial, InRange, On
<1>2. page # {} => /\ NextUntil(page, task[r].until) \in Nat
                   /\ NextUntil(page, task[r].until) <= task[r].until
  BY NextUntilTyped DEF IInv
<1> QED
  BY <1>1, <1>2 DEF Completed, PassState

LEMMA QueryAnswersKeeps ==
  ASSUME IInv, NEW r \in Relay, QueryAnswers(r)
  PROVE  IInv'
<1> DEFINE t == task[r]
<1>1. PICK page \in Pages(r) : Go(r, Completed(t, page), writes)
  BY DEF QueryAnswers
<1> DEFINE result == IF page = {} THEN "drained" ELSE "page"
           until == IF page = {} THEN t.until ELSE NextUntil(page, t.until)
           u == Completed(t, page)
<1>2. page \in Partial(r)
  BY DEF Pages
<1>3. /\ page \in SUBSET Wrap /\ until \in Nat /\ until <= t.until
      /\ u = [task[r] EXCEPT !.pc = "intake", !.page = page, !.result = result, !.until = until]
  BY <1>2, CompletedTyped
<1>4. /\ t.pc = "query" /\ events' \in 0..MaxEvents
      /\ UNCHANGED <<now, date, arrived, missed>>
      /\ UNCHANGED <<taken, cursor, seeded, relays, session, active, requested, ready>>
  BY DEF QueryAnswers, Unmoved, lifecycle, network, IInv, TypeInv
<1>5. missed' \in [Relay -> SUBSET Wrap] /\ \A q \in Relay : missed[q] \subseteq missed'[q]
  BY <1>4 DEF IInv, TypeInv
<1>6. ASSUME NEW w \in World(r)'.left, t.floor <= date[w], date[w] <= t.until
      PROVE  w \in page \/ (result # "drained" /\ date[w] <= until)
  <2>1. w \in Wrap /\ arrived[r][w] # 0 /\ Pageable(r, w)
    BY <1>4 DEF World, Promised, Pageable, On
  <2> QED
    BY <1>6, <2>1, PageReads DEF IInv
<1>7. result \in {"page", "drained", "interrupted"}
  OBVIOUS
<1>8. Go(r, u, writes)
  BY <1>1
<1> HIDE DEF result, until, u
<1> QED
  BY <1>3, <1>4, <1>5, <1>6, <1>7, <1>8, AnswerKeeps

LEMMA QueryTimesOutKeeps ==
  ASSUME IInv, NEW r \in Relay, QueryTimesOut(r)
  PROVE  IInv'
<1> DEFINE t == task[r]
           passed(page) == IF page = {} THEN InRange(r)
                           ELSE {w \in InRange(r) : date[w] > Completed(t, page).until}
<1>1. PICK page \in Partial(r) :
        /\ Go(r, Completed(t, page), writes)
        /\ missed' = [missed EXCEPT ![r] = @ \union (passed(page) \ (page \union taken))]
  BY DEF QueryTimesOut
<1> DEFINE result == IF page = {} THEN "drained" ELSE "page"
           until == IF page = {} THEN t.until ELSE NextUntil(page, t.until)
           u == Completed(t, page)
<1>3. /\ page \in SUBSET Wrap /\ until \in Nat /\ until <= t.until /\ u.until = until
      /\ u = [task[r] EXCEPT !.pc = "intake", !.page = page, !.result = result, !.until = until]
  BY <1>1, CompletedTyped
<1>4. /\ t.pc = "query" /\ events' \in 0..MaxEvents
      /\ UNCHANGED <<now, date, arrived>>
      /\ UNCHANGED <<taken, cursor, seeded, relays, session, active, requested, ready>>
  BY DEF QueryTimesOut, lifecycle, IInv, TypeInv
<1>5. /\ missed' \in [Relay -> SUBSET Wrap] /\ \A q \in Relay : missed[q] \subseteq missed'[q]
      /\ missed'[r] = missed[r] \union (passed(page) \ (page \union taken))
  <2>1. missed \in [Relay -> SUBSET Wrap] /\ passed(page) \subseteq Wrap
    BY DEF IInv, TypeInv, InRange, On
  <2> HIDE DEF passed
  <2> QED
    BY <1>1, <2>1
<1>6. ASSUME NEW w \in World(r)'.left, t.floor <= date[w], date[w] <= t.until
      PROVE  w \in page \/ (result # "drained" /\ date[w] <= until)
  <2>1. w \in Wrap /\ arrived[r][w] # 0 /\ w \notin taken /\ w \notin missed'[r]
    BY <1>4 DEF World, Promised
  <2>2. w \in InRange(r)
    BY <1>6, <2>1 DEF InRange, On, IInv, TypeInv, PassState
  <2>3. w \in page \/ w \notin passed(page)
    BY <1>5, <2>1
  <2>4. date[w] \in Nat
    BY <2>1 DEF IInv, TypeInv
  <2> QED
    BY <1>3, <2>2, <2>3, <2>4
<1>7. result \in {"page", "drained", "interrupted"}
  OBVIOUS
<1>8. Go(r, u, writes)
  BY <1>1
<1> HIDE DEF result, until, u
<1> QED
  BY <1>3, <1>4, <1>5, <1>6, <1>7, <1>8, AnswerKeeps

LEMMA QueryFailsKeeps ==
  ASSUME IInv, NEW r \in Relay, QueryFails(r)
  PROVE  IInv'
<1> DEFINE t == task[r]
<1>1. PICK some \in Partial(r) :
        Go(r, [t EXCEPT !.pc = "intake", !.page = some, !.result = "interrupted"], writes)
  BY DEF QueryFails
<1>2. t \in PassState /\ t.until \in Nat /\ some \in SUBSET Wrap
  BY <1>1, RelayState DEF PassState, Partial, InRange, On
<1> DEFINE u == [t EXCEPT !.pc = "intake", !.page = some, !.result = "interrupted"]
<1>3. u = [task[r] EXCEPT !.pc = "intake", !.page = some, !.result = "interrupted",
                          !.until = t.until]
  BY <1>2 DEF PassState
<1>4. Go(r, u, writes)
  BY <1>1
<1>5. /\ t.pc = "query" /\ events' \in 0..MaxEvents
      /\ UNCHANGED <<now, date, arrived, missed>>
      /\ UNCHANGED <<taken, cursor, seeded, relays, session, active, requested, ready>>
  BY HistoryConstants DEF QueryFails, Event, network, IInv, TypeInv
<1>6. missed' \in [Relay -> SUBSET Wrap] /\ \A q \in Relay : missed[q] \subseteq missed'[q]
  BY <1>5 DEF IInv, TypeInv
<1>7. /\ t.until <= t.until
      /\ \A w \in World(r)'.left : t.floor <= date[w] /\ date[w] <= t.until =>
           w \in some \/ ("interrupted" # "drained" /\ date[w] <= t.until)
  BY <1>2
<1> HIDE DEF u
<1> QED
  BY <1>2, <1>3, <1>4, <1>5, <1>6, <1>7, AnswerKeeps

LEMMA IntakeKeeps ==
  ASSUME IInv, NEW r \in Relay, Intake(r)
  PROVE  IInv'
<1> USE DEF network, Unmoved, lifecycle
<1>1. PICK w \in task[r].page : /\ taken' = taken \cup {w}
                                /\ Go(r, [task[r] EXCEPT !.page = @ \ {w}], writes)
  BY DEF Intake
<1> DEFINE u == [task[r] EXCEPT !.page = @ \ {w}]
<1>2. /\ task[r].pc = "intake" /\ w \in Wrap /\ taken \subseteq taken' /\ taken' \subseteq Wrap
      /\ UNCHANGED <<network, cursor, seeded, relays, session, active, requested, ready, events>>
      /\ events' \in 0..MaxEvents
  BY <1>1, RelayState DEF Intake, PassState, IInv, TypeInv
<1>3. u \in PassState /\ u.pc = "intake" /\ u.issue = NoWrite
  BY <1>2, RelayState DEF PassState
<1>4. Go(r, u, writes)
  BY <1>1
<1>5. ASSUME WorldOK(World(r)') PROVE Sound(cursor[r], PendingOf(writes, r), u, World(r)')
  <2>1. /\ World(r)'.left = World(r).left \ {w} /\ World(r)'.arrived = World(r).arrived
        /\ World(r)'.date = World(r).date /\ World(r)'.now = World(r).now
    BY <1>1, <1>2 DEF World, Promised, Pageable, On
  <2> QED
    BY <1>2, <1>5, <2>1, RelayState, SoundTaken
<1> HIDE DEF u
<1>6. Ready(u) /\ Stored(u) = u
  BY <1>3, StoredSame DEF Ready
<1>7. ASSUME WorldOK(World(r)'), NEW Q2,
             \A p \in Q2 : p \in PendingOf(writes, r) \/ (u.pc = "write" /\ p = u.issue)
      PROVE  Sound(cursor[r], Q2, Stored(u), World(r)')
  <2>1. Q2 \subseteq PendingOf(writes, r)
    BY <1>3, <1>7
  <2> QED
    BY <1>3, <1>5, <1>6, <1>7, <2>1, RelayState, FewerPending
<1>8. session /\ r \in ready
  BY <1>2, RelayState
<1> QED
  BY <1>2, <1>3, <1>4, <1>6, <1>7, <1>8, PassKeeps

LEMMA OutcomeReady ==
  ASSUME NEW fwd, NEW F, NEW B, NEW W, NEW t, NEW x, Outcome(fwd, F, B, W, t, x)
  PROVE  Ready(t) /\ (t.pc = "write" => t.issue.kind # "seed")
BY DEF Outcome, Ready, Matches

(* A step of a pass that goes on, or ends, as the cursor allows. *)
LEMMA OutcomeKeeps ==
  ASSUME IInv, NEW r \in Relay, task[r].pc # "write", session, r \in ready, cursor[r].exists,
         NEW t, Go(r, t, writes),
         LET c == cursor[r] Q == PendingOf(writes, r) IN
           Outcome(c.forward, Forwards(c, Q), Behind(c, Q), Scans(c, Q), t, World(r)),
         Unmoved, UNCHANGED taken
  PROVE  IInv'
<1> USE DEF network, Unmoved, lifecycle
<1>1. Ready(t) /\ (t.pc = "write" => t.issue.kind # "seed")
  BY OutcomeReady
<1>2. World(r)' = World(r)
  BY DEF World, Promised, Pageable, On
<1>3. ASSUME NEW Q2,
             \A p \in Q2 : p \in PendingOf(writes, r) \/ (t.pc = "write" /\ p = t.issue)
      PROVE  Sound(cursor[r], Q2, Stored(t), World(r)')
  <2>1. Issued(PendingOf(writes, r), "seed") = {}
    BY RelayState DEF Sound
  <2>2. Sound(cursor[r], Q2, Stored(t), World(r))
    BY <1>3, <2>1, RelayState, OutcomeSound
  <2> QED
    BY <1>2, <2>2
<1>4. taken' \subseteq Wrap /\ taken \subseteq taken' /\ events' \in 0..MaxEvents
  BY DEF IInv, TypeInv
<1> QED
  BY <1>1, <1>3, <1>4, PassKeeps

LEMMA IntakeDoneKeeps ==
  ASSUME IInv, NEW r \in Relay, IntakeDone(r)
  PROVE  IInv'
<1> DEFINE t == task[r]
<1>1. PICK u : /\ \/ t.result = "page" /\ u = Checkpointed(t)
                  \/ t.result = "drained" /\ u = Drained(t)
                  \/ t.result = "interrupted" /\ u = IF t.deep THEN [t EXCEPT !.pc = "ended"]
                                                     ELSE Deepened(t)
               /\ Go(r, u, writes)
  BY DEF IntakeDone
<1>2. t.pc = "intake" /\ t.page = {} /\ Unmoved /\ UNCHANGED taken
  BY DEF IntakeDone
<1> HIDE DEF t
<1>3. LET c == cursor[r] Q == PendingOf(writes, r) IN
        c.exists /\ Outcome(c.forward, Forwards(c, Q), Behind(c, Q), Scans(c, Q), u, World(r))
  BY <1>1, <1>2, RelayState, IntakeDoneGoes DEF t
<1> QED
  BY <1>1, <1>2, <1>3, RelayState, OutcomeKeeps DEF t

(* A pass that begins. *)
Begun(r) == [Idle EXCEPT !.through = now, !.skip = due[r] = "recent"]

LEMMA BegunTyped ==
  ASSUME IInv, NEW r \in Relay
  PROVE  LET t == Begun(r) IN
         /\ t \in PassState /\ t.issue = NoWrite /\ ~ t.deep /\ t.through = World(r).now
         /\ t.window = NoScan /\ t.back = None /\ t.pc = "idle" /\ t.through = now /\ t.until = 0
<1>1. now \in Nat /\ World(r).now = now
  BY DEF IInv, TypeInv, World
<1>2. (due[r] = "recent") \in BOOLEAN
  OBVIOUS
<1> QED
  BY <1>1, <1>2, IdleTyped DEF Begun, PassState

LEMMA InheritedTyped ==
  ASSUME IInv, NEW r \in Relay, NEW c \in Inheritable
  PROVE  LET v == [c EXCEPT !.scan = NoScan] IN v \in Cursor /\ Heritage(v, Idle, World(r))
<1> DEFINE v == [c EXCEPT !.scan = NoScan]
<1>0. now \in Nat /\ World(r).now = now
  BY DEF IInv, TypeInv, World
<1>1. /\ c \in Cursor /\ c.forward <= now /\ c.backward <= now
      /\ (Never(c.forward) \/ ~ c.exists) => Never(c.backward)
  <2>1. CASE c = NoCursor
    BY <1>0, <2>1, IdleTyped DEF NoCursor, Cursor, Stamp, Never, None
  <2>2. CASE c # NoCursor
    <3>1. PICK s \in Relay : c = cursor[s] /\ cursor[s].exists
      BY <2>2 DEF Inheritable
    <3>2. Kept(c.forward, Forwards(c, PendingOf(writes, s)),
               Backwards(c, PendingOf(writes, s), task[s]),
               Windows(c, PendingOf(writes, s), task[s]), World(s))
      BY <3>1, RelayState DEF Sound
    <3>3. World(s).now = now
      BY DEF World
    <3> QED
      BY <3>1, <3>2, <3>3, RelayState DEF Kept, Forwards, Backwards
  <2> QED
    BY <2>1, <2>2
<1>2. /\ v \in Cursor /\ v.scan = NoScan /\ v.forward = c.forward /\ v.backward = c.backward
      /\ v.exists = c.exists
  BY <1>1, IdleTyped DEF Cursor
<1> HIDE DEF v
<1>3. Heritage(v, Idle, World(r))
  BY <1>0, <1>1, <1>2, IdleTyped DEF Heritage
<1> QED
  BY <1>2, <1>3 DEF v

LEMMA StartSeedKeeps ==
  ASSUME IInv, NEW r \in Relay, task[r].pc = "idle", session, r \in ready, ~ cursor[r].exists,
         NoSeed(writes, r), NEW c \in Inheritable,
         Go(r, Awaiting(Begun(r), "seed", [c EXCEPT !.scan = NoScan], "planned"), writes),
         Unmoved, UNCHANGED taken
  PROVE  IInv'
<1> USE DEF network, Unmoved, lifecycle
<1> DEFINE v == [c EXCEPT !.scan = NoScan]
           t == Awaiting(Begun(r), "seed", v, "planned")
<1>1. v \in Cursor /\ Heritage(v, Idle, World(r))
  BY InheritedTyped
<1>2. Go(r, t, writes)
  OBVIOUS
<1> HIDE DEF v
<1>3. /\ t \in PassState /\ t.pc = "write" /\ t.then = "planned" /\ t.issue \in Issue
      /\ t.issue.kind = "seed" /\ t.issue.value = v /\ ~ t.deep /\ t.through = World(r).now
      /\ t.window = NoScan /\ t.back = None /\ t.until = 0
  BY <1>1, BegunTyped, Awaited
<1> HIDE DEF t
<1>4. Ready(t)
  BY <1>3 DEF Ready, Matches
<1>5. /\ Stored(t) \in PassState /\ Stored(t).pc = "write" /\ Stored(t).then = "planned"
      /\ ~ Stored(t).deep /\ Stored(t).through = World(r).now /\ Stored(t).window = NoScan
      /\ Stored(t).back = None /\ Stored(t).until = 0
  BY <1>3, StoredTyped
<1>6. World(r)' = World(r)
  BY DEF World, Promised, Pageable, On
<1>7. ASSUME NEW Q2,
             \A p \in Q2 : p \in PendingOf(writes, r) \/ (t.pc = "write" /\ p = t.issue)
      PROVE  Sound(cursor[r], Q2, Stored(t), World(r)')
  <2>1. \A p \in Q2 : p \in PendingOf(writes, r)
                      \/ (p.kind = "seed" /\ Heritage(p.value, Idle, World(r)))
    BY <1>1, <1>3, <1>7
  <2>2. Sound(cursor[r], PendingOf(writes, r), Idle, World(r))
    BY RelayState
  <2>3. Sound(cursor[r], Q2, Stored(t), World(r))
    BY <1>5, <2>1, <2>2, RelayState, SeedAwaited
  <2> QED
    BY <1>6, <2>3
<1>8. taken' \subseteq Wrap /\ taken \subseteq taken' /\ events' \in 0..MaxEvents
  BY DEF IInv, TypeInv
<1> QED
  BY <1>2, <1>4, <1>7, <1>8, PassKeeps

LEMMA ListIsSequence ==
  ASSUME NEW S, NEW n \in Nat, NEW f \in [1..n -> S]
  PROVE  f \in Seq(S) /\ Len(f) = n
OBVIOUS

(* A pass that shares a seed on its way. *)
LEMMA SharedQueue ==
  ASSUME IInv, NEW r \in Relay, task[r].pc = "idle", NEW seeds,
         seeds = {i \in 1..Len(writes) : writes[i].relay = r /\ writes[i].kind = "seed"},
         NEW k \in seeds, NEW vs,
         vs = [i \in 1..Len(writes) |->
                 IF i \in seeds THEN [writes[i] EXCEPT !.mine = TRUE] ELSE writes[i]],
         NEW t, t.pc = "write", t.then = "planned", ~ t.deep
  PROVE  /\ vs \in Seq(Write) /\ \A q \in Relay : PendingOf(vs, q) = PendingOf(writes, q)
         /\ \A q \in Relay : Single(vs, q)
         /\ \A q \in Relay : Claimed(vs, q, IF q = r THEN t ELSE task[q])
<1>1. writes \in Seq(Write) /\ \A i \in 1..Len(writes) : writes[i] \in Write
  BY DEF IInv, TypeInv
<1>2. \A i \in 1..Len(writes) :
        /\ vs[i] \in Write /\ vs[i].relay = writes[i].relay /\ vs[i].kind = writes[i].kind
        /\ vs[i].value = writes[i].value
        /\ vs[i].mine = (i \in seeds \/ writes[i].mine)
  BY <1>1 DEF Write
<1>3. vs \in Seq(Write) /\ Len(vs) = Len(writes)
  <2>1. DOMAIN vs = 1..Len(writes) /\ Len(writes) \in Nat
    BY <1>1
  <2>2. vs \in [1..Len(writes) -> Write]
    BY <1>2, <2>1
  <2> QED
    BY <2>1, <2>2, ListIsSequence
<1> HIDE DEF IInv
<1>4. ASSUME NEW q PROVE PendingOf(vs, q) = PendingOf(writes, q)
  BY <1>2, <1>3 DEF PendingOf
<1>5. \A i \in 1..Len(writes) : writes[i].relay = r => ~ writes[i].mine
  BY DEF IInv, LinkInv, Claimed
<1>6. ASSUME NEW q \in Relay PROVE Single(vs, q)
  <2>1. Single(writes, q)
    BY DEF IInv, LinkInv
  <2> QED
    BY <1>2, <1>3, <1>5, <2>1 DEF Single
<1>7. ASSUME NEW q \in Relay PROVE Claimed(vs, q, IF q = r THEN t ELSE task[q])
  <2>1. CASE q = r
    BY <1>2, <1>3, <1>5, <2>1 DEF Claimed, Matches
  <2>2. CASE q # r
    <3>1. Claimed(writes, q, task[q])
      BY DEF IInv, LinkInv
    <3>2. \A i \in 1..Len(writes) : writes[i].relay = q => vs[i].mine = writes[i].mine
      BY <1>1, <1>2, <2>2 DEF Write
    <3> QED
      BY <1>2, <1>3, <2>2, <3>1, <3>2 DEF Claimed, Matches
  <2> QED
    BY <2>1, <2>2
<1> QED
  BY <1>3, <1>4, <1>6, <1>7

LEMMA StartPassKeeps ==
  ASSUME IInv, NEW r \in Relay, StartPass(r)
  PROVE  IInv'
<1> USE DEF network, Unmoved, lifecycle
<1> DEFINE t == Begun(r)
           seeds == {i \in 1..Len(writes) : writes[i].relay = r /\ writes[i].kind = "seed"}
           shared == [i \in 1..Len(writes) |->
                        IF i \in seeds THEN [writes[i] EXCEPT !.mine = TRUE] ELSE writes[i]]
           u == [t EXCEPT !.pc = "write", !.then = "planned"]
<1>1. /\ task[r].pc = "idle" /\ session /\ r \in ready
      /\ UNCHANGED <<network, lifecycle, cursor, seeded, taken>>
      /\ \/ cursor[r].exists /\ Go(r, Planned(cursor[r], t), writes)
         \/ /\ ~ cursor[r].exists /\ seeds = {}
            /\ \E c \in Inheritable :
                 Go(r, Awaiting(t, "seed", [c EXCEPT !.scan = NoScan], "planned"), writes)
         \/ ~ cursor[r].exists /\ seeds # {} /\ Go(r, u, shared)
  BY DEF StartPass, Begun
<1>2. CASE cursor[r].exists /\ Go(r, Planned(cursor[r], t), writes)
  <2>1. Sound(cursor[r], PendingOf(writes, r), Idle, World(r))
    BY <1>1, RelayState
  <2>2. t \in PassState /\ t.issue = NoWrite /\ ~ t.deep /\ t.through = World(r).now /\ t.until = 0
    BY BegunTyped
  <2> HIDE DEF t
  <2>3. LET c == cursor[r] Q == PendingOf(writes, r) IN
        Outcome(c.forward, Forwards(c, Q), Behind(c, Q), Scans(c, Q), Planned(c, t), World(r))
    BY <1>2, <2>1, <2>2, RelayState, StartedGoes
  <2> QED
    BY <1>1, <1>2, <2>3, OutcomeKeeps
<1>3. CASE /\ ~ cursor[r].exists /\ seeds = {}
           /\ \E c \in Inheritable :
                Go(r, Awaiting(t, "seed", [c EXCEPT !.scan = NoScan], "planned"), writes)
  <2>1. NoSeed(writes, r)
    BY <1>3 DEF NoSeed
  <2> QED
    BY <1>1, <1>3, <2>1, StartSeedKeeps
<1>4. CASE ~ cursor[r].exists /\ seeds # {} /\ Go(r, u, shared)
  <2>1. /\ u \in PassState /\ u.pc = "write" /\ u.then = "planned" /\ ~ u.deep
        /\ u.issue = NoWrite /\ u.through = World(r).now /\ u.window = NoScan /\ u.back = None
        /\ u.until = 0
    BY BegunTyped DEF PassState, Place
  <2>2. PICK k : k \in seeds
    BY <1>4
  <2>3. Go(r, u, shared)
    BY <1>4
  <2> DEFINE vs == shared
  <2>4. /\ vs \in Seq(Write) /\ \A q \in Relay : PendingOf(vs, q) = PendingOf(writes, q)
        /\ \A q \in Relay : Single(vs, q)
        /\ \A q \in Relay : Claimed(vs, q, IF q = r THEN u ELSE task[q])
    <3> HIDE DEF u
    <3> QED
      BY <1>1, <2>1, <2>2, SharedQueue
  <2> HIDE DEF u, shared, seeds, t
  <2>5. task' = [task EXCEPT ![r] = u] /\ writes' = vs /\ due' = [due EXCEPT ![r] = "no"]
    <3>1. [u EXCEPT !.issue = NoWrite] = u
      BY <2>1 DEF PassState
    <3> QED
      BY <2>1, <2>3, <3>1 DEF Go
  <2>6. \A q \in Relay : task'[q] = IF q = r THEN u ELSE task[q]
    BY <2>5 DEF IInv, TypeInv
  <2>7. TypeInv'
    <3>1. task' \in [Relay -> PassState] /\ due' \in [Relay -> Request]
      BY <2>1, <2>5 DEF IInv, TypeInv, Request
    <3>2. writes' \in Seq(Write)
      BY <2>4, <2>5
    <3> QED
      BY <1>1, <3>1, <3>2 DEF IInv, TypeInv
  <2>8. ClockInv'
    BY <1>1 DEF IInv, ClockInv
  <2>9. LinkInv'
    <3>1. \A q \in Relay : Single(writes', q) /\ Claimed(writes', q, task'[q])
      BY <2>4, <2>5, <2>6
    <3> QED
      BY <1>1, <2>1, <2>6, <3>1 DEF IInv, LinkInv, Place
  <2>10. SoundInv'
    <3> SUFFICES ASSUME NEW q \in Relay
                 PROVE  Sound(cursor'[q], PendingOf(writes', q), task'[q], World(q)')
      BY DEF SoundInv
    <3>1. World(q)' = World(q) /\ PendingOf(writes', q) = PendingOf(writes, q)
          /\ cursor'[q] = cursor[q]
      BY <1>1, <2>4, <2>5 DEF World, Promised, Pageable, On
    <3>2. CASE q = r
      <4>1. Sound(cursor[r], PendingOf(writes, r), Idle, World(r))
        BY <1>1, RelayState
      <4>2. Sound(cursor[r], PendingOf(writes, r), u, World(r))
        BY <1>4, <2>1, <4>1, RelayState, SeedAwaited
      <4> QED
        BY <2>6, <3>1, <3>2, <4>2
    <3>3. CASE q # r
      BY <2>6, <3>1, <3>3, RelayState
    <3> QED
      BY <3>2, <3>3
  <2> QED
    BY <2>7, <2>8, <2>9, <2>10 DEF IInv
<1> HIDE DEF t, u, shared, seeds
<1> QED
  BY <1>1, <1>2, <1>3, <1>4

(* The write at the head of the queue. *)
LEMMA HeadWrite ==
  ASSUME IInv, writes # <<>>, NEW w, w = writes[1], NEW r, r = w.relay,
         NEW vs, vs = Tail(writes)
  PROVE  /\ r \in Relay /\ w \in Write /\ vs \in Seq(Write) /\ Head(writes) = w
         /\ \A q \in Relay :
              /\ Single(vs, q) /\ PendingOf(vs, q) \subseteq PendingOf(writes, q)
              /\ ~ (q = r /\ w.mine) => Claimed(vs, q, task[q])
         /\ w.mine => NoneMine(vs, r) /\ task[r].pc = "write" /\ Matches(task[r], w)
         /\ w.kind = "seed" => NoSeed(vs, r)
         /\ Entry(writes, 1) \in PendingOf(writes, r)
         /\ Entry(writes, 1).kind = w.kind /\ Entry(writes, 1).value = w.value
<1>1. writes \in Seq(Write) /\ 1 \in 1..Len(writes) /\ vs \in Seq(Write) /\ Head(writes) = w
  BY Shortened DEF IInv, TypeInv
<1>2. w \in Write /\ Entry(writes, 1).kind = w.kind /\ Entry(writes, 1).value = w.value
  BY <1>1, EntryTyped
<1>3. r \in Relay
  BY <1>2 DEF Write
<1>4. \A q \in Relay : Single(writes, q) /\ Claimed(writes, q, task[q])
  BY DEF IInv, LinkInv
<1>5. ASSUME NEW q \in Relay
      PROVE  /\ Single(vs, q) /\ PendingOf(vs, q) \subseteq PendingOf(writes, q)
             /\ ~ (q = r /\ w.mine) => Claimed(vs, q, task[q])
             /\ Entry(writes, 1) \in PendingOf(writes, r)
             /\ r = q /\ w.mine => NoneMine(vs, q)
             /\ r = q /\ w.kind = "seed" => NoSeed(vs, q)
  BY <1>1, <1>4, TailQueue
<1>6. w.mine => task[r].pc = "write" /\ Matches(task[r], w)
  BY <1>1, <1>3, <1>4 DEF Claimed
<1> QED
  BY <1>1, <1>2, <1>3, <1>5, <1>6

(* The cursor once that write is done, and what its pass makes of it. *)
LEMMA WriteLands ==
  ASSUME IInv, writes # <<>>, NEW w, w = writes[1], NEW r, r = w.relay,
         NEW vs, vs = Tail(writes), NEW y, WorldOK(y),
         IF cursor[r].exists THEN y = World(r)
         ELSE /\ y.now = now
              /\ w.kind = "seed" => Onward(w.value, y)
  PROVE  LET d == Written(cursor[r], w) Q == PendingOf(vs, r) IN
         /\ d \in Cursor /\ d.exists /\ Issued(Q, "seed") = {}
         /\ ~ w.mine => Sound(d, Q, task[r], y)
         /\ w.mine => Outcome(d.forward, Forwards(d, Q), Behind(d, Q), Scans(d, Q),
                              Resumed(d, task[r]), y)
<1> DEFINE c == cursor[r]
           t == task[r]
           P == PendingOf(writes, r)
           Q == PendingOf(vs, r)
           d == Written(c, w)
           p == Entry(writes, 1)
<1>1. /\ r \in Relay /\ w \in Write /\ Q \subseteq P /\ p \in P /\ p.kind = w.kind
      /\ p.value = w.value
      /\ w.mine => t.pc = "write" /\ Matches(t, w)
      /\ w.kind = "seed" => NoSeed(vs, r)
  BY HeadWrite
<1>2. /\ c \in Cursor /\ t \in PassState /\ P \subseteq Issue /\ WorldOK(World(r))
      /\ Sound(c, P, t, World(r)) /\ t.issue = NoWrite /\ World(r).now = now
      /\ t.pc = "idle" => t = Idle
  BY <1>1, RelayState DEF World
<1>3. CASE c.exists
  <2>1. y = World(r)
    <3>1. cursor[r].exists
      BY <1>3
    <3> QED
      BY <3>1, Zenon
  <2> HIDE DEF c, t, P, Q, p
  <2>2. /\ d \in Cursor /\ d.exists /\ Sound(d, Q, t, y)
        /\ p.kind = "forward" => d.forward = p.value
        /\ p.kind # "seed"
    <3>1. /\ c \in Cursor /\ t \in PassState /\ P \subseteq Issue /\ Q \subseteq P /\ p \in P
          /\ c.exists /\ w.kind = p.kind /\ w.value = p.value
      BY <1>1, <1>2, <1>3
    <3>2. Sound(c, P, t, y)
      BY <1>2, <2>1
    <3> QED
      BY <3>1, <3>2, WrittenSound
  <2> HIDE DEF d
  <2>3. Issued(Q, "seed") = {}
    BY <2>2 DEF Sound
  <2>4. w.mine => Outcome(d.forward, Forwards(d, Q), Behind(d, Q), Scans(d, Q),
                          Resumed(d, t), y)
    <3>1. Q \subseteq Issue
      BY <1>1, <1>2
    <3> QED
      BY <1>1, <1>2, <2>2, <3>1, ResumedGoes
  <2> QED
    BY <2>2, <2>3, <2>4 DEF d, Q, t, c
<1>4. CASE ~ c.exists
  <2>1. y.now = World(r).now
    BY <1>2, <1>4
  <2>2. /\ c = NoCursor /\ \A e \in P : e.kind = "seed"
        /\ t.pc # "idle" => t.pc = "write" /\ t.then = "planned"
    BY <1>2, <1>4 DEF Sound, Fresh
  <2>3. Q = {}
    <3>1. w.kind = "seed"
      BY <1>1, <2>2
    <3>2. NoSeed(vs, r)
      BY <1>1, <3>1
    <3>3. \A e \in Q : e.kind # "seed"
      BY <3>2 DEF PendingOf, NoSeed
    <3> QED
      BY <1>1, <2>2, <3>3
  <2>4. Onward(p.value, y)
    BY <1>1, <1>4, <2>2 DEF Onward
  <2>5. ~ w.mine => t = Idle
    <3> SUFFICES ASSUME ~ w.mine, t.pc # "idle" PROVE FALSE
      BY <1>2
    <3>1. t.pc = "write"
      BY <2>2
    <3>2. PICK i \in 1..Len(writes) : writes[i].relay = r /\ writes[i].mine
      BY <1>1, <3>1 DEF IInv, LinkInv, Claimed
    <3>3. Entry(writes, i) \in P /\ Entry(writes, i).kind = writes[i].kind
      BY <3>2, PendingIs DEF Entry
    <3>4. writes[i].kind = "seed" /\ w.kind = "seed"
      BY <1>1, <2>2, <3>3
    <3>5. 1 \in 1..Len(writes) /\ Single(writes, r)
      BY <1>1, Shortened DEF IInv, TypeInv, LinkInv
    <3>6. i = 1
      BY <3>2, <3>4, <3>5 DEF Single
    <3> QED
      BY <3>2, <3>6
  <2> HIDE DEF c, t, P, Q, p
  <2>6. /\ d \in Cursor /\ d.exists /\ Sound(d, {}, Idle, y)
        /\ t.pc = "write" /\ t.issue = NoWrite =>
             Outcome(d.forward, Forwards(d, {}), Behind(d, {}), Scans(d, {}), Planned(d, t), y)
    <3>1. p \in P /\ w.kind = p.kind /\ w.value = p.value /\ WorldOK(y)
      BY <1>1
    <3>2. c \in Cursor /\ P \subseteq Issue /\ t \in PassState /\ WorldOK(World(r))
          /\ Sound(c, P, t, World(r))
      BY <1>2
    <3> QED
      BY <1>4, <2>1, <2>4, <3>1, <3>2, SeededSound
  <2> HIDE DEF d
  <2>7. w.mine => Resumed(d, t) = Planned(d, t) /\ t.pc = "write"
    BY <1>1, <2>2 DEF Resumed
  <2>8. Issued(Q, "seed") = {}
    BY <2>3 DEF Issued
  <2> QED
    BY <1>2, <2>3, <2>5, <2>6, <2>7, <2>8 DEF d, Q, t, c
<1> QED
  BY <1>3, <1>4

LEMMA WriteDoneKeeps ==
  ASSUME IInv, WriteDone
  PROVE  IInv'
<1> USE DEF network, lifecycle
<1>0. /\ writes # <<>>
      /\ \E w, r, vs : w = writes[1] /\ r = w.relay /\ vs = Tail(writes)
  BY DEF WriteDone
<1>head. PICK w, r, vs : w = writes[1] /\ r = w.relay /\ vs = Tail(writes)
  BY <1>0
<1> DEFINE d == Written(cursor[r], w)
           t == Resumed(d, task[r])
           Q == PendingOf(vs, r)
<1>1. /\ r \in Relay /\ w \in Write /\ vs \in Seq(Write) /\ Head(writes) = w
      /\ \A q \in Relay :
           /\ Single(vs, q) /\ PendingOf(vs, q) \subseteq PendingOf(writes, q)
           /\ ~ (q = r /\ w.mine) => Claimed(vs, q, task[q])
      /\ w.mine => NoneMine(vs, r) /\ task[r].pc = "write"
  BY <1>0, <1>head, HeadWrite
<1>2. /\ cursor' = [cursor EXCEPT ![r] = d]
      /\ seeded' = IF w.kind = "seed" /\ ~ cursor[r].exists /\ w.value.exists
                   THEN [seeded EXCEPT ![r] = now] ELSE seeded
      /\ UNCHANGED <<now, date, arrived, missed, taken, relays, session, active, requested,
                     ready, events>>
  BY <1>1, <1>head DEF WriteDone
<1>3. IF w.mine THEN Go(r, t, vs) ELSE writes' = vs /\ UNCHANGED <<task, due>>
  BY <1>1, <1>head DEF WriteDone
<1>4. WorldOK(World(r)') /\ World(r)'.now = now
  BY <1>1, <1>2 DEF WorldOK, World, Promised, IInv, TypeInv, ClockInv
<1>5. cursor[r].exists => World(r)' = World(r)
  BY <1>2 DEF World, Promised, Pageable, On
<1>6. w.kind = "seed" /\ ~ cursor[r].exists => Onward(w.value, World(r)')
  <2> SUFFICES ASSUME w.kind = "seed", ~ cursor[r].exists, w.value.exists, NEW o \in World(r)'.left
               PROVE  World(r)'.arrived[o] >= World(r)'.now
    BY DEF Onward
  <2>1. seeded'[r] = now
    BY <1>1, <1>2 DEF IInv, TypeInv
  <2>2. World(r)'.arrived = arrived'[r] /\ arrived'[r][o] >= seeded'[r]
    BY DEF World, Promised
  <2> QED
    BY <1>4, <2>1, <2>2
<1>7. /\ d \in Cursor /\ d.exists /\ Issued(Q, "seed") = {}
      /\ ~ w.mine => Sound(d, Q, task[r], World(r)')
      /\ w.mine => Outcome(d.forward, Forwards(d, Q), Behind(d, Q), Scans(d, Q), t, World(r)')
  BY <1>0, <1>head, <1>4, <1>5, <1>6, WriteLands
<1> HIDE DEF d, t, Q
<1>8. \A q \in Relay : cursor'[q] = IF q = r THEN d ELSE cursor[q]
  BY <1>2 DEF IInv, TypeInv
<1>9. /\ cursor' \in [Relay -> Cursor] /\ seeded' \in [Relay -> Nat]
      /\ \A q \in Relay : seeded'[q] <= now
      /\ \A q \in Relay \ {r} : seeded'[q] = seeded[q]
  BY <1>1, <1>2, <1>7 DEF IInv, TypeInv, ClockInv
<1>10. w.mine => Ready(t) /\ (t.pc = "write" => t.issue.kind # "seed")
  BY <1>7, OutcomeReady
<1>11. TypeInv'
  <2>1. task' \in [Relay -> PassState] /\ writes' \in Seq(Write) /\ due' \in [Relay -> Request]
    <3>1. CASE w.mine
      BY <1>1, <1>3, <1>10, <3>1, GoMoves DEF IInv
    <3>2. CASE ~ w.mine
      BY <1>1, <1>3, <3>2 DEF IInv, TypeInv
    <3> QED
      BY <3>1, <3>2
  <2> QED
    BY <1>2, <1>9, <2>1 DEF IInv, TypeInv
<1>12. ClockInv'
  BY <1>2, <1>9 DEF IInv, ClockInv
<1>13. \A q \in Relay \ {r} : Later(World(q), World(q)')
  BY <1>2, <1>9, <1>11, <1>12, SameNetwork DEF IInv, TypeInv
<1>14. CASE w.mine
  <2>1. Q \subseteq Issue
    BY <1>1, PendingTyped DEF Q
  <2>2. ASSUME NEW Q2, \A p \in Q2 : p \in PendingOf(vs, r) \/ (t.pc = "write" /\ p = t.issue)
        PROVE  Sound(cursor'[r], Q2, Stored(t), World(r)')
    <3>1. \A p \in Q2 : p \in Q \/ (t.pc = "write" /\ p = t.issue)
      BY <2>2 DEF Q
    <3> QED
      BY <1>1, <1>4, <1>7, <1>8, <1>14, <2>1, <3>1, OutcomeSound
  <2>3. session /\ r \in ready
    BY <1>1, <1>14, RelayState
  <2>4. LinkInv' /\ SoundInv'
    BY <1>1, <1>2, <1>3, <1>8, <1>10, <1>11, <1>12, <1>13, <1>14, <2>2, <2>3, GoKeeps
  <2> QED
    BY <1>11, <1>12, <2>4 DEF IInv
<1>15. CASE ~ w.mine
  <2>1. writes' = vs /\ UNCHANGED <<task, due>>
    BY <1>3, <1>15
  <2>2. LinkInv'
    BY <1>1, <1>2, <1>15, <2>1 DEF IInv, LinkInv
  <2>3. ASSUME NEW q \in Relay
        PROVE  Sound(cursor'[q], PendingOf(writes', q), task'[q], World(q)')
    <3>1. CASE q = r
      BY <1>7, <1>8, <1>15, <2>1, <3>1 DEF Q
    <3>2. CASE q # r
      <4>1. WorldOK(World(q)')
        BY <1>11, <1>12, WorldHoldsAfter
      <4>2. Sound(cursor[q], PendingOf(vs, q), task[q], World(q)')
        BY <1>1, <1>13, <3>2, <4>1, RelayKept
      <4> QED
        BY <1>8, <2>1, <3>2, <4>2
    <3> QED
      BY <3>1, <3>2
  <2> QED
    BY <1>11, <1>12, <2>2, <2>3 DEF IInv, SoundInv
<1> QED
  BY <1>14, <1>15

(* Passes that end, with or without the session, and the writes they leave. *)
LEMMA EndedKeeps ==
  ASSUME IInv, UNCHANGED <<network, taken, cursor, seeded>>,
         relays' \subseteq Relay, relays' # {}, ready' \subseteq relays',
         session' \in BOOLEAN, active' \in BOOLEAN, requested' \in Request,
         due' \in [Relay -> Request], events' \in 0..MaxEvents, writes' \in Seq(Write),
         task' \in [Relay -> PassState],
         \A q \in Relay :
           /\ Single(writes', q) /\ PendingOf(writes', q) \subseteq PendingOf(writes, q)
           /\ \/ task'[q] = Idle /\ NoneMine(writes', q)
              \/ /\ task'[q] = task[q] /\ Claimed(writes', q, task[q])
                 /\ session /\ q \in ready => session' /\ q \in ready'
  PROVE  IInv'
<1> USE DEF network
<1>1. TypeInv' /\ ClockInv'
  BY DEF IInv, TypeInv, ClockInv
<1>2. LinkInv'
  <2> SUFFICES ASSUME NEW q \in Relay
               PROVE  /\ Single(writes', q) /\ Claimed(writes', q, task'[q])
                      /\ task'[q].pc \in Place /\ task'[q].issue = NoWrite
                      /\ task'[q].pc # "idle" => session' /\ q \in ready'
                      /\ task'[q].pc = "idle" => task'[q] = Idle
    BY DEF LinkInv
  <2>1. CASE task'[q] = Idle /\ NoneMine(writes', q)
    BY <2>1, IdleTyped DEF Claimed, NoneMine, Place
  <2>2. CASE ~ (task'[q] = Idle /\ NoneMine(writes', q))
    BY <2>2 DEF IInv, LinkInv
  <2> QED
    BY <2>1, <2>2
<1>3. ASSUME NEW q \in Relay
      PROVE  Sound(cursor'[q], PendingOf(writes', q), task'[q], World(q)')
  <2>1. World(q)' = World(q)
    BY DEF World, Promised, Pageable, On
  <2>2. Sound(cursor[q], PendingOf(writes, q), task'[q], World(q)) /\ task'[q] \in PassState
    <3>1. Sound(cursor[q], PendingOf(writes, q), Idle, World(q))
      BY RelayState, PassEnds
    <3> QED
      BY <3>1, RelayState
  <2>3. Sound(cursor[q], PendingOf(writes', q), task'[q], World(q))
    BY <2>2, RelayState, FewerPending
  <2> QED
    BY <2>1, <2>3
<1> QED
  BY <1>1, <1>2, <1>3 DEF IInv, SoundInv

LEMMA DestroyKeeps ==
  ASSUME IInv, Destroy
  PROVE  IInv'
<1> USE DEF network
<1>1. /\ writes \in Seq(Write) /\ Len(writes) \in Nat
      /\ \A i \in 1..Len(writes) : writes[i] \in Write
  BY DEF IInv, TypeInv
<1>2. \A i \in 1..Len(writes) :
        /\ writes'[i] \in Write /\ writes'[i].relay = writes[i].relay
        /\ writes'[i].kind = writes[i].kind /\ writes'[i].value = writes[i].value
        /\ ~ writes'[i].mine
  BY <1>1 DEF Destroy, Write
<1>3. writes' \in Seq(Write) /\ Len(writes') = Len(writes)
  <2>1. DOMAIN writes' = 1..Len(writes) /\ writes' = [i \in 1..Len(writes) |-> writes'[i]]
    BY DEF Destroy
  <2>2. writes' \in [1..Len(writes) -> Write]
    BY <1>2, <2>1
  <2> QED
    BY <1>1, <2>2, ListIsSequence
<1>4. ASSUME NEW q \in Relay
      PROVE  /\ Single(writes', q) /\ PendingOf(writes', q) \subseteq PendingOf(writes, q)
             /\ task'[q] = Idle /\ NoneMine(writes', q)
  <2>1. PendingOf(writes', q) = PendingOf(writes, q)
    BY <1>2, <1>3 DEF PendingOf
  <2>2. Single(writes', q) /\ NoneMine(writes', q)
    BY <1>2, <1>3 DEF IInv, LinkInv, Single, NoneMine
  <2> QED
    BY <2>1, <2>2 DEF Destroy, SessionEnds
<1>5. task' \in [Relay -> PassState] /\ due' \in [Relay -> Request] /\ requested' \in Request
  BY IdleTyped DEF Destroy, SessionEnds, Request
<1>6. events' \in 0..MaxEvents
  BY HistoryConstants DEF Destroy, Event, IInv, TypeInv
<1>7. /\ relays' \subseteq Relay /\ relays' # {} /\ ready' \subseteq relays'
      /\ session' \in BOOLEAN /\ active' \in BOOLEAN
  BY DEF Destroy, SessionEnds, IInv, TypeInv
<1>8. UNCHANGED <<network, taken, cursor, seeded>>
  BY DEF Destroy, SessionEnds
<1> QED
  BY <1>3, <1>4, <1>5, <1>6, <1>7, <1>8, EndedKeeps

LEMMA CrashKeeps ==
  ASSUME IInv, Crash
  PROVE  IInv'
<1> USE DEF network
<1>1. writes' \in Seq(Write) /\ Len(writes') = 0
  BY DEF Crash
<1>2. \A q \in Relay :
        /\ Single(writes', q) /\ PendingOf(writes', q) \subseteq PendingOf(writes, q)
        /\ task'[q] = Idle /\ NoneMine(writes', q)
  BY <1>1 DEF Single, PendingOf, NoneMine, Crash, SessionEnds
<1>3. task' \in [Relay -> PassState] /\ due' \in [Relay -> Request] /\ requested' \in Request
  BY IdleTyped DEF Crash, SessionEnds, Request
<1>4. events' \in 0..MaxEvents
  BY HistoryConstants DEF Crash, Event, IInv, TypeInv
<1>5. /\ relays' \subseteq Relay /\ relays' # {} /\ ready' \subseteq relays'
      /\ session' \in BOOLEAN /\ active' \in BOOLEAN
  BY DEF Crash, SessionEnds, IInv, TypeInv
<1>6. UNCHANGED <<network, taken, cursor, seeded>>
  BY DEF Crash, SessionEnds
<1> QED
  BY <1>1, <1>2, <1>3, <1>4, <1>5, <1>6, EndedKeeps

(* The queue without the write that was rejected. *)
LEMMA RejectedQueue ==
  ASSUME NEW ws \in Seq(Write), NEW k \in 1..Len(ws), ws[k].mine, NEW vs,
         vs = [j \in 1..(Len(ws) - 1) |-> ws[IF j < k THEN j ELSE j + 1]],
         NEW q, NEW t, Single(ws, q), Claimed(ws, q, t)
  PROVE  /\ vs \in Seq(Write) /\ Single(vs, q) /\ PendingOf(vs, q) \subseteq PendingOf(ws, q)
         /\ ws[k].relay # q => Claimed(vs, q, t)
         /\ ws[k].relay = q => NoneMine(vs, q)
<1> DEFINE at(j) == IF j < k THEN j ELSE j + 1
<1>1. /\ Len(ws) \in Nat /\ Len(ws) - 1 \in Nat /\ \A i \in 1..Len(ws) : ws[i] \in Write
  OBVIOUS
<1>2. \A j \in 1..(Len(ws) - 1) : at(j) \in 1..Len(ws) /\ vs[j] = ws[at(j)] /\ at(j) # k
  BY <1>1
<1>3. \A i, j \in 1..(Len(ws) - 1) : at(i) = at(j) => i = j
  BY <1>1
<1>4. \A i \in 1..Len(ws) : i # k => \E j \in 1..(Len(ws) - 1) : i = at(j)
  <2> SUFFICES ASSUME NEW i \in 1..Len(ws), i # k
               PROVE  \E j \in 1..(Len(ws) - 1) : i = at(j)
    OBVIOUS
  <2>1. CASE i < k
    BY <1>1, <2>1
  <2>2. CASE i > k
    <3>1. i - 1 \in 1..(Len(ws) - 1) /\ i = at(i - 1)
      BY <1>1, <2>2
    <3> QED
      BY <3>1
  <2> QED
    BY <1>1, <2>1, <2>2
<1> HIDE DEF at
<1>5. vs \in Seq(Write) /\ Len(vs) = Len(ws) - 1
  <2>1. vs \in [1..(Len(ws) - 1) -> Write]
    BY <1>1, <1>2
  <2> QED
    BY <1>1, <2>1, ListIsSequence
<1>6. Single(vs, q)
  <2> SUFFICES ASSUME NEW i \in 1..Len(vs), NEW j \in 1..Len(vs),
                      vs[i].relay = q, vs[j].relay = q,
                      \/ vs[i].mine /\ vs[j].mine
                      \/ vs[i].kind = "seed" /\ vs[j].kind = "seed"
               PROVE  i = j
    BY DEF Single
  <2>1. at(i) = at(j)
    BY <1>2, <1>5 DEF Single
  <2> QED
    BY <1>3, <1>5, <2>1
<1>7. ASSUME NEW p \in PendingOf(vs, q) PROVE p \in PendingOf(ws, q)
  <2>1. PICK j \in 1..Len(vs) : vs[j].relay = q /\ p = Entry(vs, j)
    BY <1>7 DEF PendingOf, Entry
  <2>2. at(j) \in 1..Len(ws) /\ ws[at(j)].relay = q /\ p = Entry(ws, at(j))
    BY <1>2, <1>5, <2>1 DEF Entry
  <2> QED
    BY <2>2, PendingIs
<1>8. ASSUME ws[k].relay # q PROVE Claimed(vs, q, t)
  <2>1. ASSUME NEW j \in 1..Len(vs), vs[j].relay = q, vs[j].mine
        PROVE  t.pc = "write" /\ Matches(t, vs[j])
    BY <1>2, <1>5, <2>1 DEF Claimed
  <2>2. ASSUME t.pc = "write" PROVE \E j \in 1..Len(vs) : vs[j].relay = q /\ vs[j].mine
    <3>1. PICK i \in 1..Len(ws) : ws[i].relay = q /\ ws[i].mine
      BY <2>2 DEF Claimed
    <3>2. PICK j \in 1..(Len(ws) - 1) : i = at(j)
      BY <1>4, <1>8, <3>1
    <3> QED
      BY <1>2, <1>5, <3>1, <3>2
  <2> QED
    BY <2>1, <2>2 DEF Claimed
<1>9. ws[k].relay = q => NoneMine(vs, q)
  BY <1>2, <1>5 DEF Single, NoneMine
<1> QED
  BY <1>5, <1>6, <1>7, <1>8, <1>9

LEMMA PassFailsKeeps ==
  ASSUME IInv, NEW r \in Relay, PassFails(r)
  PROVE  IInv'
<1> USE DEF network
<1>1. /\ writes \in Seq(Write)
      /\ \A q \in Relay : Single(writes, q) /\ Claimed(writes, q, task[q])
  BY DEF IInv, TypeInv, LinkInv
<1>2. \A q \in Relay : task'[q] = IF q = r THEN Idle ELSE task[q]
  BY DEF PassFails, IInv, TypeInv
<1>3. /\ writes' \in Seq(Write)
      /\ \A q \in Relay :
           /\ Single(writes', q) /\ PendingOf(writes', q) \subseteq PendingOf(writes, q)
           /\ q # r => Claimed(writes', q, task[q])
      /\ NoneMine(writes', r)
  <2>1. CASE task[r].pc = "intake" /\ UNCHANGED writes
    BY <1>1, <2>1 DEF NoneMine, Claimed
  <2>2. CASE /\ task[r].pc = "write"
             /\ \E i \in 1..Len(writes) :
                  /\ writes[i].mine /\ writes[i].relay = r
                  /\ writes' = [j \in 1..(Len(writes) - 1) |->
                                 writes[IF j < i THEN j ELSE j + 1]]
    <3>1. PICK i \in 1..Len(writes) :
            /\ writes[i].mine /\ writes[i].relay = r
            /\ writes' = [j \in 1..(Len(writes) - 1) |-> writes[IF j < i THEN j ELSE j + 1]]
      BY <2>2
    <3>2. ASSUME NEW q \in Relay
          PROVE  /\ writes' \in Seq(Write) /\ Single(writes', q)
                 /\ PendingOf(writes', q) \subseteq PendingOf(writes, q)
                 /\ writes[i].relay # q => Claimed(writes', q, task[q])
                 /\ writes[i].relay = q => NoneMine(writes', q)
      <4>1. Single(writes, q) /\ Claimed(writes, q, task[q]) /\ writes[i].mine
        BY <1>1, <3>1
      <4>2. writes' = [j \in 1..(Len(writes) - 1) |-> writes[IF j < i THEN j ELSE j + 1]]
        BY <3>1
      <4> QED
        BY <1>1, <4>1, <4>2, RejectedQueue
    <3> QED
      BY <3>1, <3>2
  <2> QED
    BY <2>1, <2>2 DEF PassFails
<1>4. task' \in [Relay -> PassState] /\ due' \in [Relay -> Request]
  BY IdleTyped DEF PassFails, IInv, TypeInv, Request
<1>5. events' \in 0..MaxEvents
      /\ UNCHANGED <<network, taken, cursor, seeded, relays, session, active, requested, ready>>
  BY HistoryConstants DEF PassFails, Event, IInv, TypeInv
<1>6. relays' \subseteq Relay /\ relays' # {} /\ ready' \subseteq relays'
      /\ session' \in BOOLEAN /\ active' \in BOOLEAN /\ requested' \in Request
  BY <1>5 DEF IInv, TypeInv
<1> QED
  BY <1>2, <1>3, <1>4, <1>5, <1>6, EndedKeeps

-----------------------------------------------------------------------------
(* The invariant. *)
LEMMA InitHolds ==
  ASSUME Init
  PROVE  IInv
<1> USE HistoryConstants DEF Init
<1>1. NoCursor \in Cursor /\ ~ NoCursor.exists
  BY IdleTyped DEF NoCursor, Cursor, Stamp, None
<1>2. TypeInv
  <2>1. /\ cursor \in [Relay -> Cursor] /\ task \in [Relay -> PassState]
        /\ due \in [Relay -> Request] /\ requested \in Request
    BY <1>1, IdleTyped DEF Request
  <2>2. now \in Nat /\ 1 <= now /\ now <= MaxTime /\ events \in 0..MaxEvents
    OBVIOUS
  <2>3. /\ date \in [Wrap -> Nat] /\ arrived \in [Relay -> [Wrap -> Nat]]
        /\ seeded \in [Relay -> Nat] /\ taken \subseteq Wrap
        /\ missed \in [Relay -> SUBSET Wrap]
    OBVIOUS
  <2>4. relays \subseteq Relay /\ relays # {} /\ ready \subseteq relays
    OBVIOUS
  <2>5. session \in BOOLEAN /\ active \in BOOLEAN
    OBVIOUS
  <2>6. writes \in Seq(Write)
    OBVIOUS
  <2> QED
    BY <2>1, <2>2, <2>3, <2>4, <2>5, <2>6 DEF TypeInv
<1>3. ClockInv
  BY DEF ClockInv
<1>4. Len(writes) = 0 /\ \A q : PendingOf(writes, q) = {}
  BY DEF PendingOf
<1>5. LinkInv
  BY <1>4, IdleTyped DEF LinkInv, Single, Claimed, Place
<1>6. ASSUME NEW r \in Relay PROVE Sound(cursor[r], PendingOf(writes, r), task[r], World(r))
  <2>1. cursor[r] = NoCursor /\ task[r] = Idle /\ World(r).now \in Nat
    BY DEF World
  <2>2. Fresh(NoCursor, {}, Idle, World(r))
    BY <2>1, IdleTyped DEF Fresh
  <2> QED
    BY <1>1, <1>4, <2>1, <2>2 DEF Sound
<1> QED
  BY <1>2, <1>3, <1>5, <1>6 DEF IInv, SoundInv

LEMMA NextKeeps ==
  ASSUME IInv, [Next]_vars
  PROVE  IInv'
<1>1. CASE UNCHANGED vars
  <2>1. UNCHANGED <<now, date, arrived, missed, taken, cursor, writes, relays, session, active,
                    requested, ready, events, due, task, seeded>>
    BY <1>1 DEF vars, network, store, lifecycle
  <2>2. TypeInv' /\ ClockInv'
    BY <2>1 DEF IInv, TypeInv, ClockInv
  <2>3. \A q \in Relay : Later(World(q), World(q)')
    BY <2>1, <2>2, SameNetwork DEF IInv, TypeInv
  <2> QED
    BY <2>1, <2>2, <2>3, QuietKeeps
<1>2. CASE Tick
  BY <1>2, TickKeeps
<1>3. CASE WriteDone
  BY <1>3, WriteDoneKeeps
<1>4. CASE StartSession \/ EnterBackground \/ EnterForeground
  BY <1>4, LifecycleKeeps
<1>5. CASE Destroy
  BY <1>5, DestroyKeeps
<1>6. CASE Crash
  BY <1>6, CrashKeeps
<1>7. ASSUME NEW r \in Relay, Pass(r) PROVE IInv'
  <2>1. CASE StartPass(r)
    BY <2>1, StartPassKeeps
  <2>2. CASE DropRetry(r)
    BY <2>2, LifecycleKeeps
  <2>3. CASE QueryAnswers(r)
    BY <2>3, QueryAnswersKeeps
  <2>4. CASE Intake(r)
    BY <2>4, IntakeKeeps
  <2>5. CASE IntakeDone(r)
    BY <2>5, IntakeDoneKeeps
  <2>6. CASE QueryTimesOut(r)
    BY <2>6, QueryTimesOutKeeps
  <2> QED
    BY <1>7, <2>1, <2>2, <2>3, <2>4, <2>5, <2>6 DEF Pass
<1>8. ASSUME NEW r \in Relay, QueryFails(r) PROVE IInv'
  BY <1>8, QueryFailsKeeps
<1>9. ASSUME NEW r \in Relay, RelayReady(r) PROVE IInv'
  BY <1>9, LifecycleKeeps
<1>10. ASSUME NEW r \in Relay, PassFails(r) PROVE IInv'
  BY <1>10, PassFailsKeeps
<1>11. ASSUME NEW r \in Relay, NEW w \in Wrap, Arrive(r, w) \/ TakeOtherwise(r, w) PROVE IInv'
  BY <1>11, ArriveKeeps, TakeOtherwiseKeeps
<1> QED
  BY <1>1, <1>2, <1>3, <1>4, <1>5, <1>6, <1>7, <1>8, <1>9, <1>10, <1>11 DEF Next

(* Whatever the faults, what the stored cursor of a relay, every write on  *)
(* its way to it and the pass in memory claim to have read has been read,  *)
(* in whatever order the writes complete (dm/sync-store.ts and the         *)
(* backfill of dm.service.ts).                                             *)
THEOREM Invariant == Spec => []IInv
<1>1. Init => IInv
  BY InitHolds
<1>2. IInv /\ [Next]_vars => IInv'
  BY NextKeeps
<1> QED
  BY <1>1, <1>2, PTL DEF Spec

LEMMA StampsPast ==
  ASSUME IInv, NEW r \in Relay
  PROVE  /\ cursor[r].forward <= now /\ cursor[r].backward <= now
         /\ cursor[r].scan.through <= now /\ cursor[r].scan.floor <= now
         /\ cursor[r].scan.nextUntil <= now /\ task[r].until <= now
<1>1. World(r).now = now /\ now \in Nat /\ 1 <= now
  BY DEF World, IInv, TypeInv
<1>2. task[r].pc = "idle" => task[r].until = 0
  BY RelayState, IdleTyped
<1>3. CASE cursor[r].exists
  <2> DEFINE c == cursor[r]
             Q == PendingOf(writes, r)
             t == task[r]
  <2>1. /\ Kept(c.forward, Forwards(c, Q), Backwards(c, Q, t), Windows(c, Q, t), World(r))
        /\ t.pc # "idle" => Passing(t, c.forward, Forwards(c, Q), Windows(c, Q, t), World(r))
    BY <1>3, RelayState DEF Sound
  <2>2. c.forward <= now /\ c.backward <= now
    BY <1>1, <2>1 DEF Kept, Forwards, Backwards
  <2>3. c.scan.through <= now /\ c.scan.floor <= now /\ c.scan.nextUntil <= now
    BY <1>1, <2>1 DEF Kept, Windows
  <2>4. t.until <= now
    BY <1>1, <1>2, <2>1 DEF Passing
  <2> QED
    BY <2>2, <2>3, <2>4
<1>4. CASE ~ cursor[r].exists
  <2>1. cursor[r] = NoCursor /\ task[r].until <= now
    BY <1>1, <1>4, RelayState DEF Sound, Fresh
  <2> QED
    BY <1>1, <2>1, IdleTyped DEF NoCursor, None
<1> QED
  BY <1>3, <1>4

(* Types, that no stored time lies in the future, that a pass runs only in *)
(* a session on a ready relay, and that a pass waits for a write exactly   *)
(* when one of the queue is its own.                                       *)
THEOREM TypeCorrect == Spec => []TypeOK
<1>1. IInv => TypeOK
  <2> SUFFICES ASSUME IInv PROVE TypeOK
    OBVIOUS
  <2>1. now \in Nat /\ now \in 1..MaxTime /\ MaxTime \in Nat
        /\ \A t \in Nat : t <= now => t \in Time
    BY HistoryConstants DEF IInv, TypeInv, Time
  <2>2. date \in [Wrap -> Time] /\ seeded \in [Relay -> Time]
    <3>1. \A w \in Wrap : date[w] \in Time
      BY <2>1 DEF IInv, TypeInv, ClockInv
    <3>2. \A q \in Relay : seeded[q] \in Time
      BY <2>1 DEF IInv, TypeInv, ClockInv
    <3> QED
      BY <3>1, <3>2 DEF IInv, TypeInv
  <2>3. arrived \in [Relay -> [Wrap -> Time]]
    <3>1. ASSUME NEW q \in Relay, NEW w \in Wrap PROVE arrived[q][w] \in Time
      <4>1. arrived[q][w] \in Nat
        BY DEF IInv, TypeInv
      <4>2. arrived[q][w] # 0 => arrived[q][w] <= now
        BY DEF IInv, ClockInv
      <4>3. arrived[q][w] <= now
        BY <2>1, <4>1, <4>2
      <4> QED
        BY <2>1, <4>1, <4>3
    <3> QED
      BY <3>1 DEF IInv, TypeInv
  <2>4. ASSUME NEW r \in Relay
        PROVE  /\ {cursor[r].forward, cursor[r].backward} \subseteq Time \union {None}
               /\ cursor[r].scan \in [through: Time, floor: Time, nextUntil: Time \union {None}]
               /\ task[r].pc \in Place /\ task[r].until \in Time \union {None}
               /\ task[r].pc # "idle" => session /\ r \in ready
               /\ task[r].pc = "write" <=>
                    \E i \in 1..Len(writes) : writes[i].mine /\ writes[i].relay = r
    <3>1. cursor[r].forward \in Stamp /\ cursor[r].backward \in Stamp
          /\ cursor[r].scan \in Window /\ task[r].until \in Nat
      BY RelayState DEF Cursor, PassState
    <3>2. {cursor[r].forward, cursor[r].backward} \subseteq Time \union {None}
      BY <2>1, <3>1, StampsPast DEF Stamp
    <3>3. cursor[r].scan \in [through: Time, floor: Time, nextUntil: Time \union {None}]
      BY <2>1, <3>1, StampsPast DEF Window
    <3>4. task[r].pc = "write" <=>
            \E i \in 1..Len(writes) : writes[i].mine /\ writes[i].relay = r
      BY DEF IInv, LinkInv, Claimed
    <3> QED
      BY <2>1, <3>1, <3>2, <3>3, <3>4, RelayState, StampsPast
  <2>5. /\ taken \subseteq Wrap /\ missed \in [Relay -> SUBSET Wrap]
        /\ relays \subseteq Relay /\ ready \subseteq relays
        /\ {session, active} \subseteq BOOLEAN /\ requested \in Request
        /\ due \in [Relay -> Request] /\ events \in 0..MaxEvents
    BY DEF IInv, TypeInv
  <2> QED
    BY <2>1, <2>2, <2>3, <2>4, <2>5 DEF TypeOK
<1> QED
  BY <1>1, Invariant, PTL

LEMMA CursorKept ==
  ASSUME IInv, NEW r \in Relay, NEW w \in Wrap \ taken, Promised(r, w), cursor[r].exists
  PROVE  LET c == cursor[r] IN
         /\ \/ Never(c.backward) \/ date[w] <= c.backward \/ arrived[r][w] >= c.forward
         /\ \/ arrived[r][w] >= c.scan.through \/ c.scan.floor = c.scan.through
            \/ date[w] < c.scan.floor \/ date[w] <= c.scan.nextUntil
<1>1. w \in World(r).left /\ World(r).arrived = arrived[r] /\ World(r).date = date
  BY DEF World
<1>2. LET c == cursor[r] Q == PendingOf(writes, r) t == task[r] IN
        Kept(c.forward, Forwards(c, Q), Backwards(c, Q, t), Windows(c, Q, t), World(r))
  BY RelayState DEF Sound
<1> QED
  BY <1>1, <1>2 DEF Kept, Ahead, Forwards, Backwards, Windows

(* No wrap a relay holds falls between its two frontiers unread: it is     *)
(* taken, or it came after the forward frontier was fixed, or it is not    *)
(* beyond the backward one, after any crashes, failed statements, sessions *)
(* that ended with writes on their way and passes that shared a cursor.    *)
THEOREM HistoryIsKept == Spec => []NothingForgotten
<1>1. IInv => NothingForgotten
  BY CursorKept DEF NothingForgotten
<1> QED
  BY <1>1, Invariant, PTL

(* A stored checkpoint is behind nothing unread of its window, whoever     *)
(* wrote it and however often the window was resumed.                      *)
THEOREM CheckpointsAreRead == Spec => []CheckpointIsRead
<1>1. IInv => CheckpointIsRead
  <2> SUFFICES ASSUME IInv, NEW r \in Relay, NEW w \in Wrap \ taken, Promised(r, w),
                      cursor[r].scan # NoScan
               PROVE  LET scan == cursor[r].scan IN
                      \/ arrived[r][w] >= scan.through
                      \/ date[w] < scan.floor \/ date[w] <= scan.nextUntil
                      \/ scan.floor = scan.through
    BY DEF CheckpointIsRead
  <2>1. cursor[r].exists
    BY RelayState DEF Sound, Fresh, NoCursor
  <2> QED
    BY <2>1, CursorKept
<1> QED
  BY <1>1, Invariant, PTL

(* What peekSyncCursor answers, which the finality of group actions is     *)
(* measured against, has been read from every relay of the account.        *)
THEOREM CoverageRead == Spec => []CoverageIsRead
<1>1. IInv => CoverageIsRead
  <2> SUFFICES ASSUME IInv, ~ Never(Coverage), NEW r \in relays, NEW w \in Wrap \ taken,
                      Promised(r, w)
               PROVE  arrived[r][w] >= Coverage
    BY DEF CoverageIsRead
  <2> DEFINE S == {cursor[q].forward : q \in relays}
  <2>1. /\ \A q \in relays : ~ Never(cursor[q].forward) /\ cursor[q].backward = Done
        /\ Coverage = Least(S)
    BY DEF Coverage, Never
  <2>2. relays \subseteq Relay /\ \A q \in relays : cursor[q].forward \in Nat
    BY <2>1, RelayState DEF IInv, TypeInv, Cursor, Stamp, Never
  <2>3. Least(S) <= cursor[r].forward /\ Least(S) \in Nat
    BY <2>2, LeastOfNaturals
  <2>4. cursor[r].exists
    BY <2>1, <2>2, RelayState DEF Sound, Fresh, NoCursor, Never
  <2>5. date[w] \in Nat /\ 1 <= date[w] /\ arrived[r][w] \in Nat
    BY <2>2 DEF IInv, TypeInv, ClockInv, Promised
  <2>6. arrived[r][w] >= cursor[r].forward
    BY <2>1, <2>2, <2>4, <2>5, CursorKept DEF Never, Done, None
  <2> QED
    BY <2>1, <2>2, <2>3, <2>5, <2>6
<1> QED
  BY <1>1, Invariant, PTL
=============================================================================
