------------------------ MODULE SigningConsentProofs ------------------------
(***************************************************************************)
(* Consent to sign.  The queue of a source holds exactly its requests that *)
(* wait or are at work, the one at work first, and the prompts exactly the *)
(* requests under review (QueueInv, ReviewInv).  That the latest decision  *)
(* counts rests on two facts: the rules a document has read are the saved  *)
(* ones and its own grants, unless it was left behind (CacheInv), and a    *)
(* request whose revision is current has seen no decision on its rule      *)
(* since it began, or since its own answer was saved (FreshInv).  Every    *)
(* invalidation renews both: it unloads the documents of its source, and   *)
(* only the request that brought the decision stays current.               *)
(***************************************************************************)
EXTENDS SigningConsent, WellFoundedInduction, TLAPS

-----------------------------------------------------------------------------
(* Queues. *)

Distinct(s) == \A i, j \in 1..Len(s) : s[i] = s[j] => i = j

(* A set of numbers has a least one. *)
LEMMA LeastNatural ==
    ASSUME NEW S \in SUBSET Nat, S # {}
    PROVE  \E n \in S : \A m \in S : n <= m
<1> DEFINE R == OpToRel(<, Nat)
<1>1. IsWellFoundedOn(R, Nat)
  BY NatLessThanWellFounded, Zenon
<1>2. \A m, n \in Nat : m < n => <<m, n>> \in R
  BY DEF OpToRel
<1> HIDE DEF R
<1>3. PICK n \in S : \A m \in S : ~ (<<m, n>> \in R)
  BY <1>1, WFMin
<1>4. ASSUME NEW m \in S PROVE n <= m
  <2>1. m \in Nat /\ n \in Nat /\ ~ (m < n)
    BY <1>2, <1>3
  <2> QED
    BY <2>1
<1> QED
  BY <1>4

(* What holds at the start, and of each index if of the one before, holds. *)
LEMMA Induction ==
    ASSUME NEW N \in Nat, NEW S, 0 \in S, \A n \in 1..N : n - 1 \in S => n \in S
    PROVE  \A n \in 0..N : n \in S
<1> SUFFICES ASSUME NEW k \in 0..N, k \notin S PROVE FALSE
  OBVIOUS
<1> DEFINE T == {n \in 0..N : n \notin S}
<1>1. T \in SUBSET Nat /\ T # {}
  OBVIOUS
<1>2. PICK n \in T : \A m \in T : n <= m
  BY <1>1, LeastNatural
<1>3. n \in 1..N /\ n \notin S
  BY <1>2
<1>4. n - 1 \in 0..N /\ n - 1 < n
  BY <1>3
<1>5. n - 1 \in S
  BY <1>2, <1>4
<1> QED
  BY <1>3, <1>5

(* What Without has kept after n entries. *)
Extended(s, S, n, kept) == IF s[n] \in S THEN kept ELSE Append(kept, s[n])
Keeping(s, S, k, f) ==
    f = [i \in 0..k |-> IF i = 0 THEN <<>> ELSE Extended(s, S, i, f[i - 1])]

LEMMA KeepingExists ==
    ASSUME NEW s, NEW S, NEW N \in Nat
    PROVE  \E f : Keeping(s, S, N, f)
<1> DEFINE G(k, f) == Keeping(s, S, k, f)
           T == {k \in 0..N : \E f : G(k, f)}
<1>1. 0 \in T
  <2>1. G(0, [n \in 0..0 |-> <<>>])
    BY DEF Keeping
  <2> QED
    BY <2>1
<1>2. ASSUME NEW n \in 1..N, n - 1 \in T PROVE n \in T
  <2>1. PICK f : G(n - 1, f)
    BY <1>2
  <2> DEFINE h == [m \in 0..n |-> IF m = n THEN Extended(s, S, n, f[n - 1]) ELSE f[m]]
  <2>2. ASSUME NEW m \in 0..n
        PROVE  h[m] = IF m = 0 THEN <<>> ELSE Extended(s, S, m, h[m - 1])
    <3>0. n \in Nat /\ m \in Nat /\ n # 0
      BY <1>2, <2>2
    <3>1. CASE m = n
      BY <3>0, <3>1
    <3>2. CASE m # n
      <4>1. m \in 0..(n - 1) /\ (m # 0 => m - 1 \in 0..n /\ m - 1 # n)
        BY <3>0, <3>2
      <4>2. f[m] = IF m = 0 THEN <<>> ELSE Extended(s, S, m, f[m - 1])
        BY <2>1, <4>1 DEF Keeping
      <4> QED
        BY <3>2, <4>1, <4>2
    <3> QED
      BY <3>1, <3>2
  <2>3. G(n, h)
    BY <2>2, Zenon DEF Keeping
  <2> QED
    BY <2>3
<1> HIDE DEF T
<1>3. N \in T
  BY <1>1, <1>2, Induction
<1> QED
  BY <1>3 DEF T

LEMMA WithoutSteps ==
    ASSUME NEW Q, NEW s \in Seq(Q), NEW S
    PROVE  \E f : /\ Without(s, S) = f[Len(s)] /\ f[0] = <<>>
                  /\ \A n \in 1..Len(s) : f[n] = Extended(s, S, n, f[n - 1])
<1> DEFINE N == Len(s)
           f == CHOOSE g : Keeping(s, S, N, g)
<1>0. N \in Nat
  OBVIOUS
<1>1. Without(s, S) = f[N]
  BY DEF Without, Keeping, Extended
<1>2. Keeping(s, S, N, f)
  BY <1>0, KeepingExists
<1> HIDE DEF f, N
<1>3. f[0] = <<>>
  BY <1>0, <1>2 DEF Keeping
<1>4. ASSUME NEW n \in 1..N PROVE f[n] = Extended(s, S, n, f[n - 1])
  <2>1. n \in 0..N /\ n # 0
    BY <1>0
  <2> QED
    BY <1>2, <2>1 DEF Keeping
<1> QED
  BY <1>1, <1>3, <1>4 DEF N

LEMMA AppendFacts ==
    ASSUME NEW Q, NEW s \in Seq(Q), NEW e \in Q
    PROVE  /\ Append(s, e) \in Seq(Q) /\ Append(s, e) # <<>>
           /\ Range(Append(s, e)) = Range(s) \union {e}
           /\ Distinct(s) /\ e \notin Range(s) => Distinct(Append(s, e))
           /\ Head(Append(s, e)) = IF s = <<>> THEN e ELSE Head(s)
<1> DEFINE a == Append(s, e)
<1>1. /\ a \in Seq(Q) /\ Len(s) \in Nat /\ Len(a) = Len(s) + 1 /\ a[Len(s) + 1] = e
      /\ \A i \in 1..Len(s) : a[i] = s[i]
  OBVIOUS
<1>2. DOMAIN a = 1..Len(a) /\ DOMAIN s = 1..Len(s)
  OBVIOUS
<1> HIDE DEF a
<1>3. \A i \in 1..Len(a) : i \in 1..Len(s) \/ i = Len(s) + 1
  BY <1>1
<1>4. \A i \in 1..Len(s) : i \in 1..Len(a)
  BY <1>1
<1>5. Len(s) + 1 \in 1..Len(a)
  BY <1>1
<1>6. Range(a) = Range(s) \union {e}
  BY <1>1, <1>2, <1>3, <1>4, <1>5 DEF Range
<1>7. Distinct(s) /\ e \notin Range(s) => Distinct(a)
  BY <1>1, <1>2, <1>3, <1>4 DEF Range, Distinct
<1>8. a # <<>>
  BY <1>1
<1>9. Head(a) = IF s = <<>> THEN e ELSE Head(s)
  BY DEF a
<1> QED
  BY <1>1, <1>6, <1>7, <1>8, <1>9 DEF a

LEMMA TailFacts ==
    ASSUME NEW Q, NEW s \in Seq(Q), s # <<>>, Distinct(s)
    PROVE  /\ Tail(s) \in Seq(Q) /\ Distinct(Tail(s)) /\ Range(Tail(s)) = Range(s) \ {Head(s)}
           /\ Head(s) \in Range(s)
<1> DEFINE t == Tail(s)
<1>1. /\ t \in Seq(Q) /\ Len(s) \in Nat /\ Len(s) # 0 /\ Len(t) = Len(s) - 1 /\ Head(s) = s[1]
      /\ \A i \in 1..Len(t) : t[i] = s[i + 1]
  OBVIOUS
<1>2. DOMAIN t = 1..Len(t) /\ DOMAIN s = 1..Len(s)
  OBVIOUS
<1> HIDE DEF t
<1>3. 1 \in 1..Len(s) /\ \A i \in 1..Len(t) : i + 1 \in 1..Len(s) /\ i + 1 # 1
  BY <1>1
<1>4. \A i \in 1..Len(s) : i = 1 \/ (i - 1 \in 1..Len(t) /\ (i - 1) + 1 = i)
  BY <1>1
<1>5. \A i, j \in 1..Len(t) : i + 1 = j + 1 => i = j
  BY <1>1
<1>6. Distinct(t)
  BY <1>1, <1>3, <1>5 DEF Distinct
<1>7. Range(t) \subseteq Range(s) \ {s[1]}
  BY <1>1, <1>2, <1>3 DEF Range, Distinct
<1>8. Range(s) \ {s[1]} \subseteq Range(t)
  <2> SUFFICES ASSUME NEW i \in 1..Len(s), s[i] # s[1] PROVE s[i] \in Range(t)
    BY <1>2 DEF Range
  <2>1. i - 1 \in 1..Len(t) /\ (i - 1) + 1 = i
    BY <1>4
  <2>2. t[i - 1] = s[i]
    BY <1>1, <2>1
  <2> QED
    BY <1>2, <2>1, <2>2 DEF Range
<1> QED
  BY <1>1, <1>2, <1>3, <1>6, <1>7, <1>8 DEF t, Range

(* Without keeps the order, the members outside S, and a head that stays. *)
LEMMA WithoutFacts ==
    ASSUME NEW Q, NEW s \in Seq(Q), NEW S
    PROVE  /\ Without(s, S) \in Seq(Q)
           /\ Range(Without(s, S)) = Range(s) \ S
           /\ Distinct(s) => Distinct(Without(s, S))
           /\ s # <<>> /\ Head(s) \notin S =>
                  Without(s, S) # <<>> /\ Head(Without(s, S)) = Head(s)
<1>1. PICK f : /\ Without(s, S) = f[Len(s)] /\ f[0] = <<>>
               /\ \A n \in 1..Len(s) : f[n] = Extended(s, S, n, f[n - 1])
  BY WithoutSteps
<1> DEFINE T == {n \in 0..Len(s) :
                   /\ f[n] \in Seq(Q)
                   /\ Range(f[n]) = {s[i] : i \in 1..n} \ S
                   /\ Distinct(s) => Distinct(f[n])
                   /\ n # 0 /\ s[1] \notin S => f[n] # <<>> /\ Head(f[n]) = s[1]}
<1>2. 0 \in T
  <2>1. <<>> \in Seq(Q) /\ {s[i] : i \in 1..0} = {} /\ Len(<<>>) = 0 /\ DOMAIN <<>> = {}
    OBVIOUS
  <2>2. Range(<<>>) = {} /\ Distinct(<<>>)
    BY <2>1 DEF Range, Distinct
  <2>3. 0 \in 0..Len(s)
    OBVIOUS
  <2> QED
    BY <1>1, <2>1, <2>2, <2>3
<1>3. ASSUME NEW n \in 1..Len(s), n - 1 \in T PROVE n \in T
  <2>1. /\ f[n - 1] \in Seq(Q) /\ Range(f[n - 1]) = {s[i] : i \in 1..(n - 1)} \ S
        /\ Distinct(s) => Distinct(f[n - 1])
        /\ n - 1 # 0 /\ s[1] \notin S => f[n - 1] # <<>> /\ Head(f[n - 1]) = s[1]
    BY <1>3
  <2>2. n \in Nat /\ n \in 0..Len(s) /\ n # 0 /\ s[n] \in Q /\ Len(s) \in Nat
    OBVIOUS
  <2>3. {s[i] : i \in 1..n} = {s[i] : i \in 1..(n - 1)} \union {s[n]}
    BY <2>2
  <2>4. f[n] = Extended(s, S, n, f[n - 1])
    BY <1>1
  <2>5. CASE s[n] \in S
    <3>1. f[n] = f[n - 1]
      BY <2>4, <2>5 DEF Extended
    <3>2. Range(f[n]) = {s[i] : i \in 1..n} \ S
      BY <2>1, <2>3, <2>5, <3>1
    <3>3. s[1] \notin S => n - 1 # 0
      BY <2>2, <2>5
    <3> QED
      BY <2>1, <2>2, <3>1, <3>2, <3>3
  <2>6. CASE s[n] \notin S
    <3>1. f[n] = Append(f[n - 1], s[n])
      BY <2>4, <2>6 DEF Extended
    <3>2. /\ f[n] \in Seq(Q) /\ f[n] # <<>>
          /\ Range(f[n]) = Range(f[n - 1]) \union {s[n]}
          /\ Distinct(f[n - 1]) /\ s[n] \notin Range(f[n - 1]) => Distinct(f[n])
          /\ Head(f[n]) = IF f[n - 1] = <<>> THEN s[n] ELSE Head(f[n - 1])
      BY <2>1, <2>2, <3>1, AppendFacts
    <3>3. Range(f[n]) = {s[i] : i \in 1..n} \ S
      BY <2>1, <2>3, <2>6, <3>2
    <3>4. ASSUME Distinct(s) PROVE Distinct(f[n])
      <4>1. \A i \in 1..(n - 1) : i \in 1..Len(s) /\ i # n
        BY <2>2
      <4>2. s[n] \notin {s[i] : i \in 1..(n - 1)}
        BY <3>4, <4>1 DEF Distinct
      <4> QED
        BY <2>1, <3>2, <3>4, <4>2
    <3>5. ASSUME s[1] \notin S PROVE Head(f[n]) = s[1]
      <4>1. CASE n - 1 = 0
        <5>1. n = 1
          BY <2>2, <4>1
        <5> QED
          BY <1>1, <3>2, <4>1, <5>1
      <4>2. CASE n - 1 # 0
        BY <2>1, <3>2, <3>5, <4>2
      <4> QED
        BY <4>1, <4>2
    <3> QED
      BY <2>2, <3>2, <3>3, <3>4, <3>5
  <2> QED
    BY <2>5, <2>6
<1> HIDE DEF T
<1>4. Len(s) \in Nat /\ Len(s) \in 0..Len(s)
  OBVIOUS
<1>5. Len(s) \in T
  BY <1>2, <1>3, <1>4, Induction
<1>6. Range(s) = {s[i] : i \in 1..Len(s)} /\ (s # <<>> => Head(s) = s[1] /\ Len(s) # 0)
  BY DEF Range
<1> QED
  BY <1>1, <1>5, <1>6 DEF T

-----------------------------------------------------------------------------
(***************************************************************************)
(* The invariant.                                                          *)
(***************************************************************************)
Rule == Decision \union {"session"} \union Settings

Place == Running \union {"idle", "queued", "signing", "done"}
Progress == [pc : Place, doc : Doc, key : Key, answer : Answer \union {"none", "automatic"}]
Edit == [pc : {"none", "load", "write", "save"}, kind : {"edit", "revoke"}, doc : Doc,
         key : Key, to : Rule, fresh : BOOLEAN, was : BOOLEAN]

TypeInv ==
    /\ saved \in [Source -> [Key -> Rule]]
    /\ rules \in [Doc -> [Key -> Rule]] /\ next \in [Doc -> [Key -> Rule]]
    /\ loaded \in [Doc -> {"no", "yes", "broken"}]
    /\ revoked \in [Doc -> SUBSET Key] /\ open \subseteq Doc /\ behind \subseteq Doc
    /\ queue \in [Source -> Seq(Request)]
    /\ req \in [Request -> Progress]
    /\ reply \in [Request -> {"none", "granted", "refused", "disclosed"}]
    /\ fresh \subseteq Request /\ overruled \subseteq Request
    /\ prompts \in Seq(Request) /\ shown \in BOOLEAN /\ paused \in BOOLEAN
    /\ closing = Nobody \/ closing \in [of : Request, answer : Answer]
    /\ change \in Edit

Waits(q) == req[q].pc \in Running \union {"queued"}

(* A source's queue holds its requests that are not done, the one at work  *)
(* first.                                                                  *)
QueueInv == \A s \in Source :
    /\ Distinct(queue[s])
    /\ \A q \in Request : q \in Range(queue[s]) <=> From(q) = s /\ Waits(q)
    /\ \A q \in Request : From(q) = s /\ req[q].pc \in Running => Head(queue[s]) = q

ReviewInv ==
    /\ \A q \in Request : req[q].pc = "review" <=> q \in Range(prompts) \/ Closing(q)
    /\ shown => prompts # <<>> /\ closing = Nobody /\ ~ paused
    /\ closing # Nobody => closing.of \notin Range(prompts)

(* What a document has read is what is saved. *)
CacheInv == \A d \in open \ behind : loaded[d] = "yes" =>
    \A k \in Key : Agrees(rules[d][k], saved[SourceOf[d]][k])

(* A request whose revision is current found the rules read, and its rule  *)
(* was not decided since.                                                  *)
FreshInv ==
    /\ \A q \in fresh : Of(q) \in open /\ req[q].pc \in Running \ {"load"} =>
           loaded[Of(q)] = "yes"
    /\ overruled \cap fresh = {}
    /\ \A q \in overruled : req[q].pc \notin {"idle", "queued"}

Inv == TypeInv /\ QueueInv /\ ReviewInv /\ CacheInv /\ FreshInv

LEMMA Constants ==
    /\ (CHOOSE d \in Doc : TRUE) \in Doc /\ (CHOOSE k \in Key : TRUE) \in Key
    /\ \A d \in Doc : SourceOf[d] \in Source
    /\ NoRules \in [Key -> Rule] /\ NoChange \in Edit
<1>1. (CHOOSE d \in Doc : TRUE) \in Doc /\ (CHOOSE k \in Key : TRUE) \in Key
  BY ConsentConstants
<1>2. NoRules \in [Key -> Rule]
  BY DEF NoRules, Rule, Decision
<1>3. NoChange \in Edit
  BY <1>1 DEF NoChange, Edit, Rule, Decision
<1> QED
  BY <1>1, <1>2, <1>3, ConsentConstants

LEMMA ConsentInit == Init => Inv
<1> SUFFICES ASSUME Init PROVE Inv
  OBVIOUS
<1>1. TypeInv
  <2>1. /\ saved \in [Source -> [Key -> Rule]]
        /\ rules \in [Doc -> [Key -> Rule]] /\ next \in [Doc -> [Key -> Rule]]
    BY Constants DEF Init
  <2>2. req \in [Request -> Progress]
    BY Constants DEF Init, Progress, Place
  <2>3. closing = Nobody /\ change \in Edit
    BY Constants DEF Init
  <2>4. queue \in [Source -> Seq(Request)] /\ prompts \in Seq(Request)
    BY DEF Init
  <2>5. /\ loaded \in [Doc -> {"no", "yes", "broken"}] /\ revoked \in [Doc -> SUBSET Key]
        /\ reply \in [Request -> {"none", "granted", "refused", "disclosed"}]
    BY DEF Init
  <2> QED
    BY <2>1, <2>2, <2>3, <2>4, <2>5 DEF Init, TypeInv
<1>2. \A q \in Request : req[q].pc = "idle"
  BY DEF Init
<1>3. Range(<<>>) = {} /\ Distinct(<<>>)
  BY DEF Range, Distinct
<1>4. QueueInv
  BY <1>2, <1>3 DEF Init, QueueInv, Waits, Running
<1>5. ReviewInv
  BY <1>2, <1>3 DEF Init, ReviewInv, Closing
<1>6. CacheInv /\ FreshInv
  BY DEF Init, CacheInv, FreshInv
<1> QED
  BY <1>1, <1>4, <1>5, <1>6 DEF Inv

(* What a request's progress is after a step. *)
SameAsked == \A r \in Request : req'[r].doc = req[r].doc /\ req'[r].key = req[r].key
Only(q, pc) ==
    /\ SameAsked /\ req' \in [Request -> Progress] /\ req'[q].pc = pc
    /\ \A r \in Request \ {q} : req'[r] = req[r]

LEMMA StepMoves ==
    ASSUME TypeInv, NEW q \in Request, NEW pc \in Place, Step(q, pc)
    PROVE  Only(q, pc) /\ queue' = queue /\ reply' = reply /\ req'[q].answer = req[q].answer
<1>1. req[q] \in Progress /\ req' = [req EXCEPT ![q] = [req[q] EXCEPT !.pc = pc]]
  BY DEF TypeInv, Step
<1> DEFINE new == [req[q] EXCEPT !.pc = pc]
<1>2. /\ new \in Progress /\ new.pc = pc /\ new.doc = req[q].doc /\ new.key = req[q].key
      /\ new.answer = req[q].answer
  BY <1>1 DEF Progress
<1> HIDE DEF new
<1>3. req' = [req EXCEPT ![q] = new]
  BY <1>1 DEF new
<1>4. Only(q, pc)
  BY <1>2, <1>3 DEF TypeInv, Only, SameAsked
<1>5. req'[q].answer = req[q].answer
  BY <1>2, <1>3 DEF TypeInv
<1> QED
  BY <1>4, <1>5 DEF Step

LEMMA EndsMoves ==
    ASSUME TypeInv, NEW q \in Request, NEW granted \in BOOLEAN, Ends(q, granted)
    PROVE  /\ Only(q, IF granted THEN "signing" ELSE "done")
           /\ queue' = [queue EXCEPT ![From(q)] = Tail(@)]
           /\ reply' \in [Request -> {"none", "granted", "refused", "disclosed"}]
           /\ \A r \in Request : reply'[r] = "disclosed" => reply[r] = "disclosed"
<1> DEFINE pc == IF granted THEN "signing" ELSE "done"
           new == [req[q] EXCEPT !.pc = pc, !.answer = "none"]
<1>1. req[q] \in Progress
  BY DEF TypeInv
<1>2. req' = [req EXCEPT ![q] = new]
  BY <1>1 DEF Ends, Progress, TypeInv
<1>3. /\ new \in Progress /\ new.pc = pc /\ new.doc = req[q].doc /\ new.key = req[q].key
  BY <1>1 DEF Progress, Place
<1> HIDE DEF new
<1>4. Only(q, pc)
  BY <1>2, <1>3 DEF TypeInv, Only, SameAsked
<1>5. queue' = [queue EXCEPT ![From(q)] = Tail(@)]
  BY DEF Ends
<1>6. /\ reply' \in [Request -> {"none", "granted", "refused", "disclosed"}]
      /\ \A r \in Request : reply'[r] = "disclosed" => reply[r] = "disclosed"
  BY DEF Ends, TypeInv
<1> QED
  BY <1>4, <1>5, <1>6

-----------------------------------------------------------------------------
(* What keeps each part. *)

AnswersLatest ==
    \A q \in Request :
       /\ req[q].pc = "load" /\ req'[q].pc = "record" /\ Undisturbed(q) =>
            /\ InForce(q) # "none"
            /\ req'[q].answer = "automatic" <=> InForce(q) # "deny"
       /\ req[q].pc = "load" /\ req'[q].pc = "review" /\ Undisturbed(q) =>
            InForce(q) = "none" \/ req[q].key \in revoked[Of(q)]
       /\ req[q].pc = "save" /\ req'[q].pc = "commit" => q \notin overruled
       /\ reply[q] # "disclosed" /\ reply'[q] = "disclosed" => q \notin overruled

(* No request is answered by a rule, saved or disclosed. *)
NothingDecided == \A q \in Request :
    /\ req[q].pc = "load" => req'[q].pc \notin {"record", "review"}
    /\ req[q].pc = "save" => req'[q].pc # "commit"
    /\ reply'[q] = "disclosed" => reply[q] = "disclosed"

LEMMA LatestFrame == NothingDecided => AnswersLatest
  BY DEF NothingDecided, AnswersLatest

LEMMA QueueFrame ==
    ASSUME QueueInv, SameAsked, queue' = queue,
           \A q \in Request : Waits(q)' <=> Waits(q),
           \A q \in Request : req'[q].pc \in Running => req[q].pc \in Running
    PROVE  QueueInv'
<1>1. \A q \in Request : From(q)' = From(q)
  BY DEF SameAsked, From, Of
<1> QED
  BY <1>1 DEF QueueInv

LEMMA ReviewFrame ==
    ASSUME ReviewInv, UNCHANGED reviews,
           \A q \in Request : req'[q].pc = "review" <=> req[q].pc = "review"
    PROVE  ReviewInv'
<1>1. prompts' = prompts /\ shown' = shown /\ closing' = closing /\ paused' = paused
  BY DEF reviews
<1> QED
  BY <1>1 DEF ReviewInv, Closing

LEMMA CacheFrame ==
    ASSUME TypeInv, CacheInv, open' \subseteq open, NEW s,
           \A d \in open : SourceOf[d] # s =>
               /\ saved'[SourceOf[d]] = saved[SourceOf[d]] /\ rules'[d] = rules[d]
               /\ loaded'[d] = loaded[d] /\ (d \in behind => d \in behind'),
           \A d \in open : SourceOf[d] = s =>
               \/ loaded'[d] # "yes" \/ d \in behind'
               \/ \A k \in Key : Agrees(rules'[d][k], saved'[s][k])
    PROVE  CacheInv'
<1> SUFFICES ASSUME NEW d \in open' \ behind', loaded'[d] = "yes", NEW k \in Key
             PROVE  Agrees(rules'[d][k], saved'[SourceOf[d]][k])
  BY DEF CacheInv, Agrees
<1>1. CASE SourceOf[d] # s
  BY <1>1 DEF CacheInv
<1>2. CASE SourceOf[d] = s
  BY <1>2
<1> QED
  BY <1>1, <1>2

LEMMA FreshFrame ==
    ASSUME TypeInv, FreshInv, open' \subseteq open,
           fresh' = fresh, overruled' = overruled,
           \A d \in open : loaded[d] = "yes" => loaded'[d] = "yes",
           \A q \in fresh : Of(q)' \in open /\ req'[q].pc \in Running \ {"load"} =>
               \/ Of(q)' = Of(q) /\ req[q].pc \in Running \ {"load"}
               \/ loaded'[Of(q)'] = "yes",
           \A q \in overruled : req[q].pc \notin {"idle", "queued"} =>
                                req'[q].pc \notin {"idle", "queued"}
    PROVE  FreshInv'
  BY DEF FreshInv

(* An invalidation of the rules of a source, by a request or none. *)
LEMMA FreshDrops ==
    ASSUME TypeInv, FreshInv, NEW s, NEW k, NEW by \in SUBSET Request, SameAsked,
           open' \subseteq open, fresh' = StillFresh(s) \union by, Overrules(s, k, by),
           \A d \in open : SourceOf[d] # s => loaded'[d] = loaded[d],
           \A q \in Request \ by : req'[q].pc = req[q].pc,
           \A q \in by : loaded'[Of(q)] = "yes" /\ req'[q].pc \notin {"idle", "queued"}
    PROVE  FreshInv'
<1>1. \A q \in Request : Of(q)' = Of(q)
  BY DEF SameAsked, Of
<1>2. \A q \in fresh' : q \in by \/ (q \in fresh /\ From(q) # s /\ req'[q].pc = req[q].pc)
  BY DEF StillFresh, TypeInv
<1>3. ASSUME NEW q \in fresh', Of(q)' \in open', req'[q].pc \in Running \ {"load"}
      PROVE  loaded'[Of(q)'] = "yes"
  <2>1. CASE q \in by
    BY <1>1, <2>1
  <2>2. CASE q \in fresh /\ From(q) # s /\ req'[q].pc = req[q].pc
    <3>1. Of(q) \in open /\ loaded'[Of(q)] = loaded[Of(q)]
      BY <1>1, <1>3, <2>2 DEF From, TypeInv
    <3> QED
      BY <1>1, <1>3, <2>2, <3>1 DEF FreshInv, TypeInv
  <2> QED
    BY <1>2, <2>1, <2>2
<1>4. overruled' \cap fresh' = {}
  BY <1>2 DEF FreshInv, Overrules
<1>5. \A q \in overruled' : req'[q].pc \notin {"idle", "queued"}
  BY DEF FreshInv, Overrules, Running, TypeInv
<1> QED
  BY <1>3, <1>4, <1>5 DEF FreshInv

(* One request of a source is at work. *)
LEMMA AtWork ==
    ASSUME TypeInv, QueueInv, NEW q \in Request, req[q].pc \in Running
    PROVE  /\ queue[From(q)] # <<>> /\ Head(queue[From(q)]) = q /\ From(q) \in Source
           /\ \A r \in Request : From(r) = From(q) /\ req[r].pc \in Running => r = q
<1>1. From(q) \in Source /\ queue[From(q)] \in Seq(Request)
  BY Constants DEF TypeInv, From, Of, Progress
<1>2. q \in Range(queue[From(q)])
  BY <1>1 DEF QueueInv, Waits
<1>3. queue[From(q)] # <<>>
  BY <1>1, <1>2 DEF Range
<1> QED
  BY <1>1, <1>3 DEF QueueInv

(* The request at work ends, and the next one of its source may begin. *)
LEMMA QueueEnds ==
    ASSUME TypeInv, QueueInv, NEW q \in Request, req[q].pc \in Running,
           NEW pc \in {"signing", "done"}, Only(q, pc),
           queue' = [queue EXCEPT ![From(q)] = Tail(@)]
    PROVE  QueueInv' /\ queue' \in [Source -> Seq(Request)]
<1>1. /\ queue[From(q)] # <<>> /\ Head(queue[From(q)]) = q /\ From(q) \in Source
      /\ \A r \in Request : From(r) = From(q) /\ req[r].pc \in Running => r = q
  BY AtWork
<1>2. /\ queue[From(q)] \in Seq(Request) /\ Distinct(queue[From(q)])
  BY <1>1 DEF TypeInv, QueueInv
<1>3. /\ Tail(queue[From(q)]) \in Seq(Request) /\ Distinct(Tail(queue[From(q)]))
      /\ Range(Tail(queue[From(q)])) = Range(queue[From(q)]) \ {q}
  BY <1>1, <1>2, TailFacts
<1> DEFINE t == Tail(queue[From(q)])
<1>4. /\ queue'[From(q)] = t /\ \A s \in Source \ {From(q)} : queue'[s] = queue[s]
      /\ queue' \in [Source -> Seq(Request)]
  BY <1>1, <1>3 DEF TypeInv
<1> HIDE DEF t
<1>5. \A r \in Request : From(r)' = From(r)
  BY DEF Only, SameAsked, From, Of
<1>6. /\ ~ Waits(q)' /\ req'[q].pc \notin Running
      /\ \A r \in Request \ {q} : (Waits(r)' <=> Waits(r)) /\ req'[r].pc = req[r].pc
  BY DEF Only, Waits, Running
<1>7. ASSUME NEW s \in Source
      PROVE  /\ Distinct(queue'[s])
             /\ \A r \in Request : r \in Range(queue'[s]) <=> From(r) = s /\ Waits(r)'
             /\ \A r \in Request : From(r) = s /\ req'[r].pc \in Running => Head(queue'[s]) = r
  <2>1. CASE s = From(q)
    <3>1. \A r \in Request : From(r) = s => req'[r].pc \notin Running
      BY <1>1, <1>6, <2>1
    <3>2. \A r \in Request : r \in Range(t) <=> r # q /\ From(r) = s /\ Waits(r)
      BY <1>3, <2>1 DEF t, QueueInv
    <3> QED
      BY <1>3, <1>4, <1>6, <2>1, <3>1, <3>2 DEF t
  <2>2. CASE s # From(q)
    BY <1>4, <1>6, <2>2 DEF QueueInv
  <2> QED
    BY <2>1, <2>2
<1>8. QueueInv'
  BY <1>5, <1>7, Zenon DEF QueueInv
<1> QED
  BY <1>4, <1>8

(* Documents that read nothing, and nothing saved. *)
LEMMA CacheSame ==
    ASSUME CacheInv, saved' = saved, rules' = rules, open' \subseteq open, behind' = behind,
           \A d \in open : loaded'[d] = "yes" => loaded[d] = "yes"
    PROVE  CacheInv'
  BY DEF CacheInv, Agrees

(* What a document finds when it reads the rules. *)
LEMMA ReadRules ==
    ASSUME TypeInv, CacheInv, NEW d \in open \ behind, NEW k \in Key, loaded[d] # "broken"
    PROVE  Agrees(Loaded(d)[k], saved[SourceOf[d]][k])
<1>1. CASE loaded[d] = "no"
  BY <1>1 DEF Loaded, Reread, Agrees
<1>2. CASE loaded[d] = "yes"
  BY <1>2 DEF Loaded, CacheInv
<1> QED
  BY <1>1, <1>2 DEF TypeInv

(* A document has read the rules. *)
LEMMA LoadType ==
    ASSUME TypeInv, NEW d \in Doc, Load(d)
    PROVE  /\ rules' \in [Doc -> [Key -> Rule]]
           /\ loaded' \in [Doc -> {"no", "yes", "broken"}]
           /\ rules'[d] = Loaded(d) /\ loaded'[d] = "yes"
           /\ \A e \in Doc \ {d} : rules'[e] = rules[e] /\ loaded'[e] = loaded[e]
<1>1. Reread(d) \in [Key -> Rule]
  BY Constants DEF TypeInv, Reread, Rule, Decision
<1>2. Loaded(d) \in [Key -> Rule]
  BY <1>1 DEF Loaded, TypeInv
<1> QED
  BY <1>2 DEF Load, TypeInv

LEMMA CacheLoads ==
    ASSUME TypeInv, CacheInv, NEW d \in Doc, Load(d), loaded[d] # "broken",
           saved' = saved, open' \subseteq open, behind' = behind
    PROVE  CacheInv'
<1>1. /\ rules'[d] = Loaded(d)
      /\ \A e \in Doc \ {d} : rules'[e] = rules[e] /\ loaded'[e] = loaded[e]
  BY LoadType
<1> SUFFICES ASSUME NEW e \in open' \ behind', loaded'[e] = "yes", NEW k \in Key
             PROVE  Agrees(rules'[e][k], saved'[SourceOf[e]][k])
  BY DEF CacheInv, Agrees
<1>2. CASE e = d
  BY <1>1, <1>2, ReadRules
<1>3. CASE e # d
  BY <1>1, <1>3 DEF CacheInv, TypeInv
<1> QED
  BY <1>2, <1>3

(* A step of one request that has neither begun nor ended with it. *)
LEMMA QueueWorks ==
    ASSUME TypeInv, QueueInv, NEW q \in Request, req[q].pc \in Running, NEW pc \in Running,
           Only(q, pc), queue' = queue
    PROVE  QueueInv'
<1>1. SameAsked /\ \A r \in Request : (Waits(r)' <=> Waits(r))
  BY DEF Only, Waits
<1>2. \A r \in Request : req'[r].pc \in Running => req[r].pc \in Running
  BY DEF Only
<1> QED
  BY <1>1, <1>2, QueueFrame

(* A step of one request that is not under review. *)
LEMMA ReviewSame ==
    ASSUME ReviewInv, UNCHANGED reviews, NEW q \in Request, NEW pc, Only(q, pc),
           pc # "review", req[q].pc # "review"
    PROVE  ReviewInv'
<1>1. \A r \in Request : req'[r].pc = "review" <=> req[r].pc = "review"
  BY DEF Only
<1> QED
  BY <1>1, ReviewFrame

(* A request that goes on with its rules as they were. *)
LEMMA FreshSame ==
    ASSUME TypeInv, FreshInv, open' = open, fresh' = fresh, overruled' = overruled,
           \A d \in open : loaded[d] = "yes" => loaded'[d] = "yes",
           NEW q \in Request, NEW pc, Only(q, pc), pc \notin {"idle", "queued"},
           \/ req[q].pc \in Running \ {"load"} \/ loaded'[Of(q)] = "yes"
           \/ pc \notin Running \ {"load"}
    PROVE  FreshInv'
<1>1. \A r \in Request : Of(r)' = Of(r)
  BY DEF Only, SameAsked, Of
<1>2. \A r \in fresh : Of(r)' \in open /\ req'[r].pc \in Running \ {"load"} =>
               \/ Of(r)' = Of(r) /\ req[r].pc \in Running \ {"load"}
               \/ loaded'[Of(r)'] = "yes"
  BY <1>1 DEF Only, TypeInv
<1>3. \A r \in overruled : req[r].pc \notin {"idle", "queued"} =>
                           req'[r].pc \notin {"idle", "queued"}
  BY DEF Only, TypeInv
<1> QED
  BY <1>1, <1>2, <1>3, FreshFrame

LEMMA ConsentBegins ==
    ASSUME Inv, NEW q \in Request, Begin(q) PROVE Inv' /\ AnswersLatest
<1> USE DEF Inv
<1>1. /\ req[q].pc = "queued" /\ Head(queue[From(q)]) = q /\ Step(q, "load")
      /\ fresh' = fresh \union {q}
      /\ UNCHANGED <<saved, docs, reviews, change, overruled>>
  BY DEF Begin
<1>2. Only(q, "load") /\ queue' = queue /\ reply' = reply
  BY <1>1, StepMoves DEF Place, Running
<1>3. TypeInv'
  BY <1>1, <1>2 DEF TypeInv, docs, reviews, Only
<1>4. QueueInv'
  <2>1. \A r \in Request : From(r)' = From(r) /\ (Waits(r)' <=> Waits(r))
    BY <1>1, <1>2 DEF Only, SameAsked, From, Of, Waits, Running
  <2>2. From(q) \in Source /\ Waits(q)
    BY <1>1, Constants DEF TypeInv, From, Of, Progress, Waits
  <2>3. \A r \in Request : From(r) = From(q) /\ req[r].pc \in Running => r = q
    BY <1>1, <2>2 DEF QueueInv
  <2>4. \A s \in Source, r \in Request : From(r) = s /\ req'[r].pc \in Running =>
            Head(queue[s]) = r
    BY <1>1, <1>2, <2>3 DEF Only, QueueInv
  <2> QED
    BY <1>2, <2>1, <2>4 DEF QueueInv
<1>5. ReviewInv'
  BY <1>1, <1>2, ReviewSame
<1>6. CacheInv'
  BY <1>1, CacheSame DEF docs
<1>7. FreshInv'
  <2>1. \A r \in Request : Of(r)' = Of(r) /\ (r # q => req'[r] = req[r])
    BY <1>2 DEF Only, SameAsked, Of
  <2>2. \A r \in fresh' : Of(r)' \in open' /\ req'[r].pc \in Running \ {"load"} =>
            loaded'[Of(r)'] = "yes"
    BY <1>1, <1>2, <2>1 DEF FreshInv, Only, docs, TypeInv
  <2>3. q \notin overruled
    BY <1>1 DEF FreshInv
  <2>4. \A r \in overruled' : req'[r].pc \notin {"idle", "queued"}
    BY <1>1, <2>1, <2>3 DEF FreshInv, TypeInv
  <2>5. overruled' \cap fresh' = {}
    BY <1>1, <2>3 DEF FreshInv
  <2> QED
    BY <2>2, <2>4, <2>5 DEF FreshInv
<1>8. AnswersLatest
  BY <1>1, <1>2, LatestFrame DEF NothingDecided, Only
<1> QED
  BY <1>3, <1>4, <1>5, <1>6, <1>7, <1>8

(* The end of a request, of those that run. *)
LEMMA ConsentEnds ==
    ASSUME Inv, NEW q \in Request, req[q].pc \in Running \ {"review"},
           NEW granted \in BOOLEAN, Ends(q, granted),
           UNCHANGED <<open, fresh, reviews, overruled>>,
           \A d \in open : loaded[d] = "yes" => loaded'[d] = "yes"
    PROVE  /\ QueueInv' /\ ReviewInv' /\ FreshInv' /\ AnswersLatest
           /\ req' \in [Request -> Progress] /\ queue' \in [Source -> Seq(Request)]
           /\ reply' \in [Request -> {"none", "granted", "refused", "disclosed"}]
<1> USE DEF Inv
<1> DEFINE pc == IF granted THEN "signing" ELSE "done"
<1>1. /\ Only(q, pc) /\ queue' = [queue EXCEPT ![From(q)] = Tail(@)]
      /\ reply' \in [Request -> {"none", "granted", "refused", "disclosed"}]
      /\ \A r \in Request : reply'[r] = "disclosed" => reply[r] = "disclosed"
  BY EndsMoves
<1>2. pc \in {"signing", "done"} /\ pc \notin Running
  BY DEF Running
<1> HIDE DEF pc
<1>3. QueueInv' /\ queue' \in [Source -> Seq(Request)]
  BY <1>1, <1>2, QueueEnds
<1>4. ReviewInv'
  BY <1>1, <1>2, ReviewSame
<1>5. FreshInv'
  BY <1>1, <1>2, FreshSame
<1>6. AnswersLatest
  BY <1>1, <1>2, LatestFrame DEF NothingDecided, Only
<1> QED
  BY <1>1, <1>3, <1>4, <1>5, <1>6 DEF Only

(* Only one request decides. *)
LEMMA LatestOf ==
    ASSUME NEW q \in Request, NEW pc, Only(q, pc),
           \A r \in Request : reply'[r] = "disclosed" => reply[r] = "disclosed",
           req[q].pc = "load" /\ pc = "record" /\ Undisturbed(q) =>
               /\ InForce(q) # "none"
               /\ req'[q].answer = "automatic" <=> InForce(q) # "deny",
           req[q].pc = "load" /\ pc = "review" /\ Undisturbed(q) =>
               InForce(q) = "none" \/ req[q].key \in revoked[Of(q)],
           req[q].pc = "save" /\ pc = "commit" => q \notin overruled
    PROVE  AnswersLatest
<1>1. \A r \in Request : r # q => req'[r] = req[r]
  BY DEF Only
<1>2. req'[q].pc = pc
  BY DEF Only
<1> SUFFICES ASSUME NEW r \in Request
             PROVE  /\ req[r].pc = "load" /\ req'[r].pc = "record" /\ Undisturbed(r) =>
                        /\ InForce(r) # "none"
                        /\ req'[r].answer = "automatic" <=> InForce(r) # "deny"
                    /\ req[r].pc = "load" /\ req'[r].pc = "review" /\ Undisturbed(r) =>
                        InForce(r) = "none" \/ req[r].key \in revoked[Of(r)]
                    /\ req[r].pc = "save" /\ req'[r].pc = "commit" => r \notin overruled
                    /\ reply[r] # "disclosed" /\ reply'[r] = "disclosed" => r \notin overruled
  BY DEF AnswersLatest
<1>3. CASE r = q
  BY <1>2, <1>3
<1>4. CASE r # q
  BY <1>1, <1>4
<1> QED
  BY <1>3, <1>4

(* The rule found is the one in force, unless the document is behind. *)
LEMMA RuleInForce ==
    ASSUME TypeInv, CacheInv, NEW q \in Request, Of(q) \in open, Load(Of(q)),
           loaded[Of(q)] # "broken", Undisturbed(q)
    PROVE  InForce(q) = Loaded(Of(q))[req[q].key]
<1>1. /\ Of(q) \in Doc \ behind /\ req[q].key \in Key /\ From(q) = SourceOf[Of(q)]
  BY DEF TypeInv, Of, Progress, Undisturbed, From
<1>2. Agrees(Loaded(Of(q))[req[q].key], saved[From(q)][req[q].key])
  BY <1>1, ReadRules
<1>3. rules'[Of(q)] = Loaded(Of(q))
  BY <1>1, LoadType
<1> QED
  BY <1>2, <1>3 DEF InForce, Agrees

LEMMA ConsentConsults ==
    ASSUME Inv, NEW q \in Request, Consult(q) PROVE Inv' /\ AnswersLatest
<1> USE DEF Inv
<1> DEFINE d == Of(q)
           rule == Applying(q)
<1>1. /\ req[q].pc = "load" /\ loaded[d] # "broken" /\ Load(d)
      /\ UNCHANGED <<saved, revoked, writes, next, open, behind, fresh, change, overruled>>
  BY Zenon DEF Consult
<1>2. d \in Doc /\ req[q].key \in Key /\ req[q] \in Progress
  BY DEF TypeInv, Of, Progress
<1> HIDE DEF d
<1>3. /\ rules' \in [Doc -> [Key -> Rule]] /\ loaded' \in [Doc -> {"no", "yes", "broken"}]
      /\ rules'[d] = Loaded(d) /\ loaded'[d] = "yes"
      /\ \A e \in Doc \ {d} : rules'[e] = rules[e] /\ loaded'[e] = loaded[e]
  BY <1>1, <1>2, LoadType
<1>4. \A e \in open : loaded[e] = "yes" => loaded'[e] = "yes"
  BY <1>3 DEF TypeInv
<1>5. CacheInv'
  BY <1>1, <1>2, CacheLoads
<1>6. \/ Ends(q, FALSE) /\ UNCHANGED reviews
      \/ /\ Current(q) /\ rule # "none" /\ UNCHANGED <<queue, reply, reviews>>
         /\ req' = [req EXCEPT ![q].pc = "record",
                               ![q].answer = IF rule = "deny" THEN "reject" ELSE "automatic"]
      \/ /\ Current(q) /\ rule = "none" /\ Step(q, "review") /\ prompts' = Append(prompts, q)
         /\ UNCHANGED <<closing, paused>> /\ Emit
  BY Zenon DEF Consult
<1>7. CASE Ends(q, FALSE) /\ UNCHANGED reviews
  <2>1. /\ QueueInv' /\ ReviewInv' /\ FreshInv' /\ AnswersLatest
        /\ req' \in [Request -> Progress] /\ queue' \in [Source -> Seq(Request)]
        /\ reply' \in [Request -> {"none", "granted", "refused", "disclosed"}]
    BY <1>1, <1>4, <1>7, ConsentEnds DEF Running
  <2>2. TypeInv'
    BY <1>1, <1>3, <1>7, <2>1 DEF TypeInv, reviews
  <2> QED
    BY <1>5, <2>1, <2>2
<1>8. CASE /\ Current(q) /\ rule # "none" /\ UNCHANGED <<queue, reply, reviews>>
           /\ req' = [req EXCEPT ![q].pc = "record",
                                 ![q].answer = IF rule = "deny" THEN "reject" ELSE "automatic"]
  <2> DEFINE answer == IF rule = "deny" THEN "reject" ELSE "automatic"
             new == [req[q] EXCEPT !.pc = "record", !.answer = answer]
  <2>1. /\ new \in Progress /\ new.pc = "record" /\ new.doc = req[q].doc
        /\ new.key = req[q].key /\ new.answer = answer
    BY <1>2 DEF Progress, Place, Running, Answer
  <2>2. req' = [req EXCEPT ![q] = new]
    BY <1>2, <1>8 DEF TypeInv
  <2> HIDE DEF new
  <2>3. Only(q, "record") /\ req'[q].answer = answer
    BY <2>1, <2>2 DEF TypeInv, Only, SameAsked
  <2>4. TypeInv'
    BY <1>1, <1>3, <1>8, <2>3 DEF TypeInv, reviews, Only
  <2>5. QueueInv'
    BY <1>1, <1>8, <2>3, QueueWorks DEF Running
  <2>6. ReviewInv'
    BY <1>1, <1>8, <2>3, ReviewSame
  <2>7. FreshInv'
    BY <1>1, <1>3, <1>4, <2>3, FreshSame DEF d
  <2>8. Undisturbed(q) => /\ InForce(q) # "none"
                          /\ answer = "automatic" <=> InForce(q) # "deny"
    <3>1. Of(q) \in open
      BY <1>8 DEF Current
    <3>2. Undisturbed(q) => InForce(q) = Loaded(Of(q))[req[q].key]
      BY <1>1, <3>1, RuleInForce DEF d
    <3>3. rule = Loaded(Of(q))[req[q].key]
      BY <1>8 DEF Applying, d
    <3> QED
      BY <1>8, <3>2, <3>3
  <2>9. AnswersLatest
    BY <1>1, <1>8, <2>3, <2>8, LatestOf
  <2> QED
    BY <1>5, <2>4, <2>5, <2>6, <2>7, <2>9
<1>9. CASE /\ Current(q) /\ rule = "none" /\ Step(q, "review") /\ prompts' = Append(prompts, q)
           /\ UNCHANGED <<closing, paused>> /\ Emit
  <2>1. Only(q, "review") /\ queue' = queue /\ reply' = reply
    BY <1>9, StepMoves DEF Place, Running
  <2>2. prompts' \in Seq(Request) /\ prompts' # <<>> /\ Range(prompts') = Range(prompts) \union {q}
    BY <1>9, AppendFacts DEF TypeInv
  <2>3. shown' \in BOOLEAN /\ (shown' => closing' = Nobody /\ ~ paused')
    <3>1. shown' => closing' = Nobody /\ ~ paused'
      BY <1>9 DEF Emit, ReviewInv
    <3> QED
      BY <1>9, <3>1, Zenon DEF Emit
  <2>4. TypeInv'
    BY <1>1, <1>3, <1>9, <2>1, <2>2, <2>3 DEF TypeInv, Only
  <2>5. QueueInv'
    BY <1>1, <1>9, <2>1, QueueWorks DEF Running
  <2>6. ReviewInv'
    <3>1. ~ Closing(q)
      BY <1>1 DEF ReviewInv
    <3>2. \A r \in Request : Closing(r)' <=> Closing(r)
      BY <1>9 DEF Closing
    <3>3. \A r \in Request : req'[r].pc = "review" <=> r \in Range(prompts') \/ Closing(r)'
      BY <2>1, <2>2, <3>2 DEF ReviewInv, Only
    <3>4. closing' # Nobody => closing'.of \notin Range(prompts')
      BY <1>9, <2>2, <3>1 DEF ReviewInv, Closing
    <3> QED
      BY <2>2, <2>3, <3>3, <3>4 DEF ReviewInv
  <2>7. FreshInv'
    BY <1>1, <1>3, <1>4, <2>1, FreshSame DEF d
  <2>8. Undisturbed(q) => InForce(q) = "none" \/ req[q].key \in revoked[Of(q)]
    <3>1. Of(q) \in open
      BY <1>9 DEF Current
    <3>2. Undisturbed(q) => InForce(q) = Loaded(Of(q))[req[q].key]
      BY <1>1, <3>1, RuleInForce DEF d
    <3> QED
      BY <1>9, <3>2 DEF Applying, d
  <2>9. AnswersLatest
    BY <1>1, <2>1, <2>8, LatestOf
  <2> QED
    BY <1>5, <2>4, <2>5, <2>6, <2>7, <2>9
<1> QED
  BY <1>6, <1>7, <1>8, <1>9

-----------------------------------------------------------------------------
(* Invalidations. *)

LEMMA InvalidatedType ==
    ASSUME TypeInv, NEW s, NEW k
    PROVE  /\ Invalidated(s, k) \in [Doc -> [Key -> Rule]]
           /\ Unloaded(s) \in [Doc -> {"no", "yes", "broken"}]
           /\ \A d \in open : SourceOf[d] = s => Unloaded(s)[d] = "no"
           /\ StillFresh(s) \subseteq Request /\ UpToDate(s) \subseteq Doc
           /\ \A d \in behind : SourceOf[d] # s => d \in UpToDate(s)
<1>1. Invalidated(s, k) \in [Doc -> [Key -> Rule]]
  <2>1. ASSUME NEW d \in Doc
        PROVE  (IF SourceOf[d] # s \/ d \notin open THEN rules[d]
                ELSE [o \in Key |-> IF o # k /\ rules[d][o] = "session" THEN "session" ELSE "none"])
                   \in [Key -> Rule]
    BY DEF TypeInv, Rule, Decision
  <2> QED
    BY <2>1 DEF Invalidated
<1>2. Unloaded(s) \in [Doc -> {"no", "yes", "broken"}]
  BY DEF TypeInv, Unloaded
<1> QED
  BY <1>1, <1>2 DEF TypeInv, Invalidated, Unloaded, StillFresh, UpToDate

LEMMA OverrulesType ==
    ASSUME TypeInv, NEW s, NEW k, NEW by, Overrules(s, k, by)
    PROVE  overruled' \subseteq Request
  BY DEF TypeInv, Overrules

(* A write of a document puts its own rules in force. *)
LEMMA Installs ==
    ASSUME TypeInv, CacheInv, NEW d \in Doc, NEW k \in Key, NEW rule \in Rule,
           NEW by \in SUBSET Request, Install(d, k, rule, by), open' = open
    PROVE  /\ CacheInv' /\ saved' \in [Source -> [Key -> Rule]]
           /\ rules' \in [Doc -> [Key -> Rule]]
           /\ loaded' \in [Doc -> {"no", "yes", "broken"}] /\ loaded'[d] = "yes"
           /\ \A e \in Doc : SourceOf[e] # SourceOf[d] => loaded'[e] = loaded[e]
           /\ fresh' = StillFresh(SourceOf[d]) \union by
           /\ Overrules(SourceOf[d], k, by)
           /\ fresh' \subseteq Request /\ overruled' \subseteq Request /\ behind' \subseteq Doc
<1>0. PICK s : s = SourceOf[d]
  OBVIOUS
<1> DEFINE new == [next[d] EXCEPT ![k] = rule]
           kept == IF rule = "session" THEN "none" ELSE rule
<1>1. /\ saved' = [saved EXCEPT ![s][k] = kept]
      /\ rules' = [Invalidated(s, k) EXCEPT ![d] = new]
      /\ loaded' = [Unloaded(s) EXCEPT ![d] = "yes"]
      /\ fresh' = StillFresh(s) \union by
      /\ behind' = IF \A o \in Key \ {k} : Agrees(new[o], saved[s][o])
                   THEN UpToDate(s) ELSE UpToDate(s) \union {d}
      /\ Overrules(s, k, by)
  BY <1>0, Zenon DEF Install
<1>2. s \in Source /\ new \in [Key -> Rule] /\ new[k] = rule /\ kept \in Rule
      /\ next[d] \in [Key -> Rule]
  BY <1>0, Constants DEF TypeInv, Rule, Decision
<1> HIDE DEF new
<1>3. /\ Invalidated(s, k) \in [Doc -> [Key -> Rule]]
      /\ Unloaded(s) \in [Doc -> {"no", "yes", "broken"}]
      /\ \A e \in open : SourceOf[e] = s => Unloaded(s)[e] = "no"
      /\ StillFresh(s) \subseteq Request /\ UpToDate(s) \subseteq Doc
      /\ \A e \in behind : SourceOf[e] # s => e \in UpToDate(s)
  BY InvalidatedType
<1>3a. \A e \in Doc : SourceOf[e] # s =>
             Invalidated(s, k)[e] = rules[e] /\ Unloaded(s)[e] = loaded[e]
  BY DEF Invalidated, Unloaded
<1>4. /\ rules' \in [Doc -> [Key -> Rule]] /\ rules'[d] = new
      /\ \A e \in Doc \ {d} : rules'[e] = Invalidated(s, k)[e]
  BY <1>1, <1>2, <1>3
<1>5. /\ loaded' \in [Doc -> {"no", "yes", "broken"}] /\ loaded'[d] = "yes"
      /\ \A e \in Doc \ {d} : loaded'[e] = Unloaded(s)[e]
  BY <1>1, <1>3
<1>6. /\ saved' \in [Source -> [Key -> Rule]] /\ saved'[s][k] = kept
      /\ \A o \in Key \ {k} : saved'[s][o] = saved[s][o]
      /\ \A t \in Source \ {s} : saved'[t] = saved[t]
  BY <1>1, <1>2 DEF TypeInv
<1>7. \A e \in Doc : SourceOf[e] # s => e # d /\ SourceOf[e] \in Source \ {s}
  BY <1>0, Constants
<1>8. \A e \in open : SourceOf[e] # s =>
          /\ saved'[SourceOf[e]] = saved[SourceOf[e]] /\ rules'[e] = rules[e]
          /\ loaded'[e] = loaded[e] /\ (e \in behind => e \in behind')
  BY <1>1, <1>3, <1>4, <1>5, <1>6, <1>7, <1>3a DEF TypeInv
<1>9. \A e \in open : SourceOf[e] = s =>
          \/ loaded'[e] # "yes" \/ e \in behind'
          \/ \A o \in Key : Agrees(rules'[e][o], saved'[s][o])
  <2>1. ASSUME d \notin behind' PROVE \A o \in Key : Agrees(rules'[d][o], saved'[s][o])
    <3>1. \A o \in Key \ {k} : Agrees(new[o], saved[s][o])
      BY <1>1, <2>1
    <3>2. Agrees(new[k], kept)
      BY <1>2 DEF Agrees
    <3> QED
      BY <1>4, <1>6, <3>1, <3>2
  <2>2. ASSUME NEW e \in open, SourceOf[e] = s, e # d PROVE loaded'[e] # "yes"
    BY <1>3, <1>5, <2>2 DEF TypeInv
  <2> QED
    BY <2>1, <2>2
<1>10. CacheInv'
  BY <1>8, <1>9, CacheFrame
<1>11. \A e \in Doc : SourceOf[e] # s => loaded'[e] = loaded[e]
  BY <1>3, <1>5, <1>7, <1>3a
<1>12. fresh' \subseteq Request /\ behind' \subseteq Doc /\ overruled' \subseteq Request
  BY <1>1, <1>3, OverrulesType
<1> QED
  BY <1>0, <1>1, <1>4, <1>5, <1>6, <1>10, <1>11, <1>12

-----------------------------------------------------------------------------
(* The other steps of a request. *)

LEMMA ConsentGoes ==
    ASSUME Inv, NEW q \in Request, req[q].pc \in Running \ {"load", "review"},
           NEW pc \in Running \ {"load", "review"}, Step(q, pc), UNCHANGED reviews,
           req[q].pc = "save" /\ pc = "commit" => q \notin overruled
    PROVE  /\ Only(q, pc) /\ QueueInv' /\ ReviewInv' /\ AnswersLatest
           /\ req' \in [Request -> Progress] /\ queue' = queue /\ reply' = reply
<1> USE DEF Inv
<1>1. pc \in Place
  BY DEF Place
<1>2. Only(q, pc) /\ queue' = queue /\ reply' = reply
  BY <1>1, StepMoves
<1>3. QueueInv'
  BY <1>2, QueueWorks
<1>4. ReviewInv'
  BY <1>2, ReviewSame
<1>5. AnswersLatest
  BY <1>2, LatestOf
<1> QED
  BY <1>2, <1>3, <1>4, <1>5 DEF Only

LEMMA ConsentConsultFails ==
    ASSUME Inv, NEW q \in Request, ConsultFails(q) PROVE Inv' /\ AnswersLatest
<1> USE DEF Inv
<1>1. /\ req[q].pc = "load" /\ Ends(q, FALSE)
      /\ UNCHANGED <<saved, rules, revoked, next, open, behind, fresh, reviews, change, overruled>>
      /\ loaded' = loaded \/ (loaded[Of(q)] = "no" /\ loaded' = [loaded EXCEPT ![Of(q)] = "broken"])
  BY Zenon DEF ConsultFails
<1>2. Of(q) \in Doc
  BY DEF TypeInv, Of, Progress
<1>3. /\ loaded' \in [Doc -> {"no", "yes", "broken"}]
      /\ \A d \in open : loaded[d] = "yes" <=> loaded'[d] = "yes"
  BY <1>1, <1>2 DEF TypeInv
<1>4. /\ QueueInv' /\ ReviewInv' /\ FreshInv' /\ AnswersLatest
      /\ req' \in [Request -> Progress] /\ queue' \in [Source -> Seq(Request)]
      /\ reply' \in [Request -> {"none", "granted", "refused", "disclosed"}]
  BY <1>1, <1>3, ConsentEnds DEF Running
<1>5. TypeInv'
  BY <1>1, <1>3, <1>4 DEF TypeInv, reviews
<1>6. CacheInv'
  BY <1>1, <1>3, CacheSame
<1> QED
  BY <1>4, <1>5, <1>6

(* A request ends, and nothing is decided. *)
LEMMA ConsentRefused ==
    ASSUME Inv, NEW q \in Request, req[q].pc \in Running \ {"review"},
           NEW granted \in BOOLEAN, Ends(q, granted), next' \in [Doc -> [Key -> Rule]],
           UNCHANGED <<saved, rules, loaded, revoked, open, behind, fresh, reviews, change,
                       overruled>>
    PROVE  Inv' /\ AnswersLatest
<1> USE DEF Inv
<1>1. /\ QueueInv' /\ ReviewInv' /\ FreshInv' /\ AnswersLatest
      /\ req' \in [Request -> Progress] /\ queue' \in [Source -> Seq(Request)]
      /\ reply' \in [Request -> {"none", "granted", "refused", "disclosed"}]
  BY ConsentEnds
<1>2. TypeInv'
  BY <1>1 DEF TypeInv, reviews
<1>3. CacheInv'
  BY CacheSame
<1> QED
  BY <1>1, <1>2, <1>3

(* A request goes on with its rules as they were. *)
LEMMA ConsentGoesOn ==
    ASSUME Inv, NEW q \in Request, req[q].pc \in Running \ {"load", "review"},
           NEW pc \in Running \ {"load", "review"}, Step(q, pc),
           req[q].pc = "save" /\ pc = "commit" => q \notin overruled,
           next' \in [Doc -> [Key -> Rule]],
           UNCHANGED <<saved, rules, loaded, revoked, open, behind, fresh, reviews, change,
                       overruled>>
    PROVE  Inv' /\ AnswersLatest
<1> USE DEF Inv
<1>1. /\ Only(q, pc) /\ QueueInv' /\ ReviewInv' /\ AnswersLatest
      /\ req' \in [Request -> Progress] /\ queue' = queue /\ reply' = reply
  BY ConsentGoes
<1>2. TypeInv'
  BY <1>1 DEF TypeInv, reviews
<1>3. CacheInv'
  BY CacheSame
<1>4. FreshInv'
  <2>1. pc \notin {"idle", "queued"}
    BY DEF Running
  <2> QED
    BY <1>1, <2>1, FreshSame
<1> QED
  BY <1>1, <1>2, <1>3, <1>4

LEMMA ConsentDecides ==
    ASSUME Inv, NEW q \in Request, Decide(q) \/ Record(q) PROVE Inv' /\ AnswersLatest
<1>1. CASE Decide(q)
  <2>1. /\ req[q].pc = "answered"
        /\ UNCHANGED <<saved, rules, loaded, revoked, next, open, behind, fresh, reviews, change,
                       overruled>>
        /\ Ends(q, FALSE) \/ Step(q, "write") \/ Step(q, "record")
    BY <1>1, Zenon DEF Decide
  <2>2. next' \in [Doc -> [Key -> Rule]]
    BY <2>1 DEF Inv, TypeInv
  <2> QED
    BY <2>1, <2>2, ConsentRefused, ConsentGoesOn DEF Running
<1>2. CASE Record(q)
  <2> DEFINE granted == Current(q) /\ req[q].answer # "reject" /\ req[q].answer # "never"
  <2>1. /\ req[q].pc = "record" /\ Ends(q, granted)
        /\ UNCHANGED <<saved, docs, fresh, reviews, change, overruled>>
    BY <1>2, Zenon DEF Record
  <2>2. granted \in BOOLEAN /\ req[q].pc \in Running \ {"review"}
    BY <2>1 DEF Running
  <2> HIDE DEF granted
  <2>3. /\ next' \in [Doc -> [Key -> Rule]]
        /\ UNCHANGED <<saved, rules, loaded, revoked, open, behind, fresh, reviews, change,
                       overruled>>
    BY <2>1 DEF docs, Inv, TypeInv
  <2> QED
    BY <2>1, <2>2, <2>3, ConsentRefused
<1> QED
  BY <1>1, <1>2

LEMMA ConsentSigns ==
    ASSUME Inv, NEW q \in Request, Sign(q) PROVE Inv' /\ AnswersLatest
<1> USE DEF Inv
<1>1. /\ req[q].pc = "signing" /\ req' = [req EXCEPT ![q].pc = "done"] /\ queue' = queue
      /\ reply' = [reply EXCEPT ![q] = IF Current(q) THEN "disclosed" ELSE "refused"]
      /\ UNCHANGED <<saved, docs, fresh, reviews, change, overruled>>
  BY DEF Sign
<1> DEFINE new == [req[q] EXCEPT !.pc = "done"]
<1>2. new \in Progress /\ new.pc = "done" /\ new.doc = req[q].doc /\ new.key = req[q].key
  <2>1. req[q] \in Progress
    BY DEF TypeInv
  <2> QED
    BY <2>1 DEF Progress, Place
<1>3. req' = [req EXCEPT ![q] = new]
  BY <1>1 DEF TypeInv
<1> HIDE DEF new
<1>4. Only(q, "done")
  BY <1>2, <1>3 DEF TypeInv, Only, SameAsked
<1>5. /\ reply' \in [Request -> {"none", "granted", "refused", "disclosed"}]
      /\ \A r \in Request \ {q} : reply'[r] = reply[r]
      /\ reply'[q] = "disclosed" => q \in fresh
  BY <1>1 DEF TypeInv, Current
<1>6. /\ UNCHANGED <<saved, rules, loaded, revoked, open, behind, fresh, change, overruled, next>>
      /\ UNCHANGED reviews /\ UNCHANGED <<prompts, shown, closing, paused>>
  BY <1>1 DEF docs, reviews
<1>7. TypeInv'
  BY <1>1, <1>4, <1>5, <1>6 DEF TypeInv, Only
<1>8. QueueInv'
  <2>1. SameAsked /\ \A r \in Request : Waits(r)' <=> Waits(r)
    BY <1>1, <1>4 DEF Only, Waits, Running
  <2>2. \A r \in Request : req'[r].pc \in Running => req[r].pc \in Running
    BY <1>4 DEF Only, Running
  <2> QED
    BY <1>1, <2>1, <2>2, QueueFrame
<1>9. ReviewInv'
  BY <1>1, <1>4, ReviewSame
<1>10. CacheInv'
  BY <1>6, CacheSame
<1>11. FreshInv'
  BY <1>4, <1>6, FreshSame DEF Running
<1>12. AnswersLatest
  <2>1. q \in fresh => q \notin overruled
    BY DEF FreshInv
  <2> QED
    BY <1>1, <1>4, <1>5, <2>1 DEF AnswersLatest, Only
<1> QED
  BY <1>7, <1>8, <1>9, <1>10, <1>11, <1>12

(* An edit whose revision ages stays an edit. *)
LEMMA EditAgeingType ==
    ASSUME TypeInv, NEW s, EditAgeing(s) PROVE change' \in Edit
<1>1. /\ change \in Edit /\ (change.fresh /\ SourceOf[change.doc] # s) \in BOOLEAN
      /\ change' = [change EXCEPT !.fresh = @ /\ SourceOf[change.doc] # s]
  BY DEF TypeInv, EditAgeing
<1> QED
  BY <1>1 DEF Edit

LEMMA ConsentWrites ==
    ASSUME Inv, NEW q \in Request, WriteGrant(q) PROVE Inv' /\ AnswersLatest
<1> USE DEF Inv
<1>0. PICK d \in Doc, s \in Source, k \in Key :
          d = Of(q) /\ s = From(q) /\ k = req[q].key /\ SourceOf[d] = s
  BY Constants DEF TypeInv, Of, From, Progress
<1>1. /\ req[q].pc = "write" /\ UNCHANGED <<open, reviews>>
      /\ req[q].pc \in Running \ {"load", "review"}
  BY Zenon DEF WriteGrant, Running
<1>2. \/ /\ Ends(q, FALSE)
         /\ UNCHANGED <<saved, rules, loaded, fresh, behind, overruled, revoked, next, change>>
      \/ /\ Step(q, "save") /\ next' = [next EXCEPT ![d] = rules[d]]
         /\ UNCHANGED <<saved, rules, loaded, fresh, behind, overruled, revoked, change>>
      \/ /\ Current(q) /\ Step(q, "record") /\ UNCHANGED <<saved, next>>
         /\ rules' = [Invalidated(s, k) EXCEPT ![d] = [rules[d] EXCEPT ![k] = "session"]]
         /\ loaded' = [Unloaded(s) EXCEPT ![d] = "yes"]
         /\ fresh' = StillFresh(s) \union {q}
         /\ revoked' = [revoked EXCEPT ![d] = @ \ {k}]
         /\ behind' = IF d \in behind \/ ~Agrees("session", saved[s][k])
                      THEN UpToDate(s) \union {d} ELSE UpToDate(s)
         /\ Overrules(s, k, {q}) /\ EditAgeing(s)
  BY <1>0, Zenon DEF WriteGrant
<1>3. CASE /\ Ends(q, FALSE)
           /\ UNCHANGED <<saved, rules, loaded, fresh, behind, overruled, revoked, next,
                          change>>
  <2>1. next' \in [Doc -> [Key -> Rule]]
    BY <1>3 DEF TypeInv
  <2> QED
    BY <1>1, <1>3, <2>1, ConsentRefused
<1>4. CASE /\ Step(q, "save") /\ next' = [next EXCEPT ![d] = rules[d]]
           /\ UNCHANGED <<saved, rules, loaded, fresh, behind, overruled, revoked, change>>
  <2>1. next' \in [Doc -> [Key -> Rule]]
    BY <1>4 DEF TypeInv
  <2> QED
    BY <1>1, <1>4, <2>1, ConsentGoesOn DEF Running
<1>5. CASE /\ Current(q) /\ Step(q, "record") /\ UNCHANGED <<saved, next>>
           /\ rules' = [Invalidated(s, k) EXCEPT ![d] = [rules[d] EXCEPT ![k] = "session"]]
           /\ loaded' = [Unloaded(s) EXCEPT ![d] = "yes"]
           /\ fresh' = StillFresh(s) \union {q}
           /\ revoked' = [revoked EXCEPT ![d] = @ \ {k}]
           /\ behind' = IF d \in behind \/ ~Agrees("session", saved[s][k])
                        THEN UpToDate(s) \union {d} ELSE UpToDate(s)
           /\ Overrules(s, k, {q}) /\ EditAgeing(s)
  <2> DEFINE new == [rules[d] EXCEPT ![k] = "session"]
  <2>1. /\ new \in [Key -> Rule] /\ new[k] = "session"
        /\ \A o \in Key \ {k} : new[o] = rules[d][o]
    BY DEF TypeInv, Rule
  <2>2. rules' = [Invalidated(s, k) EXCEPT ![d] = new]
    BY <1>5
  <2> HIDE DEF new
  <2>3. /\ Invalidated(s, k) \in [Doc -> [Key -> Rule]]
        /\ Unloaded(s) \in [Doc -> {"no", "yes", "broken"}]
        /\ \A e \in open : SourceOf[e] = s => Unloaded(s)[e] = "no"
        /\ StillFresh(s) \subseteq Request /\ UpToDate(s) \subseteq Doc
        /\ \A e \in behind : SourceOf[e] # s => e \in UpToDate(s)
    BY InvalidatedType
  <2>4. \A e \in Doc : SourceOf[e] # s =>
            Invalidated(s, k)[e] = rules[e] /\ Unloaded(s)[e] = loaded[e]
    BY DEF Invalidated, Unloaded
  <2>5. /\ rules' \in [Doc -> [Key -> Rule]] /\ rules'[d] = new
        /\ loaded' \in [Doc -> {"no", "yes", "broken"}] /\ loaded'[d] = "yes"
        /\ \A e \in Doc \ {d} : rules'[e] = Invalidated(s, k)[e] /\ loaded'[e] = Unloaded(s)[e]
    BY <1>5, <2>1, <2>2, <2>3
  <2>6. /\ Only(q, "record") /\ QueueInv' /\ ReviewInv' /\ AnswersLatest
        /\ req' \in [Request -> Progress] /\ queue' = queue /\ reply' = reply
    BY <1>1, <1>5, ConsentGoes DEF Running
  <2>7. /\ revoked' \in [Doc -> SUBSET Key] /\ overruled' \subseteq Request
        /\ fresh' \subseteq Request /\ behind' \subseteq Doc /\ change' \in Edit
    BY <1>5, <2>3, OverrulesType, EditAgeingType DEF TypeInv
  <2>8. TypeInv'
    BY <1>1, <1>5, <2>5, <2>6, <2>7 DEF TypeInv, reviews
  <2>9. q \in fresh /\ d \in open /\ loaded[d] = "yes"
    BY <1>0, <1>1, <1>5 DEF Current, FreshInv
  <2>10. CacheInv'
    <3>1. \A e \in open : SourceOf[e] # s =>
              /\ saved'[SourceOf[e]] = saved[SourceOf[e]] /\ rules'[e] = rules[e]
              /\ loaded'[e] = loaded[e] /\ (e \in behind => e \in behind')
      BY <1>0, <1>5, <2>3, <2>4, <2>5 DEF TypeInv
    <3>2. ASSUME d \notin behind' PROVE \A o \in Key : Agrees(rules'[d][o], saved'[s][o])
      <4>1. d \notin behind /\ Agrees("session", saved[s][k])
        BY <1>5, <3>2
      <4>2. \A o \in Key : Agrees(rules[d][o], saved[s][o])
        BY <1>0, <2>9, <4>1 DEF CacheInv
      <4> QED
        BY <1>5, <2>1, <2>5, <4>1, <4>2
    <3>3. \A e \in open : SourceOf[e] = s /\ e # d => loaded'[e] # "yes"
      BY <2>3, <2>5 DEF TypeInv
    <3>4. \A e \in open : SourceOf[e] = s =>
              \/ loaded'[e] # "yes" \/ e \in behind'
              \/ \A o \in Key : Agrees(rules'[e][o], saved'[s][o])
      BY <3>2, <3>3
    <3>5. open' \subseteq open
      BY <1>1
    <3> QED
      BY <3>1, <3>4, <3>5, CacheFrame
  <2>11. FreshInv'
    <3>1. \A e \in open : SourceOf[e] # s => loaded'[e] = loaded[e]
      BY <1>0, <2>4, <2>5 DEF TypeInv
    <3>2. /\ SameAsked /\ \A r \in Request \ {q} : req'[r].pc = req[r].pc
          /\ req'[q].pc = "record"
      BY <2>6 DEF Only
    <3>3. {q} \in SUBSET Request /\ open' \subseteq open
      BY <1>1
    <3>4. \A r \in {q} : loaded'[Of(r)] = "yes" /\ req'[r].pc \notin {"idle", "queued"}
      BY <1>0, <2>5, <3>2
    <3> QED
      BY <1>5, <3>1, <3>2, <3>3, <3>4, FreshDrops
  <2> QED
    BY <2>6, <2>8, <2>10, <2>11
<1> QED
  BY <1>2, <1>3, <1>4, <1>5

LEMMA ConsentSaves ==
    ASSUME Inv, NEW q \in Request, SaveGrant(q) \/ GrantFails(q) PROVE Inv' /\ AnswersLatest
<1> USE DEF Inv
<1>1. /\ req[q].pc \in {"save", "commit"}
      /\ UNCHANGED <<saved, rules, loaded, revoked, open, behind, fresh, reviews, change,
                     overruled>>
      /\ \/ Current(q) /\ Step(q, "commit") /\ next' = next
         \/ Ends(q, FALSE) /\ next' = [next EXCEPT ![Of(q)] = NoRules]
  BY Zenon DEF SaveGrant, GrantFails, Written
<1>2. next' \in [Doc -> [Key -> Rule]]
  BY <1>1, Constants DEF TypeInv
<1>3. req[q].pc \in Running \ {"load", "review"} /\ "commit" \in Running \ {"load", "review"}
  BY <1>1 DEF Running
<1>4. Current(q) => q \notin overruled
  BY DEF Current, FreshInv
<1>5. CASE Current(q) /\ Step(q, "commit")
  BY <1>1, <1>2, <1>3, <1>4, <1>5, ConsentGoesOn
<1>6. CASE Ends(q, FALSE)
  BY <1>1, <1>2, <1>3, <1>6, ConsentRefused
<1> QED
  BY <1>1, <1>5, <1>6

(* Whether the request goes on or its document was closed meanwhile, it    *)
(* has the only revision of its source that is current.                    *)
LEMMA ConsentCommits ==
    ASSUME Inv, NEW q \in Request, CommitGrant(q) PROVE Inv' /\ AnswersLatest
<1> USE DEF Inv
<1>0. PICK d \in Doc, k \in Key : d = Of(q) /\ k = req[q].key /\ SourceOf[d] = From(q)
  BY DEF TypeInv, Of, From, Progress
<1> DEFINE rule == IF req[q].answer = "never" THEN "deny" ELSE "allow"
<1>1. /\ req[q].pc = "commit" /\ UNCHANGED <<open, reviews>> /\ EditAgeing(From(q))
      /\ next' = [next EXCEPT ![d] = NoRules] /\ Install(d, k, rule, {q})
      /\ \/ Step(q, "record") /\ revoked' = [revoked EXCEPT ![d] = @ \ {k}]
         \/ Ends(q, FALSE) /\ revoked' = revoked
  BY <1>0, Zenon DEF CommitGrant, Written
<1>2. rule \in Rule /\ {q} \in SUBSET Request
  BY DEF Rule, Decision
<1> HIDE DEF rule
<1>3. /\ next' \in [Doc -> [Key -> Rule]] /\ revoked' \in [Doc -> SUBSET Key]
      /\ change' \in Edit
  <2>1. next' \in [Doc -> [Key -> Rule]]
    BY <1>1, Constants DEF TypeInv
  <2>2. revoked' \in [Doc -> SUBSET Key]
    <3>1. revoked \in [Doc -> SUBSET Key] /\ [revoked EXCEPT ![d] = @ \ {k}] \in [Doc -> SUBSET Key]
      BY DEF TypeInv
    <3> QED
      BY <1>1, <3>1
  <2> QED
    BY <1>1, <2>1, <2>2, EditAgeingType
<1>4. PICK pc \in {"record", "done"} :
          /\ Only(q, pc) /\ QueueInv' /\ ReviewInv' /\ AnswersLatest
          /\ req' \in [Request -> Progress] /\ queue' \in [Source -> Seq(Request)]
          /\ reply' \in [Request -> {"none", "granted", "refused", "disclosed"}]
  <2>1. req[q].pc \in Running \ {"load", "review"} /\ "record" \in Running \ {"load", "review"}
    BY <1>1 DEF Running
  <2>2. CASE Step(q, "record")
    <3>1. /\ Only(q, "record") /\ QueueInv' /\ ReviewInv' /\ AnswersLatest
          /\ req' \in [Request -> Progress] /\ queue' = queue /\ reply' = reply
      BY <1>1, <2>1, <2>2, ConsentGoes
    <3> QED
      BY <3>1 DEF TypeInv
  <2>3. CASE Ends(q, FALSE)
    <3>1. /\ Only(q, "done") /\ queue' = [queue EXCEPT ![From(q)] = Tail(@)]
          /\ reply' \in [Request -> {"none", "granted", "refused", "disclosed"}]
          /\ \A r \in Request : reply'[r] = "disclosed" => reply[r] = "disclosed"
      BY <2>3, EndsMoves
    <3>2. "done" \notin Running /\ "done" \notin {"queued", "review", "record", "commit"}
      BY DEF Running
    <3>3. QueueInv' /\ queue' \in [Source -> Seq(Request)]
      BY <2>1, <3>1, <3>2, QueueEnds
    <3>4. ReviewInv'
      BY <1>1, <2>1, <3>1, <3>2, ReviewSame
    <3>5. AnswersLatest
      BY <3>1, <3>2, LatestFrame DEF NothingDecided, Only
    <3> QED
      BY <3>1, <3>3, <3>4, <3>5 DEF Only
  <2> QED
    BY <1>1, <2>2, <2>3
<1>5. /\ CacheInv' /\ saved' \in [Source -> [Key -> Rule]]
      /\ rules' \in [Doc -> [Key -> Rule]]
      /\ loaded' \in [Doc -> {"no", "yes", "broken"}] /\ loaded'[d] = "yes"
      /\ \A e \in Doc : SourceOf[e] # SourceOf[d] => loaded'[e] = loaded[e]
      /\ fresh' = StillFresh(SourceOf[d]) \union {q}
      /\ Overrules(SourceOf[d], k, {q})
      /\ fresh' \subseteq Request /\ overruled' \subseteq Request /\ behind' \subseteq Doc
  BY <1>1, <1>2, Installs
<1>6. TypeInv'
  BY <1>1, <1>3, <1>4, <1>5 DEF TypeInv, reviews
<1>7. FreshInv'
  <2>1. /\ SameAsked /\ \A r \in Request \ {q} : req'[r].pc = req[r].pc
        /\ req'[q].pc \notin {"idle", "queued"}
    BY <1>4 DEF Only
  <2>2. \A r \in {q} : loaded'[Of(r)] = "yes" /\ req'[r].pc \notin {"idle", "queued"}
    BY <1>0, <1>5, <2>1
  <2>3. \A e \in open : SourceOf[e] # SourceOf[d] => loaded'[e] = loaded[e]
    BY <1>5 DEF TypeInv
  <2>4. open' \subseteq open
    BY <1>1
  <2> QED
    BY <1>2, <1>5, <2>1, <2>2, <2>3, <2>4, FreshDrops
<1> QED
  BY <1>4, <1>5, <1>6, <1>7

-----------------------------------------------------------------------------
(* The steps of the reviews. *)

(* What the prompt queue shows afterwards. *)
LEMMA EmitFacts ==
    ASSUME Emit, shown => closing = Nobody /\ ~ paused,
           shown /\ prompts # <<>> /\ prompts' # <<>> /\ Head(prompts') = Head(prompts) =>
               closing' = Nobody /\ ~ paused'
    PROVE  /\ shown' \in BOOLEAN
           /\ shown' => prompts' # <<>> /\ closing' = Nobody /\ ~ paused'
<1>1. shown' = (prompts' # <<>>
                /\ \/ closing' = Nobody /\ ~paused'
                   \/ shown /\ prompts # <<>> /\ Head(prompts') = Head(prompts))
  BY DEF Emit
<1>2. shown' \in BOOLEAN
  BY <1>1, Zenon
<1>3. shown' => prompts' # <<>> /\ closing' = Nobody /\ ~ paused'
  BY <1>1
<1> QED
  BY <1>2, <1>3

LEMMA RemovedFacts ==
    ASSUME TypeInv, ReviewInv, NEW q \in Range(prompts), NEW answer \in Answer,
           Removed(q, answer)
    PROVE  /\ prompts' \in Seq(Request) /\ Range(prompts') = Range(prompts) \ {q}
           /\ shown' \in BOOLEAN /\ paused' \in BOOLEAN
           /\ closing' = Nobody \/ closing' \in [of : Request, answer : Answer]
           /\ shown' => prompts' # <<>> /\ closing' = Nobody /\ ~ paused'
           /\ closing' # Nobody => closing'.of \notin Range(prompts')
           /\ shown /\ Head(prompts) = q => \A r : Closing(r)' <=> r = q
           /\ ~ (shown /\ Head(prompts) = q) => \A r : Closing(r)' <=> Closing(r)
<1>1. /\ prompts' = Without(prompts, {q})
      /\ closing' = IF shown /\ Head(prompts) = q THEN [of |-> q, answer |-> answer] ELSE closing
      /\ paused' = paused /\ Emit
  BY DEF Removed
<1>2. prompts' \in Seq(Request) /\ Range(prompts') = Range(prompts) \ {q}
  BY <1>1, WithoutFacts DEF TypeInv
<1>3. q \in Request
  BY DEF TypeInv, Range
<1>4. answer # "none"
  BY DEF Answer
<1>5. [of |-> q, answer |-> answer] # Nobody
  BY <1>4 DEF Nobody
<1>6. closing' = Nobody \/ closing' \in [of : Request, answer : Answer]
  BY <1>1, <1>3 DEF TypeInv
<1>7. prompts' # <<>> => Head(prompts') \in Range(prompts')
  BY <1>2 DEF Range
<1>8. shown /\ prompts' # <<>> /\ Head(prompts') = Head(prompts) => closing' = Nobody /\ ~ paused'
  <2> SUFFICES ASSUME shown, prompts' # <<>>, Head(prompts') = Head(prompts)
               PROVE  closing' = Nobody /\ ~ paused'
    OBVIOUS
  <2>1. Head(prompts) # q
    BY <1>2, <1>7
  <2> QED
    BY <1>1, <2>1 DEF ReviewInv
<1>9. shown' \in BOOLEAN /\ (shown' => prompts' # <<>> /\ closing' = Nobody /\ ~ paused')
  BY <1>1, <1>8, EmitFacts DEF ReviewInv
<1>10. closing' # Nobody => closing'.of \notin Range(prompts')
  BY <1>1, <1>2 DEF ReviewInv
<1>11. shown /\ Head(prompts) = q => \A r : Closing(r)' <=> r = q
  BY <1>1, <1>5 DEF Closing
<1>12. ~ (shown /\ Head(prompts) = q) => \A r : Closing(r)' <=> Closing(r)
  BY <1>1 DEF Closing
<1>13. paused' \in BOOLEAN
  BY <1>1 DEF TypeInv
<1> QED
  BY <1>2, <1>6, <1>9, <1>10, <1>11, <1>12, <1>13

(* Requests change only by the answers of their reviews. *)
LEMMA ConsentReviews ==
    ASSUME Inv, SameAsked, req' \in [Request -> Progress],
           UNCHANGED <<saved, docs, queue, reply, fresh, change, overruled>>,
           \A r \in Request : \/ req'[r].pc = req[r].pc
                              \/ req[r].pc = "review" /\ req'[r].pc = "answered",
           prompts' \in Seq(Request), shown' \in BOOLEAN, paused' \in BOOLEAN,
           closing' = Nobody \/ closing' \in [of : Request, answer : Answer],
           ReviewInv'
    PROVE  Inv' /\ AnswersLatest
<1> USE DEF Inv
<1>1. UNCHANGED <<saved, rules, loaded, revoked, open, behind, next, queue, reply, fresh, change,
                  overruled>>
  BY DEF docs
<1>2. TypeInv'
  BY <1>1 DEF TypeInv
<1>3. /\ \A r \in Request : Waits(r)' <=> Waits(r)
      /\ \A r \in Request : req'[r].pc \in Running => req[r].pc \in Running
  BY DEF Waits, Running
<1>4. QueueInv'
  BY <1>1, <1>3, QueueFrame
<1>5. CacheInv'
  BY <1>1, CacheSame
<1>6. FreshInv'
  <2>1. \A r \in Request : Of(r)' = Of(r)
    BY DEF SameAsked, Of
  <2>2. \A r \in Request : req'[r].pc \in Running \ {"load"} => req[r].pc \in Running \ {"load"}
    BY DEF Running
  <2>3. \A r \in fresh : Of(r)' \in open /\ req'[r].pc \in Running \ {"load"} =>
               \/ Of(r)' = Of(r) /\ req[r].pc \in Running \ {"load"}
               \/ loaded'[Of(r)'] = "yes"
    BY <2>1, <2>2 DEF TypeInv
  <2>4. \A r \in overruled : req[r].pc \notin {"idle", "queued"} =>
                             req'[r].pc \notin {"idle", "queued"}
    BY DEF TypeInv
  <2>5. /\ open' \subseteq open /\ fresh' = fresh /\ overruled' = overruled
        /\ \A d \in open : loaded[d] = "yes" => loaded'[d] = "yes"
    BY <1>1
  <2> QED
    BY <2>3, <2>4, <2>5, FreshFrame
<1>7. AnswersLatest
  <2>1. NothingDecided
    BY <1>1 DEF NothingDecided
  <2> QED
    BY <2>1, LatestFrame
<1> QED
  BY <1>2, <1>4, <1>5, <1>6, <1>7

LEMMA ConsentAnswered ==
    ASSUME Inv, NEW answer \in Answer, Answered(answer) PROVE Inv' /\ AnswersLatest
<1> USE DEF Inv
<1>1. /\ shown /\ closing = Nobody /\ Removed(Head(prompts), answer)
      /\ UNCHANGED <<saved, docs, queue, reply, fresh, change, overruled>> /\ req' = req
  BY DEF Answered, requests
<1> DEFINE q == Head(prompts)
<1>2. q \in Range(prompts)
  BY <1>1 DEF ReviewInv, TypeInv, Range
<1> HIDE DEF q
<1>3. Removed(q, answer) /\ shown /\ Head(prompts) = q
  BY <1>1 DEF q
<1>4. /\ prompts' \in Seq(Request) /\ Range(prompts') = Range(prompts) \ {q}
      /\ shown' \in BOOLEAN /\ paused' \in BOOLEAN
      /\ closing' = Nobody \/ closing' \in [of : Request, answer : Answer]
      /\ shown' => prompts' # <<>> /\ closing' = Nobody /\ ~ paused'
      /\ closing' # Nobody => closing'.of \notin Range(prompts')
      /\ \A r : Closing(r)' <=> r = q
  BY <1>2, <1>3, RemovedFacts
<1>5. ReviewInv'
  <2>1. \A r \in Request : req[r].pc = "review" <=> r \in Range(prompts)
    BY <1>1 DEF ReviewInv, Closing
  <2>2. \A r \in Request : req'[r].pc = "review" <=> r \in Range(prompts') \/ Closing(r)'
    BY <1>1, <1>2, <1>4, <2>1
  <2> QED
    BY <1>4, <2>2 DEF ReviewInv
<1>6. SameAsked /\ req' \in [Request -> Progress]
  BY <1>1 DEF SameAsked, TypeInv
<1> QED
  BY <1>1, <1>4, <1>5, <1>6, ConsentReviews

(* An answer in the progress of a request. *)
LEMMA ToldFacts ==
    ASSUME TypeInv, NEW q \in Request, NEW answer \in Answer
    PROVE  /\ Told(q, answer) \in Progress /\ Told(q, answer).pc = "answered"
           /\ Told(q, answer).doc = req[q].doc /\ Told(q, answer).key = req[q].key
<1>1. req[q] \in Progress
  BY DEF TypeInv
<1>2. "answered" \in Place
  BY DEF Place, Running
<1> QED
  BY <1>1, <1>2 DEF Told, Progress

LEMMA ConsentDismissed == ASSUME Inv, Dismissed PROVE Inv' /\ AnswersLatest
<1> USE DEF Inv
<1>1. /\ closing # Nobody /\ closing' = Nobody
      /\ req' = [req EXCEPT ![closing.of] = Told(closing.of, closing.answer)]
      /\ prompts' = prompts /\ paused' = paused /\ Emit
      /\ UNCHANGED <<saved, docs, queue, reply, fresh, change, overruled>>
  BY DEF Dismissed
<1>2. PICK q \in Request, answer \in Answer : q = closing.of /\ answer = closing.answer
  BY <1>1 DEF TypeInv
<1>3. PICK told : told = Told(q, answer)
  OBVIOUS
<1>4. /\ told \in Progress /\ told.pc = "answered"
      /\ told.doc = req[q].doc /\ told.key = req[q].key
  BY <1>3, ToldFacts
<1>5. req' = [req EXCEPT ![q] = told]
  BY <1>1, <1>2, <1>3
<1>6. /\ req' \in [Request -> Progress] /\ SameAsked /\ req'[q].pc = "answered"
      /\ \A r \in Request \ {q} : req'[r] = req[r]
  BY <1>4, <1>5 DEF TypeInv, SameAsked
<1>7. req[q].pc = "review" /\ q \notin Range(prompts)
  BY <1>1, <1>2 DEF ReviewInv, Closing
<1>8. ~ shown
  BY <1>1 DEF ReviewInv
<1>9. shown' \in BOOLEAN /\ (shown' => prompts' # <<>> /\ closing' = Nobody /\ ~ paused')
  BY <1>1, <1>8, EmitFacts
<1>10. ReviewInv'
  <2>1. \A r : ~ Closing(r)'
    BY <1>1 DEF Closing
  <2>2. \A r \in Request : req[r].pc = "review" <=> r \in Range(prompts) \/ r = q
    BY <1>1, <1>2 DEF ReviewInv, Closing
  <2>3. \A r \in Request : req'[r].pc = "review" <=> r \in Range(prompts') \/ Closing(r)'
    BY <1>1, <1>6, <1>7, <2>1, <2>2
  <2> QED
    BY <1>1, <1>9, <2>3 DEF ReviewInv
<1>11. \A r \in Request : \/ req'[r].pc = req[r].pc
                          \/ req[r].pc = "review" /\ req'[r].pc = "answered"
  BY <1>6, <1>7
<1>12. prompts' \in Seq(Request) /\ paused' \in BOOLEAN
  BY <1>1 DEF TypeInv
<1> QED
  BY <1>1, <1>6, <1>9, <1>10, <1>11, <1>12, ConsentReviews

LEMMA ConsentPauses == ASSUME Inv, Pause \/ Resume PROVE Inv' /\ AnswersLatest
<1> USE DEF Inv
<1>1. /\ prompts' = prompts /\ closing' = closing /\ Emit /\ paused' \in BOOLEAN
      /\ ~ shown \/ ~ paused'
      /\ UNCHANGED <<saved, docs, queue, reply, fresh, change, overruled>> /\ req' = req
  BY Zenon DEF Pause, Resume, requests
<1>2. shown' \in BOOLEAN /\ (shown' => prompts' # <<>> /\ closing' = Nobody /\ ~ paused')
  BY <1>1, EmitFacts DEF ReviewInv
<1>3. ReviewInv'
  <2>1. \A r : Closing(r)' <=> Closing(r)
    BY <1>1 DEF Closing
  <2> QED
    BY <1>1, <1>2, <2>1 DEF ReviewInv
<1>4. SameAsked /\ req' \in [Request -> Progress] /\ prompts' \in Seq(Request)
  BY <1>1 DEF SameAsked, TypeInv
<1>5. closing' = Nobody \/ closing' \in [of : Request, answer : Answer]
  BY <1>1 DEF TypeInv
<1> QED
  BY <1>1, <1>2, <1>3, <1>4, <1>5, ConsentReviews

LEMMA ConsentCancels == ASSUME Inv, CancelAll PROVE Inv' /\ AnswersLatest
<1> USE DEF Inv
<1>1. /\ prompts' = <<>> /\ closing' = Nobody /\ paused' = FALSE /\ Emit
      /\ req' = [q \in Request |-> IF q \in Range(prompts) \/ Closing(q)
                                   THEN Told(q, "reject") ELSE req[q]]
      /\ UNCHANGED <<saved, docs, queue, reply, fresh, change, overruled>>
  BY Zenon DEF CancelAll
<1>2. "reject" \in Answer
  BY DEF Answer
<1>3. ASSUME NEW r \in Request
      PROVE  /\ req'[r] \in Progress /\ req'[r].doc = req[r].doc /\ req'[r].key = req[r].key
             /\ req'[r].pc # "review"
             /\ \/ req'[r].pc = req[r].pc
                \/ req[r].pc = "review" /\ req'[r].pc = "answered"
  <2>1. CASE r \in Range(prompts) \/ Closing(r)
    <3>1. req'[r] = Told(r, "reject") /\ req[r].pc = "review"
      BY <1>1, <2>1 DEF ReviewInv
    <3> QED
      BY <1>2, <3>1, ToldFacts
  <2>2. CASE ~ (r \in Range(prompts) \/ Closing(r))
    <3>1. req'[r] = req[r] /\ req[r].pc # "review"
      BY <1>1, <2>2 DEF ReviewInv
    <3> QED
      BY <3>1 DEF TypeInv
  <2> QED
    BY <2>1, <2>2
<1>4. req' \in [Request -> Progress] /\ SameAsked
  BY <1>1, <1>3 DEF SameAsked
<1>5. ~ shown'
  BY <1>1 DEF Emit
<1>6. ReviewInv'
  <2>1. \A r : ~ Closing(r)'
    BY <1>1 DEF Closing
  <2>2. Range(prompts') = {}
    BY <1>1 DEF Range
  <2> QED
    BY <1>1, <1>3, <1>5, <2>1, <2>2 DEF ReviewInv
<1>7. shown' \in BOOLEAN /\ prompts' \in Seq(Request) /\ paused' \in BOOLEAN
  <2>1. shown' \in BOOLEAN
    BY <1>1, Zenon DEF Emit
  <2>2. prompts' \in Seq(Request)
    BY <1>1
  <2>3. paused' \in BOOLEAN
    BY <1>1
  <2> QED
    BY <2>1, <2>2, <2>3
<1>8. \A r \in Request : \/ req'[r].pc = req[r].pc
                         \/ req[r].pc = "review" /\ req'[r].pc = "answered"
  BY <1>3
<1> QED
  BY <1>1, <1>4, <1>6, <1>7, <1>8, ConsentReviews

-----------------------------------------------------------------------------
(* The changes made in the settings: no request moves. *)

LEMMA ConsentStays ==
    ASSUME Inv, UNCHANGED requests, UNCHANGED reviews
    PROVE  /\ SameAsked /\ req' = req /\ queue' = queue /\ reply' = reply
           /\ UNCHANGED <<prompts, shown, closing, paused>>
           /\ QueueInv' /\ ReviewInv' /\ AnswersLatest
<1>1. /\ SameAsked /\ req' = req /\ queue' = queue /\ reply' = reply
      /\ UNCHANGED <<prompts, shown, closing, paused>>
  BY DEF requests, reviews, SameAsked
<1>2. \A r \in Request : Waits(r)' <=> Waits(r)
  BY <1>1 DEF Waits
<1>3. QueueInv'
  BY <1>1, <1>2, QueueFrame DEF Inv
<1>4. ReviewInv'
  BY <1>1, ReviewFrame DEF Inv
<1>5. AnswersLatest
  BY <1>1, LatestFrame DEF NothingDecided
<1> QED
  BY <1>1, <1>3, <1>4, <1>5

(* A rule of a source changed in the settings, or about to change. *)
LEMMA Drops ==
    ASSUME TypeInv, CacheInv, FreshInv, SameAsked, req' = req, open' = open,
           NEW s \in Source, NEW k \in Key, Drop(s, k), \A t \in Source \ {s} : saved'[t] = saved[t]
    PROVE  /\ CacheInv' /\ FreshInv'
           /\ rules' \in [Doc -> [Key -> Rule]] /\ loaded' \in [Doc -> {"no", "yes", "broken"}]
           /\ fresh' \subseteq Request /\ overruled' \subseteq Request /\ behind' \subseteq Doc
<1>1. /\ rules' = Invalidated(s, k) /\ loaded' = Unloaded(s) /\ fresh' = StillFresh(s)
      /\ behind' = UpToDate(s) /\ Overrules(s, k, {})
  BY DEF Drop
<1>2. /\ Invalidated(s, k) \in [Doc -> [Key -> Rule]]
      /\ Unloaded(s) \in [Doc -> {"no", "yes", "broken"}]
      /\ \A d \in open : SourceOf[d] = s => Unloaded(s)[d] = "no"
      /\ StillFresh(s) \subseteq Request /\ UpToDate(s) \subseteq Doc
      /\ \A d \in behind : SourceOf[d] # s => d \in UpToDate(s)
  BY InvalidatedType
<1>3. \A d \in Doc : SourceOf[d] # s =>
            Invalidated(s, k)[d] = rules[d] /\ Unloaded(s)[d] = loaded[d]
  BY DEF Invalidated, Unloaded
<1>4. CacheInv'
  <2>1. \A d \in open : SourceOf[d] # s =>
            /\ saved'[SourceOf[d]] = saved[SourceOf[d]] /\ rules'[d] = rules[d]
            /\ loaded'[d] = loaded[d] /\ (d \in behind => d \in behind')
    BY <1>1, <1>2, <1>3, Constants DEF TypeInv
  <2>2. \A d \in open : SourceOf[d] = s => loaded'[d] # "yes"
    BY <1>1, <1>2
  <2> QED
    BY <2>1, <2>2, CacheFrame
<1>5. FreshInv'
  <2>1. \A d \in open : SourceOf[d] # s => loaded'[d] = loaded[d]
    BY <1>1, <1>3 DEF TypeInv
  <2>2. fresh' = StillFresh(s) \union {}
    BY <1>1
  <2>3. \A r \in Request \ {} : req'[r].pc = req[r].pc
    OBVIOUS
  <2> QED
    BY <1>1, <2>1, <2>2, <2>3, FreshDrops
<1> QED
  BY <1>1, <1>2, <1>4, <1>5, OverrulesType

LEMMA ConsentManages ==
    ASSUME Inv, NEW s \in Source, NEW k \in Key, NEW to \in Rule, Manage(s, k, to)
    PROVE  Inv' /\ AnswersLatest
<1> USE DEF Inv
<1>1. /\ saved' = [saved EXCEPT ![s][k] = to] /\ Drop(s, k)
      /\ EditAgeing(s)
      /\ UNCHANGED <<revoked, writes, next, open, requests, reviews>>
  BY Zenon DEF Manage
<1>2. /\ SameAsked /\ req' = req /\ queue' = queue /\ reply' = reply
      /\ UNCHANGED <<prompts, shown, closing, paused>>
      /\ QueueInv' /\ ReviewInv' /\ AnswersLatest
  BY <1>1, ConsentStays
<1>3. /\ saved' \in [Source -> [Key -> Rule]] /\ \A t \in Source \ {s} : saved'[t] = saved[t]
  BY <1>1 DEF TypeInv
<1>4. /\ CacheInv' /\ FreshInv'
      /\ rules' \in [Doc -> [Key -> Rule]] /\ loaded' \in [Doc -> {"no", "yes", "broken"}]
      /\ fresh' \subseteq Request /\ overruled' \subseteq Request /\ behind' \subseteq Doc
  BY <1>1, <1>2, <1>3, Drops
<1>5. change' \in Edit
  BY <1>1, EditAgeingType
<1>6. TypeInv'
  BY <1>1, <1>2, <1>3, <1>4, <1>5 DEF TypeInv
<1> QED
  BY <1>2, <1>4, <1>6

LEMMA ConsentChanges ==
    ASSUME Inv, NEW d \in Doc, NEW k \in Key, NEW kind \in {"edit", "revoke"}, NEW to \in Settings,
           Change(d, k, kind, to)
    PROVE  Inv' /\ AnswersLatest
<1> USE DEF Inv
<1>1. /\ Drop(SourceOf[d], k)
      /\ change' = [pc |-> "load", kind |-> kind, doc |-> d, key |-> k, to |-> to,
                    fresh |-> TRUE, was |-> k \in revoked[d]]
      /\ revoked' = [revoked EXCEPT ![d] = @ \union {k}]
      /\ UNCHANGED <<saved, writes, next, open, requests, reviews>>
  BY Zenon DEF Change
<1>2. /\ SameAsked /\ req' = req /\ queue' = queue /\ reply' = reply
      /\ UNCHANGED <<prompts, shown, closing, paused>>
      /\ QueueInv' /\ ReviewInv' /\ AnswersLatest
  BY <1>1, ConsentStays
<1>3. SourceOf[d] \in Source
  BY Constants
<1>4. /\ CacheInv' /\ FreshInv'
      /\ rules' \in [Doc -> [Key -> Rule]] /\ loaded' \in [Doc -> {"no", "yes", "broken"}]
      /\ fresh' \subseteq Request /\ overruled' \subseteq Request /\ behind' \subseteq Doc
  BY <1>1, <1>2, <1>3, Drops
<1>5. change' \in Edit
  <2>1. (k \in revoked[d]) \in BOOLEAN /\ to \in Rule
    BY DEF Rule
  <2> QED
    BY <1>1, <2>1 DEF Edit
<1>6. revoked' \in [Doc -> SUBSET Key]
  BY <1>1 DEF TypeInv
<1>7. TypeInv'
  BY <1>1, <1>2, <1>4, <1>5, <1>6 DEF TypeInv
<1> QED
  BY <1>2, <1>4, <1>7

(* The fields of the change under way. *)
LEMMA EditFacts ==
    ASSUME TypeInv
    PROVE  /\ change.doc \in Doc /\ change.key \in Key /\ change.to \in Rule
           /\ [change EXCEPT !.pc = "write"] \in Edit /\ [change EXCEPT !.pc = "save"] \in Edit
           /\ NoChange \in Edit
           /\ Restored => revoked' \in [Doc -> SUBSET Key]
<1>1. change \in Edit
  BY DEF TypeInv
<1>2. change.doc \in Doc /\ change.key \in Key /\ change.to \in Rule
  BY <1>1 DEF Edit
<1>3. [change EXCEPT !.pc = "write"] \in Edit /\ [change EXCEPT !.pc = "save"] \in Edit
  BY <1>1 DEF Edit
<1>4. ASSUME Restored PROVE revoked' \in [Doc -> SUBSET Key]
  <2>1. \/ revoked' = [revoked EXCEPT ![change.doc] = @ \ {change.key}]
        \/ revoked' = revoked
    BY <1>4, Zenon DEF Restored
  <2>2. revoked \in [Doc -> SUBSET Key] /\ change.doc \in Doc
    BY <1>2 DEF TypeInv
  <2>3. [revoked EXCEPT ![change.doc] = @ \ {change.key}] \in [Doc -> SUBSET Key]
    BY <2>2
  <2> QED
    BY <2>1, <2>2, <2>3
<1> QED
  BY <1>2, <1>3, <1>4, Constants

(* A step of the change that invalidates nothing. *)
LEMMA ConsentEdits ==
    ASSUME Inv, UNCHANGED <<saved, open, behind, requests, fresh, reviews, overruled>>,
           change' \in Edit, revoked' \in [Doc -> SUBSET Key], next' \in [Doc -> [Key -> Rule]],
           rules' \in [Doc -> [Key -> Rule]], loaded' \in [Doc -> {"no", "yes", "broken"}],
           \A d \in open : loaded[d] = "yes" => loaded'[d] = "yes", CacheInv'
    PROVE  Inv' /\ AnswersLatest
<1> USE DEF Inv
<1>1. /\ SameAsked /\ req' = req /\ queue' = queue /\ reply' = reply
      /\ UNCHANGED <<prompts, shown, closing, paused>>
      /\ QueueInv' /\ ReviewInv' /\ AnswersLatest
  BY ConsentStays
<1>2. TypeInv'
  BY <1>1 DEF TypeInv
<1>3. FreshInv'
  <2>1. \A r \in fresh : Of(r)' \in open /\ req'[r].pc \in Running \ {"load"} =>
             \/ Of(r)' = Of(r) /\ req[r].pc \in Running \ {"load"}
             \/ loaded'[Of(r)'] = "yes"
    BY <1>1 DEF Of
  <2>2. \A r \in overruled : req[r].pc \notin {"idle", "queued"} =>
                             req'[r].pc \notin {"idle", "queued"}
    BY <1>1
  <2>3. open' \subseteq open
    OBVIOUS
  <2> QED
    BY <2>1, <2>2, <2>3, FreshFrame
<1> QED
  BY <1>1, <1>2, <1>3

LEMMA ConsentChangeLoads == ASSUME Inv, ChangeLoads PROVE Inv' /\ AnswersLatest
<1> USE DEF Inv
<1>0. PICK d \in Doc : d = change.doc
  BY EditFacts
<1>1. UNCHANGED <<saved, next, open, behind, requests, fresh, reviews, overruled>>
  BY Zenon DEF ChangeLoads
<1>2. \/ change' = NoChange /\ Restored /\ UNCHANGED <<rules, loaded>>
      \/ /\ loaded[d] # "broken" /\ Load(d) /\ UNCHANGED revoked
         /\ change' = [change EXCEPT !.pc = "write"]
  BY <1>0, Zenon DEF ChangeLoads
<1>3. next' \in [Doc -> [Key -> Rule]]
  BY <1>1 DEF TypeInv
<1>4. CASE change' = NoChange /\ Restored /\ UNCHANGED <<rules, loaded>>
  <2>1. change' \in Edit /\ revoked' \in [Doc -> SUBSET Key]
    BY <1>4, EditFacts
  <2>2. CacheInv'
    BY <1>1, <1>4, CacheSame
  <2>3. rules' \in [Doc -> [Key -> Rule]] /\ loaded' \in [Doc -> {"no", "yes", "broken"}]
    BY <1>4 DEF TypeInv
  <2> QED
    BY <1>1, <1>3, <1>4, <2>1, <2>2, <2>3, ConsentEdits
<1>5. CASE /\ loaded[d] # "broken" /\ Load(d) /\ UNCHANGED revoked
           /\ change' = [change EXCEPT !.pc = "write"]
  <2>1. change' \in Edit /\ revoked' \in [Doc -> SUBSET Key]
    BY <1>5, EditFacts DEF TypeInv
  <2>2. CacheInv'
    BY <1>1, <1>5, CacheLoads
  <2>3. /\ rules' \in [Doc -> [Key -> Rule]] /\ loaded' \in [Doc -> {"no", "yes", "broken"}]
        /\ loaded'[d] = "yes" /\ \A e \in Doc \ {d} : loaded'[e] = loaded[e]
    BY <1>5, LoadType
  <2>4. \A e \in open : loaded[e] = "yes" => loaded'[e] = "yes"
    BY <2>3 DEF TypeInv
  <2> QED
    BY <1>1, <1>3, <2>1, <2>2, <2>3, <2>4, ConsentEdits
<1> QED
  BY <1>2, <1>4, <1>5

LEMMA ConsentChangeWrites == ASSUME Inv, ChangeWrites PROVE Inv' /\ AnswersLatest
<1> USE DEF Inv
<1>0. PICK d \in Doc : d = change.doc
  BY EditFacts
<1>1. UNCHANGED <<saved, rules, loaded, open, behind, requests, fresh, reviews, overruled>>
  BY Zenon DEF ChangeWrites
<1>2. \/ /\ change' = [change EXCEPT !.pc = "save"] /\ next' = [next EXCEPT ![d] = rules[d]]
         /\ UNCHANGED revoked
      \/ change' = NoChange /\ Restored /\ UNCHANGED next
  BY <1>0, Zenon DEF ChangeWrites
<1>3. change' \in Edit /\ revoked' \in [Doc -> SUBSET Key]
  BY <1>2, EditFacts DEF TypeInv
<1>4. /\ next' \in [Doc -> [Key -> Rule]] /\ rules' \in [Doc -> [Key -> Rule]]
      /\ loaded' \in [Doc -> {"no", "yes", "broken"}]
  BY <1>1, <1>2 DEF TypeInv
<1>5. CacheInv'
  BY <1>1, CacheSame
<1> QED
  BY <1>1, <1>3, <1>4, <1>5, ConsentEdits

LEMMA ConsentChangeFails == ASSUME Inv, ChangeFails PROVE Inv' /\ AnswersLatest
<1> USE DEF Inv
<1>0. PICK d \in Doc : d = change.doc
  BY EditFacts
<1>1. /\ UNCHANGED <<saved, rules, open, behind, requests, fresh, reviews, overruled>>
      /\ change' = NoChange /\ Restored
  BY Zenon DEF ChangeFails
<1>2. \/ next' = [next EXCEPT ![d] = NoRules] /\ UNCHANGED loaded
      \/ /\ loaded[d] = "no" /\ loaded' = [loaded EXCEPT ![d] = "broken"] /\ UNCHANGED next
  BY <1>0, Zenon DEF ChangeFails, Written
<1>3. change' \in Edit /\ revoked' \in [Doc -> SUBSET Key]
  BY <1>1, EditFacts
<1>4. next' \in [Doc -> [Key -> Rule]] /\ rules' \in [Doc -> [Key -> Rule]]
  <2>1. next' = [next EXCEPT ![d] = NoRules] \/ next' = next
    BY <1>2
  <2>2. next' \in [Doc -> [Key -> Rule]]
    BY <2>1, Constants DEF TypeInv
  <2> QED
    BY <1>1, <2>2 DEF TypeInv
<1>5. /\ loaded' \in [Doc -> {"no", "yes", "broken"}]
      /\ \A e \in open : loaded[e] = "yes" <=> loaded'[e] = "yes"
  BY <1>2 DEF TypeInv
<1>6. CacheInv'
  BY <1>1, <1>5, CacheSame
<1> QED
  BY <1>1, <1>3, <1>4, <1>5, <1>6, ConsentEdits

LEMMA ConsentChangeSaves == ASSUME Inv, ChangeSaves PROVE Inv' /\ AnswersLatest
<1> USE DEF Inv
<1>0. PICK d \in Doc, k \in Key, to \in Rule :
          d = change.doc /\ k = change.key /\ to = change.to
  BY EditFacts
<1>1. /\ change' = NoChange /\ next' = [next EXCEPT ![d] = NoRules]
      /\ Install(d, k, to, {}) /\ UNCHANGED <<open, requests, reviews>>
      /\ revoked' = [revoked EXCEPT ![d] = @ \ {k}] \/ revoked' = revoked
  BY <1>0, Zenon DEF ChangeSaves, Written
<1>2. /\ SameAsked /\ req' = req /\ queue' = queue /\ reply' = reply
      /\ UNCHANGED <<prompts, shown, closing, paused>>
      /\ QueueInv' /\ ReviewInv' /\ AnswersLatest
  BY <1>1, ConsentStays
<1>3. {} \in SUBSET Request
  OBVIOUS
<1>4. /\ CacheInv' /\ saved' \in [Source -> [Key -> Rule]]
      /\ rules' \in [Doc -> [Key -> Rule]]
      /\ loaded' \in [Doc -> {"no", "yes", "broken"}] /\ loaded'[d] = "yes"
      /\ \A e \in Doc : SourceOf[e] # SourceOf[d] => loaded'[e] = loaded[e]
      /\ fresh' = StillFresh(SourceOf[d]) \union {}
      /\ Overrules(SourceOf[d], k, {})
      /\ fresh' \subseteq Request /\ overruled' \subseteq Request /\ behind' \subseteq Doc
  BY <1>1, <1>3, Installs
<1>5. FreshInv'
  <2>1. \A e \in open : SourceOf[e] # SourceOf[d] => loaded'[e] = loaded[e]
    BY <1>4 DEF TypeInv
  <2>2. open' \subseteq open /\ \A r \in Request \ {} : req'[r].pc = req[r].pc
    BY <1>1, <1>2
  <2> QED
    BY <1>2, <1>3, <1>4, <2>1, <2>2, FreshDrops
<1>6. /\ change' \in Edit /\ revoked' \in [Doc -> SUBSET Key] /\ next' \in [Doc -> [Key -> Rule]]
  <2>1. next' \in [Doc -> [Key -> Rule]]
    BY <1>1, Constants DEF TypeInv
  <2>2. revoked \in [Doc -> SUBSET Key]
    BY DEF TypeInv
  <2>3. [revoked EXCEPT ![d] = @ \ {k}] \in [Doc -> SUBSET Key]
    BY <2>2
  <2> QED
    BY <1>1, <2>1, <2>2, <2>3, Constants
<1>7. TypeInv'
  BY <1>1, <1>2, <1>4, <1>6 DEF TypeInv
<1> QED
  BY <1>2, <1>4, <1>5, <1>7

-----------------------------------------------------------------------------
(* Requests asked, and documents closed. *)

LEMMA ConsentAsks ==
    ASSUME Inv, NEW q \in Request, NEW d \in Doc, NEW k \in Key, Ask(q, d, k)
    PROVE  Inv' /\ AnswersLatest
<1> USE DEF Inv
<1>0. PICK s \in Source : s = SourceOf[d]
  BY Constants
<1> DEFINE new(pc) == [req[q] EXCEPT !.doc = d, !.key = k, !.pc = pc]
<1>1. /\ req[q].pc = "idle"
      /\ UNCHANGED <<saved, docs, fresh, change, overruled>> /\ UNCHANGED reviews
  BY Zenon DEF Ask
<1>2. PICK pc \in {"queued", "done"} :
          /\ req' = [req EXCEPT ![q] = new(pc)]
          /\ pc = "queued" => /\ queue' = [queue EXCEPT ![s] = Append(@, q)] /\ reply' = reply
          /\ pc = "done" => /\ queue' = queue /\ reply' = [reply EXCEPT ![q] = "refused"]
  <2>1. CASE Len(queue[s]) < Limit
    <3>1. req' = [req EXCEPT ![q] = new("queued")]
      BY <1>0, <2>1 DEF Ask
    <3>2. queue' = [queue EXCEPT ![s] = Append(@, q)] /\ reply' = reply
      BY <1>0, <2>1, Zenon DEF Ask
    <3> QED
      BY <3>1, <3>2
  <2>2. CASE ~ (Len(queue[s]) < Limit)
    <3>1. req' = [req EXCEPT ![q] = new("done")]
      BY <1>0, <2>2 DEF Ask
    <3>2. queue' = queue /\ reply' = [reply EXCEPT ![q] = "refused"]
      BY <1>0, <2>2, Zenon DEF Ask
    <3> QED
      BY <3>1, <3>2
  <2> QED
    BY <2>1, <2>2
<1>3. new(pc) \in Progress /\ new(pc).pc = pc /\ new(pc).doc = d
  <2>1. req[q] \in Progress /\ pc \in Place
    BY DEF TypeInv, Place
  <2> QED
    BY <2>1 DEF Progress
<1> HIDE DEF new
<1>4. /\ req' \in [Request -> Progress] /\ req'[q].pc = pc /\ req'[q].doc = d
      /\ \A r \in Request \ {q} : req'[r] = req[r]
  BY <1>2, <1>3 DEF TypeInv
<1>5. /\ From(q)' = s /\ \A r \in Request \ {q} : From(r)' = From(r) /\ Of(r)' = Of(r)
  BY <1>0, <1>4 DEF From, Of
<1>6. /\ reply' \in [Request -> {"none", "granted", "refused", "disclosed"}]
      /\ \A r \in Request : reply'[r] = "disclosed" => reply[r] = "disclosed"
  BY <1>2 DEF TypeInv
<1>7. ~ Waits(q) /\ \A t \in Source : q \notin Range(queue[t])
  BY <1>1 DEF QueueInv, Waits, Running
<1>8. /\ \A r \in Request \ {q} : (Waits(r)' <=> Waits(r)) /\ req'[r].pc = req[r].pc
      /\ Waits(q)' <=> pc = "queued"
      /\ req'[q].pc \notin Running
  BY <1>4 DEF Waits, Running
<1>9. queue' \in [Source -> Seq(Request)] /\ QueueInv'
  <2>1. CASE pc = "done"
    <3>1. queue' = queue
      BY <1>2, <2>1
    <3>2. ASSUME NEW t \in Source
          PROVE  /\ Distinct(queue'[t])
                 /\ \A r \in Request : r \in Range(queue'[t]) <=> From(r)' = t /\ Waits(r)'
                 /\ \A r \in Request : From(r)' = t /\ req'[r].pc \in Running => Head(queue'[t]) = r
      BY <1>5, <1>7, <1>8, <2>1, <3>1 DEF QueueInv
    <3>3. QueueInv'
      BY <3>2, Zenon DEF QueueInv
    <3> QED
      BY <3>1, <3>3 DEF TypeInv
  <2>2. CASE pc = "queued"
    <3> DEFINE a == Append(queue[s], q)
    <3>1. queue[s] \in Seq(Request) /\ Distinct(queue[s])
      BY DEF TypeInv, QueueInv
    <3>2. /\ a \in Seq(Request) /\ a # <<>> /\ Range(a) = Range(queue[s]) \union {q}
          /\ Distinct(a) /\ Head(a) = IF queue[s] = <<>> THEN q ELSE Head(queue[s])
      BY <1>7, <3>1, AppendFacts
    <3>3. /\ queue'[s] = a /\ queue' \in [Source -> Seq(Request)]
          /\ \A t \in Source \ {s} : queue'[t] = queue[t]
      BY <1>2, <2>2, <3>2 DEF TypeInv
    <3> HIDE DEF a
    <3>4. ASSUME NEW t \in Source
          PROVE  /\ Distinct(queue'[t])
                 /\ \A r \in Request : r \in Range(queue'[t]) <=> From(r)' = t /\ Waits(r)'
                 /\ \A r \in Request : From(r)' = t /\ req'[r].pc \in Running => Head(queue'[t]) = r
      <4>1. CASE t = s
        <5>1. \A r \in Request : r \in Range(queue'[t]) <=> From(r)' = t /\ Waits(r)'
          BY <1>5, <1>7, <1>8, <2>2, <3>2, <3>3, <4>1 DEF QueueInv
        <5>2. ASSUME NEW r \in Request, From(r)' = t, req'[r].pc \in Running
              PROVE  Head(queue'[t]) = r
          <6>1. r # q /\ From(r) = s /\ req[r].pc \in Running
            BY <1>5, <1>8, <4>1, <5>2
          <6>2. queue[s] # <<>> /\ Head(queue[s]) = r
            BY <6>1, AtWork
          <6> QED
            BY <3>2, <3>3, <4>1, <6>2
        <5> QED
          BY <3>2, <3>3, <4>1, <5>1, <5>2
      <4>2. CASE t # s
        <5>1. queue'[t] = queue[t] /\ From(q)' # t
          BY <1>5, <3>3, <4>2
        <5>2. \A r \in Request : r \in Range(queue[t]) <=> From(r) = t /\ Waits(r)
          BY DEF QueueInv
        <5>3. \A r \in Request : r \in Range(queue'[t]) <=> From(r)' = t /\ Waits(r)'
          BY <1>5, <1>7, <1>8, <5>1, <5>2
        <5>4. \A r \in Request : From(r)' = t /\ req'[r].pc \in Running => Head(queue'[t]) = r
          BY <1>5, <1>8, <5>1 DEF QueueInv
        <5> QED
          BY <5>1, <5>3, <5>4 DEF QueueInv
      <4> QED
        BY <4>1, <4>2
    <3>5. QueueInv'
      BY <3>4, Zenon DEF QueueInv
    <3> QED
      BY <3>3, <3>5
  <2> QED
    BY <2>1, <2>2
<1>10. /\ UNCHANGED <<saved, rules, loaded, revoked, open, behind, next, fresh, change, overruled>>
       /\ UNCHANGED <<prompts, shown, closing, paused>>
  BY <1>1 DEF docs, reviews
<1>11. TypeInv'
  BY <1>4, <1>6, <1>9, <1>10 DEF TypeInv
<1>12. ReviewInv'
  <2>1. \A r \in Request : req'[r].pc = "review" <=> req[r].pc = "review"
    BY <1>1, <1>4
  <2> QED
    BY <1>1, <2>1, ReviewFrame
<1>13. CacheInv'
  BY <1>10, CacheSame
<1>14. FreshInv'
  <2>1. \A r \in fresh : Of(r)' \in open /\ req'[r].pc \in Running \ {"load"} =>
             \/ Of(r)' = Of(r) /\ req[r].pc \in Running \ {"load"}
             \/ loaded'[Of(r)'] = "yes"
    BY <1>4, <1>5, <1>8 DEF TypeInv
  <2>2. \A r \in overruled : req[r].pc \notin {"idle", "queued"} =>
                             req'[r].pc \notin {"idle", "queued"}
    BY <1>1, <1>4 DEF TypeInv
  <2>3. /\ open' \subseteq open /\ fresh' = fresh /\ overruled' = overruled
        /\ \A e \in open : loaded[e] = "yes" => loaded'[e] = "yes"
    BY <1>10
  <2> QED
    BY <2>1, <2>2, <2>3, FreshFrame
<1>15. AnswersLatest
  BY <1>1, <1>4, <1>6, LatestFrame DEF NothingDecided
<1> QED
  BY <1>9, <1>11, <1>12, <1>13, <1>14, <1>15

LEMMA ConsentCloses == ASSUME Inv, NEW d \in Doc, Close(d) PROVE Inv' /\ AnswersLatest
<1> USE DEF Inv
<1> DEFINE mine == {q \in Request : Of(q) = d /\ req[q].pc \in Running \union {"queued"}}
           waiting == {q \in mine : req[q].pc = "queued"}
           asked == {q \in mine : q \in Range(prompts)}
<1>1. /\ open' = open \ {d} /\ queue' = [s \in Source |-> Without(queue[s], waiting)]
      /\ reply' = [q \in Request |->
                     IF q \in mine /\ reply[q] = "none" THEN "refused" ELSE reply[q]]
      /\ req' = [q \in Request |-> IF q \in waiting THEN [req[q] EXCEPT !.pc = "done"]
                                   ELSE IF q \in asked /\ EndsAtOnce(q) THEN Told(q, "reject")
                                   ELSE req[q]]
      /\ IF asked = {} THEN UNCHANGED reviews ELSE \E q \in asked : Removed(q, "reject")
      /\ UNCHANGED <<saved, rules, loaded, revoked, writes, next, behind, fresh, change, overruled>>
  BY Zenon DEF Close
<1>2. /\ waiting \subseteq Request /\ asked \subseteq Request
      /\ \A r \in waiting : req[r].pc = "queued"
      /\ \A r \in asked : r \in Range(prompts) /\ req[r].pc = "review" /\ From(r) = SourceOf[d]
  BY DEF ReviewInv, From
<1> HIDE DEF mine, waiting, asked
<1>3. "reject" \in Answer
  BY DEF Answer
<1>4. ASSUME NEW r \in Request
      PROVE  /\ req'[r] \in Progress /\ req'[r].doc = req[r].doc /\ req'[r].key = req[r].key
             /\ r \in waiting => req'[r].pc = "done"
             /\ r \in asked /\ EndsAtOnce(r) => req'[r].pc = "answered"
             /\ r \notin waiting /\ ~ (r \in asked /\ EndsAtOnce(r)) => req'[r] = req[r]
  <2>0. req[r] \in Progress
    BY DEF TypeInv
  <2>1. CASE r \in waiting
    <3>1. req'[r] = [req[r] EXCEPT !.pc = "done"] /\ r \notin asked
      BY <1>1, <1>2, <2>1
    <3> QED
      BY <2>0, <2>1, <3>1 DEF Progress, Place
  <2>2. CASE r \notin waiting /\ r \in asked /\ EndsAtOnce(r)
    <3>1. req'[r] = Told(r, "reject")
      BY <1>1, <2>2
    <3> QED
      BY <1>3, <2>2, <3>1, ToldFacts
  <2>3. CASE r \notin waiting /\ ~ (r \in asked /\ EndsAtOnce(r))
    <3>1. req'[r] = req[r]
      BY <1>1, <2>3
    <3> QED
      BY <2>0, <2>3, <3>1
  <2> QED
    BY <2>1, <2>2, <2>3
<1>5. req' \in [Request -> Progress] /\ SameAsked
  BY <1>1, <1>4 DEF SameAsked
<1>6. \A r \in Request : From(r)' = From(r) /\ Of(r)' = Of(r)
  BY <1>5 DEF SameAsked, From, Of
<1>7. ASSUME NEW r \in Request
      PROVE  /\ Waits(r)' <=> Waits(r) /\ r \notin waiting
             /\ req'[r].pc \in Running => req[r].pc \in Running
             /\ req'[r].pc \in Running \ {"load"} => req[r].pc \in Running \ {"load"}
             /\ req'[r].pc \in {"idle", "queued"} => req'[r].pc = req[r].pc
             /\ req'[r].pc \in {"record", "review", "commit"} => req'[r].pc = req[r].pc
  <2>1. CASE r \in waiting
    BY <1>2, <1>4, <2>1 DEF Waits, Running
  <2>2. CASE r \in asked /\ EndsAtOnce(r)
    BY <1>2, <1>4, <2>2 DEF Waits, Running
  <2>3. CASE r \notin waiting /\ ~ (r \in asked /\ EndsAtOnce(r))
    BY <1>4, <2>3 DEF Waits
  <2> QED
    BY <2>1, <2>2, <2>3
<1>8. queue' \in [Source -> Seq(Request)] /\ QueueInv'
  <2>1. ASSUME NEW s \in Source
        PROVE  /\ queue'[s] = Without(queue[s], waiting)
               /\ queue'[s] \in Seq(Request) /\ Range(queue'[s]) = Range(queue[s]) \ waiting
               /\ Distinct(queue'[s])
               /\ queue[s] # <<>> /\ Head(queue[s]) \notin waiting =>
                      Head(queue'[s]) = Head(queue[s])
    <3>1. queue[s] \in Seq(Request) /\ Distinct(queue[s])
      BY DEF TypeInv, QueueInv
    <3>2. queue'[s] = Without(queue[s], waiting)
      BY <1>1
    <3>3. /\ Without(queue[s], waiting) \in Seq(Request)
          /\ Range(Without(queue[s], waiting)) = Range(queue[s]) \ waiting
          /\ Distinct(Without(queue[s], waiting))
          /\ queue[s] # <<>> /\ Head(queue[s]) \notin waiting =>
                 Head(Without(queue[s], waiting)) = Head(queue[s])
      BY <3>1, WithoutFacts, Zenon
    <3> QED
      BY <3>1, <3>2, <3>3
  <2>2. queue' \in [Source -> Seq(Request)]
    BY <1>1, <2>1
  <2>3. ASSUME NEW s \in Source, NEW r \in Request
        PROVE  r \in Range(queue'[s]) <=> From(r)' = s /\ Waits(r)'
    BY <1>6, <1>7, <2>1 DEF QueueInv
  <2>4. ASSUME NEW s \in Source, NEW r \in Request, From(r)' = s, req'[r].pc \in Running
        PROVE  Head(queue'[s]) = r
    <3>1. From(r) = s /\ req[r].pc \in Running
      BY <1>6, <1>7, <2>4
    <3>2. queue[s] # <<>> /\ Head(queue[s]) = r
      BY <3>1, AtWork
    <3>3. r \notin waiting
      BY <1>2, <3>1 DEF Running
    <3> QED
      BY <2>1, <3>2, <3>3
  <2>5. QueueInv'
    BY <2>1, <2>3, <2>4, Zenon DEF QueueInv
  <2> QED
    BY <2>2, <2>5
<1>9. /\ prompts' \in Seq(Request) /\ shown' \in BOOLEAN /\ paused' \in BOOLEAN
      /\ closing' = Nobody \/ closing' \in [of : Request, answer : Answer]
      /\ ReviewInv'
  <2>1. CASE asked = {}
    <3>1. \A r \in Request : req'[r].pc = "review" <=> req[r].pc = "review"
      BY <1>2, <1>4, <2>1
    <3>2. UNCHANGED reviews /\ UNCHANGED <<prompts, shown, closing, paused>>
      BY <1>1, <2>1 DEF reviews
    <3>3. ReviewInv'
      BY <3>1, <3>2, ReviewFrame
    <3> QED
      BY <3>2, <3>3 DEF TypeInv
  <2>2. CASE asked # {}
    <3>1. PICK q \in asked : Removed(q, "reject")
      BY <1>1, <2>2
    <3>2. q \in Request /\ q \in Range(prompts) /\ req[q].pc = "review" /\ q \notin waiting
      BY <1>2
    <3>3. \A r \in asked : r = q
      <4>1. /\ req[q].pc \in Running
            /\ \A r \in asked : r \in Request /\ From(r) = From(q) /\ req[r].pc \in Running
        BY <1>2, <3>2 DEF Running
      <4> QED
        BY <3>2, <4>1, AtWork
    <3>4. /\ prompts' \in Seq(Request) /\ Range(prompts') = Range(prompts) \ {q}
          /\ shown' \in BOOLEAN /\ paused' \in BOOLEAN
          /\ closing' = Nobody \/ closing' \in [of : Request, answer : Answer]
          /\ shown' => prompts' # <<>> /\ closing' = Nobody /\ ~ paused'
          /\ closing' # Nobody => closing'.of \notin Range(prompts')
          /\ shown /\ Head(prompts) = q => \A r : Closing(r)' <=> r = q
          /\ ~ (shown /\ Head(prompts) = q) => \A r : Closing(r)' <=> Closing(r)
      BY <1>3, <3>1, <3>2, RemovedFacts
    <3>5. \A r \in Request \ {q} : req'[r].pc = "review" <=> req[r].pc = "review"
      BY <1>2, <1>4, <3>3
    <3>6. ASSUME NEW r \in Request
          PROVE  req'[r].pc = "review" <=> r \in Range(prompts') \/ Closing(r)'
      <4>1. CASE shown /\ Head(prompts) = q
        <5>1. ~ EndsAtOnce(q) /\ ~ Closing(r)
          BY <4>1 DEF EndsAtOnce, ReviewInv, Closing
        <5>2. req'[q] = req[q]
          BY <1>4, <3>2, <5>1
        <5>3. req[r].pc = "review" <=> r \in Range(prompts)
          BY <5>1 DEF ReviewInv
        <5> QED
          BY <3>2, <3>4, <3>5, <4>1, <5>2, <5>3
      <4>2. CASE ~ (shown /\ Head(prompts) = q)
        <5>1. EndsAtOnce(q)
          BY <3>2, <4>2 DEF EndsAtOnce
        <5>2. req'[q].pc = "answered"
          BY <1>4, <3>2, <5>1
        <5>3. ~ Closing(q)
          BY <3>2 DEF ReviewInv, Closing
        <5>4. req[r].pc = "review" <=> r \in Range(prompts) \/ Closing(r)
          BY DEF ReviewInv
        <5> QED
          BY <3>4, <3>5, <4>2, <5>2, <5>3, <5>4
      <4> QED
        BY <4>1, <4>2
    <3>7. ReviewInv'
      BY <3>4, <3>6 DEF ReviewInv
    <3> QED
      BY <3>4, <3>7
  <2> QED
    BY <2>1, <2>2
<1>10. /\ reply' \in [Request -> {"none", "granted", "refused", "disclosed"}]
       /\ \A r \in Request : reply'[r] = "disclosed" => reply[r] = "disclosed"
  BY <1>1 DEF TypeInv
<1>11. TypeInv'
  BY <1>1, <1>5, <1>8, <1>9, <1>10 DEF TypeInv
<1>12. CacheInv'
  BY <1>1, CacheSame
<1>13. FreshInv'
  <2>1. \A r \in fresh : Of(r)' \in open /\ req'[r].pc \in Running \ {"load"} =>
             \/ Of(r)' = Of(r) /\ req[r].pc \in Running \ {"load"}
             \/ loaded'[Of(r)'] = "yes"
    BY <1>6, <1>7 DEF TypeInv
  <2>2. \A r \in overruled : req[r].pc \notin {"idle", "queued"} =>
                             req'[r].pc \notin {"idle", "queued"}
    BY <1>7 DEF TypeInv
  <2>3. /\ open' \subseteq open /\ fresh' = fresh /\ overruled' = overruled
        /\ \A e \in open : loaded[e] = "yes" => loaded'[e] = "yes"
    BY <1>1
  <2> QED
    BY <2>1, <2>2, <2>3, FreshFrame
<1>14. AnswersLatest
  BY <1>7, <1>10, LatestFrame DEF NothingDecided
<1> QED
  BY <1>8, <1>9, <1>11, <1>12, <1>13, <1>14

-----------------------------------------------------------------------------
(* The specification. *)

LEMMA ConsentProceeds ==
    ASSUME Inv, NEW q \in Request, Proceed(q) PROVE Inv' /\ AnswersLatest
  BY ConsentBegins, ConsentConsults, ConsentConsultFails, ConsentDecides, ConsentWrites,
     ConsentSaves, ConsentCommits, ConsentSigns DEF Proceed

LEMMA ConsentNext == ASSUME Inv, Next PROVE Inv' /\ AnswersLatest
<1>1. CASE \E q \in Request : Proceed(q)
  BY <1>1, ConsentProceeds
<1>2. CASE \E q \in Request, d \in Doc, k \in Key : Ask(q, d, k)
  BY <1>2, ConsentAsks
<1>2a. CASE \E q \in Request : GrantFails(q)
  BY <1>2a, ConsentSaves
<1>3. CASE \E answer \in Answer \cap Offered : Answered(answer)
  BY <1>3, ConsentAnswered
<1>4. CASE Dismissed \/ Pause \/ Resume \/ CancelAll
  BY <1>4, ConsentDismissed, ConsentPauses, ConsentCancels
<1>5. CASE \E s \in Source, k \in Key, to \in Decision \cap Settings : Manage(s, k, to)
  <2>1. Decision \cap Settings \subseteq Rule
    BY DEF Rule
  <2> QED
    BY <1>5, <2>1, ConsentManages
<1>6. CASE \E d \in Doc, k \in Key, kind \in {"edit", "revoke"}, to \in Settings :
               Change(d, k, kind, to)
  BY <1>6, ConsentChanges
<1>7. CASE Changes \/ ChangeFails
  BY <1>7, ConsentChangeLoads, ConsentChangeWrites, ConsentChangeSaves, ConsentChangeFails
  DEF Changes
<1>8. CASE \E d \in Doc : Close(d)
  BY <1>8, ConsentCloses
<1> QED
  BY <1>1, <1>2, <1>2a, <1>3, <1>4, <1>5, <1>6, <1>7, <1>8, Zenon DEF Next

LEMMA ConsentStep == ASSUME Inv, [Next]_vars PROVE Inv' /\ [AnswersLatest]_vars
<1>1. CASE Next
  BY <1>1, ConsentNext
<1>2. CASE UNCHANGED vars
  <2>1. /\ UNCHANGED <<saved, docs, requests, fresh, reviews, change, overruled>>
        /\ UNCHANGED <<rules, loaded, revoked, next, open, behind, queue, req, reply>>
        /\ UNCHANGED <<prompts, shown, closing, paused>>
    BY <1>2 DEF vars, docs, requests, reviews
  <2>2. SameAsked /\ QueueInv' /\ ReviewInv'
    BY <2>1, ConsentStays
  <2>3. TypeInv'
    BY <2>1 DEF TypeInv, Inv
  <2>4. CacheInv'
    BY <2>1, CacheSame DEF Inv
  <2>5. FreshInv'
    BY <2>1 DEF FreshInv, Inv, Of
  <2> QED
    BY <1>2, <2>2, <2>3, <2>4, <2>5 DEF Inv
<1> QED
  BY <1>1, <1>2

LEMMA ConsentAlways == Spec => []Inv
  BY ConsentInit, ConsentStep, PTL DEF Spec

(* ReviewsTakeTurns holds for any number of sources, documents, requests   *)
(* and rules: a source has one authorization at work, a request under      *)
(* review keeps its place in the prompt queue, and a review is shown only  *)
(* while no other closes and none is paused.                               *)
THEOREM ReviewsAreInTurn == Spec => []ReviewsTakeTurns
<1>1. Inv => ReviewsTakeTurns
  <2> SUFFICES ASSUME Inv PROVE ReviewsTakeTurns
    OBVIOUS
  <2>1. \A q, r \in Request :
            req[q].pc \in Running /\ req[r].pc \in Running /\ From(q) = From(r) => q = r
    BY AtWork DEF Inv
  <2> QED
    BY <2>1 DEF Inv, ReviewInv, ReviewsTakeTurns
<1> QED
  BY <1>1, ConsentAlways, PTL

(* LatestDecisionCounts holds likewise: no request is answered by an older *)
(* rule than the saved one or the session's, unless its document has been  *)
(* left behind, and no answer or signature older than a change of its rule *)
(* is saved or disclosed, but for a change made during the commit of that  *)
(* answer.                                                                 *)
THEOREM LatestCounts == Spec => LatestDecisionCounts
<1>1. ASSUME Inv, [Next]_vars PROVE [AnswersLatest]_vars
  BY <1>1, ConsentStep
<1> QED
  BY <1>1, ConsentAlways, PTL DEF Spec, LatestDecisionCounts, AnswersLatest
=============================================================================
