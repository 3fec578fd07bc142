---------------------------- MODULE SigningConsent ----------------------------
(***************************************************************************)
(* How applications get the user's consent to sign                         *)
(* (services/signing and services/napplet/prompt-queue.ts): the queue of   *)
(* authorizations of each source, the rules a document caches, the reviews *)
(* shown one at a time, and the changes of saved decisions meanwhile; one  *)
(* account and one window.                                                 *)
(*                                                                         *)
(* A statement of the database executes when its await ends; a commit that *)
(* is awaited holds the database.  A revision is only compared with the    *)
(* current one: fresh holds the requests whose revision still is.  Timed   *)
(* rules are like permanent ones.                                          *)
(***************************************************************************)
EXTENDS Integers, Sequences, FiniteSets, SequencesExt

CONSTANTS
  Source, Doc, Request,
  Key,         \* the rules a source may have
  SourceOf,    \* the source of each document
  Offered,     \* answers a review may get
  Settings,    \* decisions the settings may make
  Limit,       \* authorizations of a source, and reviews, that may wait
  MaxTroubles  \* bound: changes in the settings, documents closed, reviews
               \* paused or cancelled, failed reads and saves

ASSUME ConsentConstants ==
  /\ Doc # {} /\ Key # {} /\ SourceOf \in [Doc -> Source] /\ "reject" \in Offered
  /\ Limit \in Nat \ {0} /\ MaxTroubles \in Nat

VARIABLES
  saved,      \* signing_authorizations
  rules,      \* the rules of each document, its session grants among them
  loaded,     \* whether a document has read the saved ones: no, yes, or broken
  revoked,    \* rules of a document not to be used
  writes,     \* the chain of writes of a document
  next,       \* the rules it will have after the write under way
  open,       \* documents whose signal is not aborted
  queue,      \* authorizations of each source, the first one running
  req,        \* each request: its progress, document, rule and answer
  reply,      \* what its caller got
  fresh,      \* requests whose revision is the current one
  prompts, shown, closing, paused,  \* PromptQueue; shown: the first is visible
  change,     \* the edit or revocation a document is making
  overruled,  \* requests whose rule was decided anew while they ran
  behind,     \* documents with rules other than the saved ones
  troubles

docs == <<rules, loaded, revoked, writes, next, open, behind>>
reviews == <<prompts, shown, closing, paused>>
requests == <<queue, req, reply>>
vars == <<saved, docs, requests, fresh, reviews, change, overruled, troubles>>

Decision == {"none", "allow", "deny"}
Answer == {"reject", "allow", "session", "always", "never"}
NoRules == [k \in Key |-> "none"]
Nobody == [of |-> CHOOSE q \in Request : TRUE, answer |-> "none"]
NoChange == [pc |-> "none", kind |-> "edit", doc |-> CHOOSE d \in Doc : TRUE,
             key |-> CHOOSE k \in Key : TRUE, to |-> "none", fresh |-> FALSE, was |-> FALSE]
ChangeTask == "change"

Of(q) == req[q].doc
From(q) == SourceOf[Of(q)]
Running == {"load", "record", "review", "answered", "write", "save", "commit"}

(* No transaction has the database while it commits. *)
Unlocked == \A q \in Request : req[q].pc # "commit"

(* The members of s outside S, in their order.  (SelectSeq is beyond the    *)
(* provers.)                                                               *)
Without(s, S) ==
  LET kept[i \in 0..Len(s)] ==
        IF i = 0 THEN <<>>
        ELSE IF s[i] \in S THEN kept[i - 1] ELSE Append(kept[i - 1], s[i])
  IN kept[Len(s)]

-----------------------------------------------------------------------------
(* invalidateSigning: the revision advances and every document of the      *)
(* source drops what it read, and its session grant for that rule.         *)
Invalidated(s, k) ==
  [d \in Doc |->
     IF SourceOf[d] # s \/ d \notin open THEN rules[d]
     ELSE [o \in Key |-> IF o # k /\ rules[d][o] = "session" THEN "session" ELSE "none"]]
(* Mutant: the documents of the source keep what they have read. *)
KeptLoaded(s) == loaded

Unloaded(s) == [d \in Doc |-> IF SourceOf[d] = s /\ d \in open THEN "no" ELSE loaded[d]]
StillFresh(s) == {q \in fresh : From(q) # s}
UpToDate(s) == {d \in behind : SourceOf[d] # s}

(* An edit under way sees that the revision is no longer its own. *)
EditAgeing(s) == change' = [change EXCEPT !.fresh = @ /\ SourceOf[change.doc] # s]

(* The user's latest word on a rule; by is the request that brought it. *)
Overrules(s, k, by) ==
  overruled' = (overruled \ by) \union
    {q \in Request \ by : req[q].pc \in Running \union {"signing"}
                          /\ From(q) = s /\ req[q].key = k}

(* A rule of a document that is the saved one, or granted for its session. *)
Agrees(rule, savedRule) == rule = savedRule \/ (rule = "session" /\ savedRule = "none")

(* load(): the saved rules, and the session grants of this document. *)
Reread(d) ==
  [k \in Key |-> IF saved[SourceOf[d]][k] # "none" THEN saved[SourceOf[d]][k]
                 ELSE IF rules[d][k] = "session" THEN "session" ELSE "none"]
Loaded(d) == IF loaded[d] = "no" THEN Reread(d) ELSE rules[d]
Load(d) == rules' = [rules EXCEPT ![d] = Loaded(d)] /\ loaded' = [loaded EXCEPT ![d] = "yes"]
Trouble == troubles < MaxTroubles /\ troubles' = troubles + 1

-----------------------------------------------------------------------------
(***************************************************************************)
(* PromptQueue.                                                            *)
(***************************************************************************)
(* emit: the first review is shown, with a minute of its own, unless one   *)
(* is still closing or reviews are paused.                                 *)
Emit == shown' = (prompts' # <<>>
                  /\ \/ closing' = Nobody /\ ~paused'
                     \/ shown /\ prompts # <<>> /\ Head(prompts') = Head(prompts))

(* Mutant: a review that was never shown closes a sheet too. *)
RemovedSlowly(q, answer) ==
  /\ prompts' = Without(prompts, {q})
  /\ closing' = [of |-> q, answer |-> answer]
  /\ UNCHANGED paused /\ Emit

(* The visible review closes its sheet first; another ends at once. *)
Removed(q, answer) ==
  /\ prompts' = Without(prompts, {q})
  /\ closing' = IF shown /\ Head(prompts) = q THEN [of |-> q, answer |-> answer] ELSE closing
  /\ UNCHANGED paused /\ Emit
Closing(q) == closing # Nobody /\ closing.of = q
EndsAtOnce(q) == q \in Range(prompts) /\ ~(shown /\ Head(prompts) = q)
Told(q, answer) == [req[q] EXCEPT !.pc = "answered", !.answer = answer]

(* answer(), or the minute is over. *)
Answered(answer) ==
  /\ shown /\ closing = Nobody /\ Removed(Head(prompts), answer)
  /\ UNCHANGED <<saved, docs, requests, fresh, change, overruled, troubles>>

Dismissed ==
  /\ closing # Nobody /\ closing' = Nobody
  /\ req' = [req EXCEPT ![closing.of] = Told(closing.of, closing.answer)]
  /\ UNCHANGED <<prompts, paused>> /\ Emit
  /\ UNCHANGED <<saved, docs, queue, reply, fresh, change, overruled, troubles>>

(* startShare refuses while a review is visible. *)
Pause ==
  /\ Trouble /\ ~shown /\ ~paused /\ paused' = TRUE /\ UNCHANGED <<prompts, closing>> /\ Emit
  /\ UNCHANGED <<saved, docs, requests, fresh, change, overruled>>

(* Mutant: the next review is not shown when the picker closes. *)
ResumeQuietly ==
  /\ paused /\ paused' = FALSE /\ UNCHANGED <<prompts, closing, shown>>
  /\ UNCHANGED <<saved, docs, requests, fresh, change, overruled, troubles>>

Resume ==
  /\ paused /\ paused' = FALSE /\ UNCHANGED <<prompts, closing>> /\ Emit
  /\ UNCHANGED <<saved, docs, requests, fresh, change, overruled, troubles>>

CancelAll ==
  /\ Trouble /\ prompts' = <<>> /\ closing' = Nobody /\ paused' = FALSE /\ Emit
  /\ req' = [q \in Request |->
               IF q \in Range(prompts) \/ Closing(q)
               THEN Told(q, "reject") ELSE req[q]]
  /\ UNCHANGED <<saved, docs, queue, reply, fresh, change, overruled>>

-----------------------------------------------------------------------------
(***************************************************************************)
(* authorize and its queue.                                                *)
(***************************************************************************)
Current(q) == q \in fresh /\ Of(q) \in open
Step(q, pc) == req' = [req EXCEPT ![q].pc = pc] /\ UNCHANGED <<queue, reply>>

(* run() ends: the promise settles, unless its abort did, the first entry  *)
(* leaves and the next one starts.                                         *)
Ends(q, granted) ==
  /\ queue' = [queue EXCEPT ![From(q)] = Tail(@)]
  /\ req' = [req EXCEPT ![q].pc = IF granted THEN "signing" ELSE "done", ![q].answer = "none"]
  /\ reply' = [reply EXCEPT ![q] = IF @ # "none" THEN @
                                   ELSE IF granted THEN "granted" ELSE "refused"]

Ask(q, d, k) ==
  /\ req[q].pc = "idle" /\ d \in open
  /\ LET s == SourceOf[d]
         asked == [req[q] EXCEPT !.doc = d, !.key = k]
     IN IF Len(queue[s]) < Limit
        THEN /\ queue' = [queue EXCEPT ![s] = Append(@, q)]
             /\ req' = [req EXCEPT ![q] = [asked EXCEPT !.pc = "queued"]] /\ UNCHANGED reply
        ELSE /\ req' = [req EXCEPT ![q] = [asked EXCEPT !.pc = "done"]]
             /\ reply' = [reply EXCEPT ![q] = "refused"] /\ UNCHANGED queue
  /\ UNCHANGED <<saved, docs, fresh, reviews, change, overruled, troubles>>

Begin(q) ==
  /\ req[q].pc = "queued" /\ Head(queue[From(q)]) = q
  /\ Step(q, "load") /\ fresh' = fresh \union {q}
  /\ UNCHANGED <<saved, docs, reviews, change, overruled, troubles>>

(* The rule that applies when the saved ones are known, or a review. *)
Applying(q) == IF req[q].key \in revoked[Of(q)] THEN "none" ELSE Loaded(Of(q))[req[q].key]

Consult(q) ==
  /\ req[q].pc = "load" /\ loaded[Of(q)] # "broken" /\ Load(Of(q))
  /\ loaded[Of(q)] = "no" => Unlocked
  /\ LET rule == Applying(q) IN
     IF ~Current(q) THEN Ends(q, FALSE) /\ UNCHANGED reviews
     ELSE IF rule # "none"
     THEN /\ req' = [req EXCEPT ![q].pc = "record",
                                ![q].answer = IF rule = "deny" THEN "reject" ELSE "automatic"]
          /\ UNCHANGED <<queue, reply, reviews>>
     ELSE IF Len(prompts) + (IF closing = Nobody THEN 0 ELSE 1) >= Limit
     THEN Ends(q, FALSE) /\ UNCHANGED reviews
     ELSE /\ Step(q, "review") /\ prompts' = Append(prompts, q)
          /\ UNCHANGED <<closing, paused>> /\ Emit
  /\ UNCHANGED <<saved, revoked, writes, next, open, behind, fresh, change, overruled, troubles>>

(* The read fails, and its promise is kept until the next invalidation. *)
ConsultFails(q) ==
  /\ req[q].pc = "load"
  /\ \/ loaded[Of(q)] = "broken" /\ UNCHANGED <<loaded, troubles>>
     \/ /\ loaded[Of(q)] = "no" /\ Unlocked /\ Trouble
        /\ loaded' = [loaded EXCEPT ![Of(q)] = "broken"]
  /\ Ends(q, FALSE)
  /\ UNCHANGED <<saved, rules, revoked, writes, next, open, behind, fresh, reviews, change,
                 overruled>>

(* What to do with the answer of a review. *)
Decide(q) ==
  /\ req[q].pc = "answered"
  /\ IF ~Current(q) THEN Ends(q, FALSE) /\ UNCHANGED writes
     ELSE IF req[q].answer \in {"session", "always", "never"}
     THEN Step(q, "write") /\ writes' = [writes EXCEPT ![Of(q)] = Append(@, q)]
     ELSE Step(q, "record") /\ UNCHANGED writes
  /\ UNCHANGED <<saved, rules, loaded, revoked, next, open, behind, fresh, reviews, change,
                 overruled, troubles>>

Record(q) ==
  /\ req[q].pc = "record" /\ Unlocked
  /\ Ends(q, Current(q) /\ req[q].answer # "reject" /\ req[q].answer # "never")
  /\ UNCHANGED <<saved, docs, fresh, reviews, change, overruled, troubles>>

(* The caller signs what was approved, and discloses it if nothing was     *)
(* revoked meanwhile.                                                      *)
Sign(q) ==
  /\ req[q].pc = "signing" /\ req' = [req EXCEPT ![q].pc = "done"] /\ UNCHANGED queue
  /\ reply' = [reply EXCEPT ![q] = IF Current(q) THEN "disclosed" ELSE "refused"]
  /\ UNCHANGED <<saved, docs, fresh, reviews, change, overruled, troubles>>

-----------------------------------------------------------------------------
(***************************************************************************)
(* Writes of a document, one after another.                                *)
(***************************************************************************)
First(d, task) == writes[d] # <<>> /\ Head(writes[d]) = task
Popped(d) == writes' = [writes EXCEPT ![d] = Tail(@)]
Written(d) == Popped(d) /\ next' = [next EXCEPT ![d] = NoRules]

(* The document's rules become those it had when the write began, but for  *)
(* the new one (those of a closed one are not used again); the revision of *)
(* this write is the one of its request.                                   *)
Install(d, k, rule, by) ==
  LET s == SourceOf[d]
      new == [next[d] EXCEPT ![k] = rule]
  IN /\ saved' = [saved EXCEPT ![s][k] = IF rule = "session" THEN "none" ELSE rule]
     /\ rules' = [Invalidated(s, k) EXCEPT ![d] = new]
     /\ loaded' = [Unloaded(s) EXCEPT ![d] = "yes"]
     /\ fresh' = StillFresh(s) \union by
     /\ behind' = IF \A o \in Key \ {k} : Agrees(new[o], saved[s][o])
                  THEN UpToDate(s) ELSE UpToDate(s) \union {d}
     /\ Overrules(s, k, by)

(* A session grant needs no statement. *)
WriteGrant(q) ==
  LET d == Of(q) IN
  /\ req[q].pc = "write" /\ First(d, q)
  /\ IF ~Current(q)
     THEN /\ Ends(q, FALSE) /\ Popped(d)
          /\ UNCHANGED <<saved, rules, loaded, fresh, behind, overruled, revoked, next, change>>
     ELSE IF req[q].answer = "session"
     THEN /\ Step(q, "record") /\ Popped(d) /\ UNCHANGED <<saved, next>>
          /\ rules' = [Invalidated(From(q), req[q].key) EXCEPT
                         ![d] = [rules[d] EXCEPT ![req[q].key] = "session"]]
          /\ loaded' = [Unloaded(From(q)) EXCEPT ![d] = "yes"]
          /\ fresh' = StillFresh(From(q)) \union {q}
          /\ revoked' = [revoked EXCEPT ![d] = @ \ {req[q].key}]
          /\ behind' = IF d \in behind \/ ~Agrees("session", saved[From(q)][req[q].key])
                       THEN UpToDate(From(q)) \union {d} ELSE UpToDate(From(q))
          /\ Overrules(From(q), req[q].key, {q}) /\ EditAgeing(From(q))
     ELSE /\ Step(q, "save") /\ next' = [next EXCEPT ![d] = rules[d]]
          /\ UNCHANGED <<saved, rules, loaded, fresh, behind, overruled, revoked, writes, change>>
  /\ UNCHANGED <<open, reviews, troubles>>

(* saveSigningRule: rolled back unless the request is still current when   *)
(* its statements are through.                                             *)
SaveGrant(q) ==
  /\ req[q].pc = "save" /\ Unlocked
  /\ IF Current(q) THEN Step(q, "commit") /\ UNCHANGED <<writes, next>>
     ELSE Ends(q, FALSE) /\ Written(Of(q))
  /\ UNCHANGED <<saved, rules, loaded, revoked, open, behind, fresh, reviews, change, overruled,
                 troubles>>

(* The commit ends, and the request adopts the revision that its own       *)
(* invalidation makes, whatever was decided while it was awaited.          *)
CommitGrant(q) ==
  LET d == Of(q) IN
  /\ req[q].pc = "commit" /\ Written(d) /\ EditAgeing(From(q))
  /\ Install(d, req[q].key, IF req[q].answer = "never" THEN "deny" ELSE "allow", {q})
  /\ IF d \in open
     THEN Step(q, "record") /\ revoked' = [revoked EXCEPT ![d] = @ \ {req[q].key}]
     ELSE Ends(q, FALSE) /\ UNCHANGED revoked
  /\ UNCHANGED <<open, reviews, troubles>>

(* A statement or the commit fails. *)
GrantFails(q) ==
  /\ req[q].pc = "commit" \/ (req[q].pc = "save" /\ Unlocked)
  /\ Trouble /\ Ends(q, FALSE) /\ Written(Of(q))
  /\ UNCHANGED <<saved, rules, loaded, revoked, open, behind, fresh, reviews, change, overruled>>

-----------------------------------------------------------------------------
(***************************************************************************)
(* Changes made in the settings.                                           *)
(***************************************************************************)
Drop(s, k) ==
  /\ rules' = Invalidated(s, k) /\ loaded' = Unloaded(s)
  /\ fresh' = StillFresh(s) /\ behind' = UpToDate(s) /\ Overrules(s, k, {})

(* updatePermissions, of a source whose document is not asked. *)
Manage(s, k, to) ==
  /\ Trouble /\ Unlocked /\ saved[s][k] # to /\ saved' = [saved EXCEPT ![s][k] = to]
  /\ Drop(s, k) /\ EditAgeing(s)
  /\ UNCHANGED <<revoked, writes, next, open, requests, reviews>>

(* edit and revoke, by the document. *)
Change(d, k, kind, to) ==
  /\ Trouble /\ change = NoChange /\ d \in open
  /\ kind = "edit" \/ to = "none"
  /\ Drop(SourceOf[d], k)
  /\ change' = [pc |-> "load", kind |-> kind, doc |-> d, key |-> k, to |-> to,
                fresh |-> TRUE, was |-> k \in revoked[d]]
  /\ revoked' = [revoked EXCEPT ![d] = @ \union {k}]
  /\ UNCHANGED <<saved, writes, next, open, requests, reviews>>

(* An edit that failed leaves the rule as usable as it was. *)
Restored ==
  revoked' = IF change.kind = "edit" /\ change.fresh /\ ~change.was
             THEN [revoked EXCEPT ![change.doc] = @ \ {change.key}] ELSE revoked

ChangeLoads ==
  LET d == change.doc IN
  /\ change.pc = "load" /\ (loaded[d] = "no" => Unlocked)
  /\ IF loaded[d] = "broken" \/ d \notin open
     THEN change' = NoChange /\ Restored /\ UNCHANGED <<rules, loaded, writes>>
     ELSE /\ Load(d) /\ UNCHANGED revoked
          /\ writes' = [writes EXCEPT ![d] = Append(@, ChangeTask)]
          /\ change' = [change EXCEPT !.pc = "write"]
  /\ UNCHANGED <<saved, next, open, behind, requests, fresh, reviews, overruled, troubles>>

ChangeWrites ==
  LET d == change.doc IN
  /\ change.pc = "write" /\ First(d, ChangeTask)
  /\ IF d \in open
     THEN /\ change' = [change EXCEPT !.pc = "save"] /\ next' = [next EXCEPT ![d] = rules[d]]
          /\ UNCHANGED <<writes, revoked>>
     ELSE change' = NoChange /\ Popped(d) /\ Restored /\ UNCHANGED next
  /\ UNCHANGED <<saved, rules, loaded, open, behind, requests, fresh, reviews, overruled, troubles>>

ChangeSaves ==
  LET d == change.doc IN
  /\ change.pc = "save" /\ Unlocked /\ change' = NoChange /\ Written(d)
  /\ Install(d, change.key, change.to, {})
  /\ revoked' = IF change.kind = "edit" /\ d \in open
                THEN [revoked EXCEPT ![d] = @ \ {change.key}] ELSE revoked
  /\ UNCHANGED <<open, requests, reviews, troubles>>

(* Its read or its statement fails. *)
ChangeFails ==
  /\ Unlocked
  /\ \/ change.pc = "save" /\ Written(change.doc) /\ UNCHANGED loaded
     \/ change.pc = "load" /\ loaded[change.doc] = "no"
        /\ loaded' = [loaded EXCEPT ![change.doc] = "broken"] /\ UNCHANGED <<writes, next>>
  /\ change' = NoChange /\ Restored
  /\ UNCHANGED <<saved, rules, open, behind, requests, fresh, reviews, overruled, troubles>>

-----------------------------------------------------------------------------
(* A document is closed or replaced: its waiting requests leave the queue, *)
(* the running one is answered at once and ends when it sees the abort.    *)
Close(d) ==
  /\ Trouble /\ d \in open /\ open' = open \ {d}
  /\ LET mine == {q \in Request : Of(q) = d /\ req[q].pc \in Running \union {"queued"}}
         waiting == {q \in mine : req[q].pc = "queued"}
         asked == {q \in mine : q \in Range(prompts)}
     IN /\ queue' = [s \in Source |-> Without(queue[s], waiting)]
        /\ reply' = [q \in Request |->
                       IF q \in mine /\ reply[q] = "none" THEN "refused" ELSE reply[q]]
        /\ req' = [q \in Request |-> IF q \in waiting THEN [req[q] EXCEPT !.pc = "done"]
                                     ELSE IF q \in asked /\ EndsAtOnce(q) THEN Told(q, "reject")
                                     ELSE req[q]]
        /\ IF asked = {} THEN UNCHANGED reviews
           ELSE \E q \in asked : Removed(q, "reject")
  /\ UNCHANGED <<saved, rules, loaded, revoked, writes, next, behind, fresh, change,
                 overruled>>

-----------------------------------------------------------------------------
Init ==
  /\ saved = [s \in Source |-> NoRules] /\ rules = [d \in Doc |-> NoRules]
  /\ loaded = [d \in Doc |-> "no"] /\ revoked = [d \in Doc |-> {}]
  /\ writes = [d \in Doc |-> <<>>] /\ next = [d \in Doc |-> NoRules]
  /\ open = Doc /\ queue = [s \in Source |-> <<>>]
  /\ req = [q \in Request |-> [pc |-> "idle", doc |-> CHOOSE d \in Doc : TRUE,
                               key |-> CHOOSE k \in Key : TRUE, answer |-> "none"]]
  /\ reply = [q \in Request |-> "none"] /\ fresh = {}
  /\ prompts = <<>> /\ shown = FALSE /\ closing = Nobody /\ paused = FALSE
  /\ change = NoChange /\ overruled = {} /\ behind = {}
  /\ troubles = 0

Proceed(q) ==
  \/ Begin(q) \/ Consult(q) \/ ConsultFails(q) \/ Decide(q) \/ Record(q)
  \/ WriteGrant(q) \/ SaveGrant(q) \/ CommitGrant(q) \/ Sign(q)
Changes == ChangeLoads \/ ChangeWrites \/ ChangeSaves

Next ==
  \/ \E q \in Request :
       Proceed(q) \/ GrantFails(q) \/ \E d \in Doc, k \in Key : Ask(q, d, k)
  \/ \E answer \in Answer \cap Offered : Answered(answer)
  \/ Dismissed
  \/ Pause
  \/ Resume
  \/ CancelAll
  \/ \E s \in Source, k \in Key, to \in Decision \cap Settings : Manage(s, k, to)
  \/ \E d \in Doc, k \in Key, kind \in {"edit", "revoke"}, to \in Settings : Change(d, k, kind, to)
  \/ Changes
  \/ ChangeFails
  \/ \E d \in Doc : Close(d)

Spec == Init /\ [][Next]_vars

(* Statements, signers and sheets end, the minute of a review passes, and  *)
(* a picker that pauses them is closed: while any of these is due, one of  *)
(* them happens.                                                           *)
Due ==
  \/ \E q \in Request : Proceed(q)
  \/ Answered("reject") \/ Dismissed \/ Resume \/ Changes
FairSpec == Spec /\ WF_vars(Due)

-----------------------------------------------------------------------------
(* A source has one authorization at work, however its documents come and  *)
(* go; a request under review has a place in the prompt queue, so that its *)
(* answer arrives; and a review's minute does not run while its sheet is   *)
(* hidden by another's exit or by a picker.                                *)
ReviewsTakeTurns ==
  /\ \A q, r \in Request :
       req[q].pc \in Running /\ req[r].pc \in Running /\ From(q) = From(r) => q = r
  /\ \A q \in Request : req[q].pc = "review" <=>
       q \in Range(prompts) \/ Closing(q)
  /\ shown => prompts # <<>> /\ closing = Nobody /\ ~paused
  /\ closing # Nobody => closing.of \notin Range(prompts)

(* A request is answered by the latest decision on its rule: without a     *)
(* review only by the rule in force, and with one only if none applies; an *)
(* answer or a signature older than a change of the rule is neither saved  *)
(* nor disclosed.  Two things are excepted.  A change made while the       *)
(* answer's own save is being committed does not stop it: the last check   *)
(* is before the commit, and the request adopts the revision after it, so  *)
(* the answer is saved, and may be disclosed until the change is saved     *)
(* over it.  And a document may be left behind, until the next             *)
(* invalidation: by a write of another rule, which puts back an older copy *)
(* of this one, or by a session grant over a saved rule whose deletion     *)
(* failed.                                                                 *)
Undisturbed(q) == Of(q) \notin behind
InForce(q) ==
  LET rule == saved[From(q)][req[q].key] IN
  IF rule # "none" THEN rule ELSE rules'[Of(q)][req[q].key]

LatestDecisionCounts ==
  [][\A q \in Request :
       /\ req[q].pc = "load" /\ req'[q].pc = "record" /\ Undisturbed(q) =>
            /\ InForce(q) # "none"
            /\ req'[q].answer = "automatic" <=> InForce(q) # "deny"
       /\ req[q].pc = "load" /\ req'[q].pc = "review" /\ Undisturbed(q) =>
            InForce(q) = "none" \/ req[q].key \in revoked[Of(q)]
       /\ req[q].pc = "save" /\ req'[q].pc = "commit" => q \notin overruled
       /\ reply[q] # "disclosed" /\ reply'[q] = "disclosed" => q \notin overruled]_vars

(* Every request is answered: no abort, failed write, closed document or   *)
(* sheet, limit or pause leaves one, or those behind it, waiting for ever. *)
RequestsSettle ==
  \A q \in Request : req[q].pc # "idle" ~> req[q].pc = "done"
=============================================================================
