# PsstPsst: a verification development

TLA+ models, TLC runs and TLAPS proofs for the messenger in this repository.
The code referred to is under `src/services/` unless a path says otherwise.

## 1. Inventory

PsstPsst is a Nostr messenger (React Native, Electron). Everything runs in one
JavaScript event loop per process; concurrency is the interleaving of `await`s,
callbacks of relays and of the platform, and several devices of one account.
SQLite is the only thing that survives the process. Statements and transactions
run one at a time in the order they were issued (`platform/expo/database.ts`,
foreign keys on), so between two awaits a piece of code is atomic and so is each
transaction it issues, and everything hard happens between them.

| Part | State it keeps | Operations | What is hard | What makes it correct |
|---|---|---|---|---|
| Relay message outbox (`dm/relay-message-outbox.ts`) | jobs, targets, wraps, copies, message status (database); session, generation, drain, abort controller, chained writes (memory) | enqueue, retry, resend; activate, deactivate, wake; prepare, skip, wrap, publish, settle, fail | crash or session change at every await, late answers, several jobs of one message, account removal | FIFO, real outcomes, nothing orphaned, one wrap per recipient and job, nothing resurrected, every job ends |
| Delivery status (`dm/delivery-status.ts`) | the relays of a copy | begin, settle, verdicts | the verdict with work left, settlements in any order | ok is terminal, sent means delivered |
| Configuration publisher (`relay/configuration-publish.service.ts`) | outbox row, cached event; session, timer, running, requested | enqueue, publish, publish and wait, wake, flush, deliver | other devices, replacement while publishing, routes that change, one timer for all deadlines | newest wins, receipts belong to the event, a row leaves when done, the outbox drains |
| Private lists (`relay/private-list-sync.service.ts`, `dm/block.service.ts`, `contact/`) | plaintext tables, revision, dirty | edit, background publication, reconciliation | an edit during encryption or decryption | an edit is dirty, waiting or published, and is not overwritten |
| Replaceable events (`relay/replaceable-events.service.ts`) | newest event per coordinate, mirror | store, read, fetch | interleaved stores | newest wins |
| Messaging session (`dm/dm.service.ts`, startup retry, key synchronization) | epoch, subscriptions, processed wraps | init, intake, destroy | stale epochs, duplicates | each message once, nothing stored for a removed account |
| History (`dm/sync-store.ts`, `dm/gift-wrap-pager.ts`, backfill of `dm.service`) | cursors per relay in memory and database, scans | seed, plan, page, checkpoint, advance, retry | a write of an earlier session, seed against write, boundary seconds, a page lost in a crash | no gap is recorded as covered; every pass ends |
| Encryption keys (`dm/encryption-key*.ts`, observed and peer keys) | key declarations | announce, observe, rotate | stale declarations | a message is wrapped for a declared key |
| Groups (`group/`) | ordered actions, members, bootstrap, quarantined rumors, name, unread count | receive, replay, promote, evict, finalize, send, delete, mark as read | late and reordered actions, an incremental path beside the replay | members do not depend on arrival order; name and count follow what is stored |
| Conversation read model (`conversation/`) | tail cache, unread counts, drafts | send, read, refresh | results of a previous account or generation | the view is that of the database |
| Relay pool (`relay/managed-relay-pool.ts`) | connections, logical subscriptions, attempts and timers per relay, query queues | subscribe, query, publish, connect, retry, authenticate, recover, destroy | sockets lost or replaced under subscriptions, AUTH and retries that complete late, limits, network hints | nobody is forgotten, nothing outlives its owner, an end is told once, slots come back |
| Nearby messaging (`proximity/`) | endpoint contexts, sessions, outbox rows, pending acknowledgements, transfers | handshake, election, send, resend, acknowledge, time out, retry, start, stop | two links to a peer, link replacement, lost and late acknowledgements, a session stopped mid-statement | one canonical link; nothing lost, in order, every job in flight has somebody to take it further |
| Signing, signers (`signing/`, `signer/`) | queues, saved and cached rules, session grants, reviews, sessions | authorize, review, save, edit, revoke, sign, abort | a rule changed while a request runs, aborts of queued entries, reviews hidden behind a picker, late remote signers | the latest decision counts; one answer per request |
| Files (`files/`) | pending attachments, shared uploads | stage, upload, pause, send | restart, sharing of one upload | sent once, nothing leaked |
| Applications (`napplet/`, `explore/`), wallet, local relay, notifications | prompts, permissions, registrations | run, prompt, register | dismissal against expiry | one answer per prompt |
| Accounts (`account/`, `stores/active-account.store.ts`) | accounts, active account | sign in, switch, remove | removal beside running work | a removed account leaves nothing |
| Shells (`desktop/`, `modules/`, components) | windows, workers | - | platform I/O | not modelled |

The parts interact so: the user interface calls services; `dm.service` commits a
message and its outbox job in one transaction and wakes the outbox; the outbox
resolves recipients through peer metadata (replaceable events), signs through
the active signer, publishes through the relay pool and settles in the database;
`recomputeMessageStatus` feeds the conversation view. Settings go to the
configuration publisher, whose events other devices and the self-event stream
bring back to the cache, from where they are reconciled into local tables.
Account removal stops the services, waits for their writes, then deletes rows.

`PROJECT.json` lists each component with its status, and under `hazards` what is
hard to test in them, at its line, with the properties that cover it.

## 2. Modules

| Module | What it is |
|---|---|
| `DeliveryStatus` | pure operators of `dm/delivery-status.ts` over one copy's relays |
| `DeliveryLedger` | abstract specification: what the sender is promised about a delivery, with no queue, worker or session |
| `RelayOutbox` | `dm/relay-message-outbox.ts`, with storeRumor of `dm.service`, account switching and account removal |
| `MCRelayOutbox` | its instances for TLC |
| `RelayOutboxProofs`, `RelayOutboxLedgerProofs` | theorems about `RelayOutbox`, the second, about the ledger and the rows, extending the first |
| `ConfigPublish` | `relay/configuration-publish.service.ts` with `relay/private-list-sync.service.ts`, the guarded store of `replaceable-events.service.ts` and the reconciliation of `block.service.ts` |
| `MCConfigPublish` | its instances for TLC |
| `ConfigPublishProofs` | theorems about `ConfigPublish` |
| `GroupMembership` | the replay of `group/group-membership.ts` as recursive functions |
| `MembershipLedger` | abstract specification: the members are the replay of what is known, and nothing that had an effect is forgotten |
| `GroupReceive` | `group/group-receive.service.ts` with the sends of `dm.service`, `group/group.service.ts`, deletion, mark-as-read and finalization |
| `MCGroupReceive` | the histories said in its instance |
| `GroupReceiveProofs` | theorems about `GroupReceive` |
| `HistorySync` | `dm/sync-store.ts`, `dm/gift-wrap-pager.ts` and the backfill of `dm/dm.service.ts` |
| `MCHistorySync` | its instance |
| `HistorySyncProofs` | theorems about `HistorySync` |
| `NearbyOutbox` | the durable outbox of `proximity/proximity-runtime.service.ts` with its sessions, links and peers |
| `MCNearbyOutbox` | its instance |
| `NearbyOutboxProofs` | theorems about `NearbyOutbox` |
| `RelayPool` | `relay/managed-relay-pool.ts` with the socket of `relay/lifecycle-relay.ts` |
| `MCRelayPool` | its instance |
| `RelayPoolProofs` | theorems about `RelayPool` |
| `SigningConsent` | `signing/authorization-queue.ts`, `signing/permissions.ts` and its repository, `napplet/prompt-queue.ts` |
| `MCSigningConsent` | its instance |
| `SigningConsentProofs` | theorems about `SigningConsent` |

### RelayOutbox

The variables in the group "database" are the tables (`status` and
`deliveryError` are columns of `messages`; an "absent" message has no row), those
in "process" and "wakeup" the fields of the class, `pc` and `locals` the worker
between two awaits. `writes` holds the settlements `onRelay` has accepted and
`serializeMessageWrite` has chained. The boolean `current` stands for
`isCurrent(session, generation)` of the running drain: both compare the captured
session with the present one, and every activate or deactivate makes it false.
`acked`, `refused`, `published` and `prepared` only observe.

One action is one synchronous stretch and the statement or transaction it
issues. Where the code checks nothing between two awaits, neither does the
model: a wrap is stored after the session ended (`StorePayload`), a publish
starts after the network went (`StartPublish`, see the hazard at line 398).
Retry takes any subset of the relays requested, of which the failed ones count,
as `enqueueRetryTargets` does. `removeAccount` of the active account ends the
session, waits for the drain and the chained writes, then deletes messages,
copies and jobs, each in a statement of its own; a crash between them leaves an
"interrupted" removal, and the account may be entered or removed again.

Abstracted: relay URLs are normalized and distinct; rumors, wraps, keys and
errors are their presence; resend and retry are offered for durable messages
only, because the timeline shows no others. Left out: job scope
`selected_targets` (read by the code, written by nothing), and the check that a
rumor's author is the account. `MaxFaults` statements may be rejected: the worker
then fails the step as the code does. `SettleFaults` adds rejected settlements,
which end a publish while its other settlements are still chained; the next drain
then runs beside them. The ledger and the order of jobs hold with it; `RowsAgree` and the
wrap properties do not, and are checked and proved without it. A settlement is rejected only when the database is broken (disk full,
corruption), and these properties are not claimed for that case.

### ConfigPublish

The events of one coordinate are ranks in the order `(created_at, id)`, which is
all `isNewerEvent` looks at; a signer may produce any unused rank above the
timestamps the code reads. A deadline is only due or not. `edit` is the
serialized job of a coordinate (queued or waited), `job` the background
publication of a private list, `reconcile` a remote event being decrypted,
`delivery` one `deliver` per row of the batch. `Slot` is split by what the code
distinguishes: private lists, manual kinds (10002, 10050, 10063), the merged
kind 10002, whose edits name the event they were based on, and the kinds
10044 and 10050 that the startup repair queues again. `reached` collects the
events that had a majority of the routes at some moment, `handed` and
`confirmed` the waited events given to relays and accepted by a majority.

Routes are never empty because discovery relays are static and always added
(`relay-router.ts`). That a kind-10002 event is also sent to the relays it names
is not modelled; its two properties do not look at targets. One account; the batch limit of four is
not reached; the mirror of the cache agrees with the database; the final write
of `deliver` and the update of `wake(true)` succeed. Contacts use a variant of
the private list job with a table of their own; drafts and snapshots of emoji
lists, and the creation of missing declarations at setup, are not modelled.

The repair deserves a note. A remote declaration that reached the cache while a
local edit waits is queued again and replaces the waiting edit in the outbox
(`messaging-metadata.ts:177`, then `enqueueConfigurationEvent`). The model does
the same; the newer event wins, which `LeavesWhenDone` allows.

### GroupReceive

One group of one account. The rumors that may be said are drawn once
(`Histories`) and numbered in the order of their keys, so that a position is an
`orderAt` with its tie broken. `Arrive` is one `receive()` of a rumor from live,
history or archive; `BuildSend` and `CommitSend` are the two halves of an own
send, between which the roster may change. `receive()` is one transaction and so
one action; its early returns change nothing and are no action. `formal` are the
rows of `group_member_actions`, `pending` those of `pending_group_rumors`, by
the way they came. `Ledger` maps the model to `MembershipLedger`: known actions
are the formal ones and the quarantined candidates.

Recovery is the same as live. The unread count is bounded as by `UNREAD_CAP`
(`UnreadCap`), and set by hand in three ways: `ReadNewest` and `MarkRead` are the
two halves of `markConversationAsRead`, `MarkRequestsRead` is
`markAllRequestConversationsAsRead` (`conversation-read.service.ts:14-33`), and
`MarkUnread` is `markConversationAsUnread` (`dm.service.ts:828-844`). Left out:
blocked senders, `hasReplied`, the cap per account, a membership action on a draft
without a bootstrap, mark-as-read of a draft. The cursor an envelope is measured
against is any value read earlier (0 to `covered`). Four behaviours are excepted
by the properties, or not modelled, and worth knowing:

- An own action committed after the account was removed is quarantined as local,
  and a late earlier action may promote it (`group-receive.service.ts:626-637`)
  with no relay job: peers never get it.
- `markConversationAsRead` (`dm.service.ts:727-753`) reads the newest message and
  writes the cursor and the count later; a message stored in between is counted
  as read in one and not in the other. `UnreadStaysExact` excepts just that step.
- `markConversationAsUnread` is a reminder: it sets the count to one with nothing
  unread after the cursor. `UnreadStaysExact` excepts the step, and asks that the
  count be exact again after the next message stored or mark-as-read in time.
- `setGroupSaved` and the undelete of `contact.service.ts:76` bring a
  conversation back without counting again (not modelled).

### HistorySync

Time is in ticks no shorter than the spread of wrap dates; a relay gets a wrap at
most `Overlap` after its date, which is what `FORWARD_OVERLAP_SECONDS` is for.
`cursor` is the row and its cache, `writes` the serialized writes issued and not
completed, each with a flag that says whether a pass waits for it. A pass (`task`)
goes from one await to the next: it plans a window, stores its bounds, asks for a
page, gives it to the intake, stores the checkpoint, and goes on to the deep
history. `taken` holds what was given to the intake, decodable or not.

A read that is not interrupted ends in one of three ways. `QueryAnswers` is a page closed by the relay's
EOSE, assumed to come after the newest `PageSize` wraps of the range.
`QueryFails` is a relay that closes or fails. `QueryTimesOut` is the deadline of
25 s: the code counts it as complete (`isEffectiveEose`, `relay-read.ts:7-10`;
`managed-relay-pool.ts:706-734`; `gift-wrap-pager.ts:47`), with whatever part of a
page came by then, or none. A partial page moves the frontier below wraps the
relay had not sent, an empty one sets `BACKFILL_DONE` or the forward cursor.
`docs/ARCHITECTURE.md:420-423` says so: best-effort policy, not proof that a relay
returned all it has. What such a read passed over and nobody took is `missed`.
Without this exception the three safety properties are false. With it they say
that, but for the two exceptions below, a timed-out read is the only way to lose
history, and that it loses only what it itself passed over on that relay.

Excepted in the properties, besides `missed`: more than `PageSize` wraps in one
second (`Pageable`), and what a relay got before its cursor was inherited from
another one (`seeded`). Left out:
aliases, `clearSyncCursorCache`, the skip of a frontier fresher than one tick;
recovery after a reconnection only takes wraps (`TakeOtherwise`), and finality is
only its measure (`Coverage`).

### NearbyOutbox

One account and any number of peers. `drain` is the worker between two awaits,
`pending` and `timers` its maps, `requeuing` deferrals whose statement has not
run, `ack` the acknowledgement a peer's link is handling. `wire` and `reply`
carry records in order and are lost with their link. Each loop over rows, `Stop`
and the timers follow the source; the retry delays are only "now" or "later".

Some behaviours the properties except, all visible in the source: after a
rejection for good the worker is not called (2962-2990), so that a waiting
message goes only with the next wake (`JobsFinish` excepts rejections); an
acknowledgement that is handled while the session stops updates the job and not
the message, because `this.accountPubkey` is read when the transaction runs
(`NothingIsLost` says what remains true); a crash between the storage of a
message and its job leaves a message without a job ("plain"); a resend may
reorder (`resent`). Stop is one step; the handshake, the election, file transfer
and the delivery phase shown by `deliveryStatusStore` are not modelled.

### RelayPool

`conn` is `ManagedConnection` per relay: its socket, its retry timer, and the
subscriptions that await its connection, were told of its failure or wait for
its AUTH. `link` is what a logical subscription has on each of its relays: its
initial read, its physical subscription, its own retry. `phase` is whether it is
open and, for a query, whether it waits for a slot (`queue`, `active`). A query
is one logical subscription per relay, which its end closes. Every action
computes new connections and links and then closes what has ended (`Settle`,
`Close`), as the callbacks of one event do. Generations are implicit: the code
only compares them with the current one, so what belongs to a lost socket is
dropped with it. `AuthFails` and `AuthDrops` are two steps because waiting
subscriptions learn of the failure before the socket is closed.

Two behaviours are excepted, both visible in the source:

- The first snapshot of the network only initialises the pool: if it is the one
  that says the network is back, nothing reconnects before the next change or
  return to the foreground (`managed-relay-pool.ts:556-572`). `missed` marks it.
- When the pool closes a socket itself, the read of an attached subscription
  stays open with no timer (line 756, and the connection timer was stopped when
  it was attached). It ends on the next connection, so a query whose relay never
  returns keeps its slot. So `QueriesEnd` assumes that the relays come back.

Left out: the answers of publishes, deduplication of events, status
notifications, `hasHealthySubscription`, and the adapter for remote signers, with
`closeRelays` (449-454), which only that adapter exposes and which would leave a
demanded relay without a plan.

### SigningConsent

A request (`req`) goes from its source's queue through the cached rules of its
document, a review, a write and the signature. `fresh` abstracts revisions: the
requests whose revision is still the current one. A change of a rule invalidates
the documents of its source and is made by a document (`Change`) or in the
settings (`Manage`). `prompts`, `shown`, `closing` and `paused` are the prompt
queue: one review is visible, a sheet closes before the next opens, a picker
pauses them. Timed rules are like permanent ones; other windows, resets,
`rejectAll`'s blocked minute, uploads and the browser's prompts are left out.
The limits (16 in the code) are modelled and not reached by the instance.

A grant to be saved is three steps. `WriteGrant` gives it to the serialized writes,
`SaveGrant` is the last guard, inside the transaction (repository.ts:84), and
`CommitGrant` the end of the awaited COMMIT (platform/expo/database.ts:133). In
between the transaction has the database (`Unlocked`), but memory goes on: a
change begun then invalidates the request, which `CommitGrant` makes current
again, as it adopts the revision of its own invalidation (repository.ts:86,
permissions.ts:153-170) and removes the rule from `revoked`. So a revocation during a
COMMIT does not stop the answer that is being saved; it is used, and may be
disclosed, until the change's own statement, queued behind it, is saved over it. A
revocation whose statement then fails leaves the grant in force.
`LatestDecisionCounts` states this exception: what is decided between the last guard
and the end of the COMMIT counts from its own save on.

Excepted in `LatestDecisionCounts` are also the documents `behind`, until the next
invalidation. One is a document that saved a rule while another was changed
elsewhere: `next` is copied before the statement and installed after it, and with
it an older copy of the other rule. The other got a session grant while the
deletion of its saved rule had failed: the deletion leaves the rule revoked and
saved, the grant makes it usable again (`revoked.delete`), and the document
uses the grant until it rereads the saved rule (permissions.ts:52-66, 153-170). A
failed first read leaves a rejected promise in `loaded` (permissions.ts:39-45), so
that the document refuses everything until then (`ConsultFails`).

## 3. Runs

All instances use `CHECK_DEADLOCK FALSE`: an idle system whose users, network
and bounds are exhausted really stops. `RelaySymmetry` permutes relays, which are
distinguished by nothing but their answers; it is not used with liveness.

| Run | Instance | States | Shows |
|---|---|---|---|
| `outbox_pauses` | 1 account, 2 recipients, 1 relay, 1 message, 2 jobs, 3 events, 1 fault | 1.28 M | the records of a delivery agree, are real, and every job settles |
| `outbox_accounts` | 2 accounts, a durable and a non-durable message, 2 relays, 2 jobs, 2 events, 1 fault (settlements too) | 1.16 M | jobs are FIFO; the outbox implements `DeliveryLedger` |
| `outbox_partial` | 1 relay, 2 jobs, 1 event | violated | see findings |
| `outbox_fixed_targets` | 2 relays, 2 jobs, 3 events | violated | see findings |
| `config_edits` | relay list or private list, 2 relays, 3 ranks, 2 edits (1 with a second event) | 1.11 M | waited edits win and keep their base; no edit of a private list is lost |
| `config_queued` | inbox list, 2 relays, 2 ranks, 2 edits, 1 event | 778 k | receipts, cache and outbox rows; the outbox is emptied |
| `group_replay` | 3 persons, 5 histories of 4 rumors, a quarantine of 2, counts up to 2 | 109 k | `MembershipLedger` is implemented; tail, name, count and announcements follow what is stored |
| `history_passes` | 1 relay with 3 wraps or 2 with 1, pages of 2, overlap 1, 3 ticks, 1 event, timeouts | 334 k | nothing is forgotten and checkpoints and coverage are read, but for what a timed-out read left out; passes end |
| `nearby_outbox` | 1 peer, 2 messages; two of a fault, a rejection, a resend | 489 k | nothing is lost or overtaken, jobs in flight have an owner, jobs finish |
| `nearby_rejected` | the same | violated | see findings |
| `relay_pool` | a subscription on 2 relays, 2 queries on one of them, 1 slot, 2 events | 143 k | nobody is forgotten, nothing outlives its owner, slots are used, ends are told once, queries end |
| `signing_consent` | 2 sources, 3 documents, 2 requests, 2 rules, 1 trouble | 349 k | one authorization at a time, the latest decision counts, every request settles |

An "event" is a session change, a network or app-state change, a change of
routes, a failing delivery, a repair, or a crash. Why these bounds are enough to
be of interest: two jobs are the least with an order and with two works on one
copy; two recipients are the least with a partial delivery; two relays the least
with a majority that is not one; three events cover loss, return and a crash at
any three points; two edits are the least with an earlier and a later one, a
third rank leaves room for another device between or above them. Four rumors are
the least in which two members remove each other and an invitation decides who
was right; a quarantine of two evicts. Three wraps and pages of two need a second
page and fill a boundary second; three ticks hold a date, its overlap and a later
pass. Two messages to one peer are the least with an order; which of two goes
wrong for them, in any order, is left open. Two requests are the least that wait
for each other, in one source or in two, or for one slot of a relay; a
subscription on a second relay has a last relay that ends its read. A change of
the network's name alone is not drawn in `relay_pool`: it does what a return to
the foreground does. `history_passes` draws an event with three wraps only before the last tick, and
once a timed-out read has left a wrap out only with one relay and one wrap.
`group_replay` draws a mark-as-unread in one of the histories, while nothing is
hidden, being read or sent; a deletion during a send or a mark-as-read in one
each; a mark-as-read not during a send. One event in `config_queued` means that a pause and its resume are not
drawn together. Its list is public: what a late acknowledgement may do to a
private one is `UnsyncedIsDirty` of `config_edits`. Each bound is
a constant of the module, named in its guards. Every property has a mutant, a
plausible bug in one mapped definition that makes its run fail.

Fairness. `RelayOutbox!FairSpec`: the worker goes on and a removal goes on: the
event loop runs what is scheduled, a publish answers within its ten-second
timeout, and the signer is assumed to return. Users, network and platform owe
nothing; `JobsSettle` assumes that the session, the network and the foreground
finally stay, and that no statement was rejected: drain stops at a rejected
statement by design, until the next wake. `ConfigPublish!FairSpec`: timers fire and awaits
return (weak fairness), and a relay asked again and again accepts at last
(strong fairness of `Accepted`), without which retries may rightly go on forever.
`HistorySync!FairSpec`: a write completes, a query ends (by EOSE or its timeout), a
timer rings; failures are bounded events and owe nothing. `NearbyOutbox!FairSpec`:
the worker, the timers and the peer go on; `JobsFinish` assumes a session and a
link that stay. `RelayPool!FairSpec` is weak fairness of `Work` as a
whole: while a timer, an attempt, a deadline, an answer or a free slot is due,
one of them happens; relays, owners and platform owe nothing, and `QueriesEnd`
assumes that they finally stay up. `SigningConsent!FairSpec` is weak fairness of `Due` as a whole,
weaker than fairness of each step: while a statement, a signer, a sheet, the
minute of a review or a picker is due, one of them happens.

### Findings

1. `outbox_partial`: `docs/implementation/relay-message-delivery.md:33-34` says a
   copy that has not met its threshold and still has work keeps the message
   queued. `messageDeliveryVerdict` says `partial` as soon as one copy is
   delivered and none is pending, with a retry of another copy still queued.
2. `outbox_fixed_targets`: the same document, line 9, says a job owns a fixed
   set of targets once preparation succeeds. A job whose recipients all failed to
   be wrapped loses its targets; interrupted before `finishEmptyJob`, it is
   prepared again, from the relay lists of that later time.
3. `nearby_rejected`: `docs/implementation/nearby-messaging.md:55-56` returns to the
   queue what misses its acknowledgement or was refused for a reason that passes.
   A rejection for good that is handled before `drain` writes `awaiting_ack`
   (line 3614) is overwritten by it: the message, shown as failed, gets a timer,
   is queued by it and sent again.

## 4. Proofs

For every set of accounts, recipients, relays, messages, relay lists and every
bound (assumption `OutboxConstants`, which says only what the constants are):

| Theorem | Says | Argument |
|---|---|---|
| `TypeCorrect` | `[]TypeOK` | `TypeOK` is not inductive: steps that use `job` need the worker to hold one. `TypeInv` adds `JobHeld`. |
| `RecordedOutcomesAreReal` | `[]OutcomesAreReal` | a settlement is written by an earlier answer: `RealInv` adds `WritesAreReal`, that each chained write repeats an answer in `acked` or `refused`. |
| `JobsAreFIFO` | `JobsFinishInOrder` | `OrderInv`: what the worker, its chained settlements and its in-flight targets may delete concerns the oldest job of the account, and ids only grow. |
| `RemovedDataStaysRemoved` | `[]NoResurrection` | `RemovalInv`: targets and wraps have a job (foreign keys); a current worker serves the active session, which is never one being removed; and per stage of the removal what is already gone. |
| `OutboxKeepsLedger` | `LedgerSpec` | the refinement of `DeliveryLedger`. A settlement for a target that still exists concerns the worker's own job (`WritesOfJob`, as jobs are finished in order); whatever drops entries waits for the chained settlements (`Serialized`); a relay is marked `trying` before the message is handed to it (`TryingIsAwaited`), and whatever is handed over or reserved is listed (`AnswerIsAwaited`, the third part of `RowsAgree`). |
| `WrapsFollowTargets` | `[]WrapsMatchTargets` | `WrapInv`, assuming `~SettleFaults`: what the worker at each `pc` knows about the recipients already wrapped |
| `WrapsAreReused` | `WrapIsReused` | the same: a published wrap whose recipient is still to be wrapped would have been stored |
| `RowsAlwaysAgree`, `QuiescentVerdict` | `[]RowsAgree`, `[]QuiescentStatus` | `RowInv`, assuming `~SettleFaults` (below) |
| `AcknowledgedAreSkipped` | `SkipsAcknowledged` | the same: what the worker holds from `findSuccessfulTargets` to the publish (`LocalNotOk`) no step but its own acknowledges, as chained settlements are awaited before the next job is read |

`AnswerIsAwaited` cannot be widened to every target of a job: with a failed message,
a resend and a retry queued behind it, a recipient of the resend that cannot be
wrapped drops the entries of his copy while the retry's targets remain. The retry
then settles in no copy, which the ledger allows and the sender never sees.

`WrapInv` joins `QuietWrites` (settlements are chained only while their publish
runs), `JobIdentity`, `PayloadHasTarget`, `PublishedWrapped` and `WorkerWrap`.

`RowInv` is `HoldInv`, about the worker, and `Agrees(m)` of every message. None of
`PendingHasTarget`, `QueuedHasJob` and `QuiescentStatus` is inductive without the
other two parts of `Agrees` and the worker's knowledge: a message waits for the
copies it lists (`PendingRow`: a pending entry is of a row), rows of a message that was
never stored do not exist (`Unstored`), and a step that deletes a job must have
left none of its targets pending. `HoldInv` says when it does so: the job in the
worker's hands is there unless its last target or its account went
(`JobPresent`), what it skips is acknowledged (`SkippedIsOk`), the job that it
finishes or abandons has no target left (`NothingLeft`), and while gift wraps
are made every remaining target is in its hands (`LocalCovers`). The proof that a
step keeps `Agrees(m)` splits on whether the step writes `m`: for the others
`UntouchedAgrees` serves all actions, and for the one it writes each part is shown
from what the transaction recomputes (`RecomputedAgrees`, `PlainAgrees`).
Each module proves `Init => Inv`, one lemma per action, and the temporal step. The
strengthenings were checked with TLC on the instances above first.

For every set of peers, messages and every bound on faults, rejections and
resends (assumption `NearbyConstants`), in `NearbyOutboxProofs`:

| Theorem | Says | Argument |
|---|---|---|
| `TypeCorrect` | `[]TypeOK` | `TypeInv` adds `Held`: a worker about to hand over a record is on a link that is up, or knows that it was lost. |
| `InFlightHasOwner` | `[]InFlightIsOwned` | `HonestInv`: what travels on a link is addressed to its peer, and an answer, on its way or being handled, tells what that peer did. So the acknowledgement that stops a timer is the one that answers for the message. |
| `NoMessageIsLost` | `[]NothingIsLost` | `KeptInv` on top of `HonestInv`: a job fails only of a rejection, so a message composed or sent again cannot inherit a failure of another cause. |
| `ConversationsInOrder` | `[]DeliveredInOrder` | `TurnInv`: what is stored, on a link, claimed or being handed over (`Out`) has every earlier message of its conversation `Settled`. The messages still being composed are the end of the timeline (`Composed`), and a drain claims the first live one of each conversation (`ChosenInTurn`). |

For every set of coordinates and relays, every split of the coordinates and every
bound (assumption `ConfigConstants`), in `ConfigPublishProofs`:

| Theorem | Says | Argument |
|---|---|---|
| `CacheAdvances` | `CacheNeverRegresses` | `CacheInv`: nothing is queued, delivered or decrypted that is newer than the cache. |
| `ReceiptsStay` | `[]ReceiptsAreForTheEvent` | `ReceiptInv` adds the same of a delivery: its receipts are for its own event, which the row may no longer hold. |
| `RowsLeaveDone` | `LeavesWhenDone` | `ReachInv`: a delivery that settles with a quorum of the routes as last read has an event a majority had; `QuorumGrows` carries a quorum from receipts to all acknowledgements. |
| `LaterWins`, `MergedEditsKeep` | `[]LaterEditsWin`, `MergedEditsKeepTheirBase` | `EditInv`: what was handed to relays is not above `confirmedSignedAt`, and what is to be signed is above it. |
| `NothingUnsynced`, `RemoteYields` | `[]UnsyncedIsDirty`, `RemoteKeepsLocalEdits` | `ListInv`: the cached event of an own edit is dirty, waiting or reached, so that applying it loses nothing; `JobInv`: what a job encrypts is the list unless its revision moved on. |

Its proof first says once what a step does to each part of the state (`RowMoves`,
`DeliveryMoves`, `AcksMoves`, `ContentMoves`, `ListMoves`, `JobMoves`, `MadeMoves`,
each by action); the parts of `Inv` then follow from these without the actions.

For every set of relays, subscriptions and queries, every choice of relays and
signers, every limit and number of events (assumption `PoolConstants`), in
`RelayPoolProofs`:

| Theorem | Says | Argument |
|---|---|---|
| `NoneIsForgotten` | `[]DemandHasPlan` | `PoolInv` adds what makes a plan work: a physical subscription needs an open socket, a socket needs the network, a timer a relay without a socket. |
| `ClosedIsGone` | `[]NothingOutlivesOwner` | `PoolInv` adds that a subscription that is not open has nothing on any relay, and that only open ones await a connection. |
| `ToldOnce` | `[]EndsOnce` | `PoolInv` adds how often each owner has been told by now (`Count`), which depends on every relay's read. |
| `SlotsAreTheirs` | `[]SlotsAreUsed` | `SlotInv` adds what a queue may hold: each query once, of that relay, still queued or closed while it waited. A released slot goes to the first that is still queued (`DrainOne`), and none is left while one of them waits (`RoomIsFilled`). |

`PoolInv` is stated of the results of an action before `Close` is applied to them
(`Good`), so one lemma (`CloseStep`) serves every action but the starts, and the
proof of an action is that its results are `Good`. `QueueInv` types the queue.

For every set of relays and wraps, every page size, overlap and bound
(assumption `HistoryConstants`), in `HistorySyncProofs`:

| Theorem | Says | Argument |
|---|---|---|
| `TypeCorrect` | `[]TypeOK` | `LinkInv`: a write a pass waits for is the one its next step takes for granted (`Matches`), and there is one of it (`Single`). |
| `HistoryIsKept`, `CheckpointsAreRead`, `CoverageRead` | `[]NothingForgotten`, `[]CheckpointIsRead`, `[]CoverageIsRead` | `SoundInv` (below). All but for `missed`, what a timed-out read left out |

None of the three is inductive, because what a relay's cursor will say is not
decided by what it says now: writes of earlier sessions and of a later pass are
on their way to it, and complete over each other's windows. `Sound` therefore
says of every combination what the properties say of the stored one (`Kept`): of
any backward frontier that is stored, on its way or held by the pass, together
with every forward frontier and window that is. A wrap beyond the one is `Ahead`
of all the others. So a write may land in any order (`WrittenSound`), and losing
any of them with the process or a rejected statement leaves less to claim
(`KeptShrinks`). A timed-out read is a page like any other once `missed` has what it
passed over: `missed` only grows, and what it has is in nobody's claim
(`QueryTimesOutKeeps`). `Passing` adds what a pass that reads knows: what of its range
is not yet taken is on its page or below where the next one starts (`Reading`,
from `PageReads`, where the boundary second and `Pageable` count). A relay
without a cursor has nothing on its way but one seed (`Fresh`), whose claims
cover only what arrives once it is stored (`Onward`). Time and arrivals only add
wraps later than every claim (`Later`). What a pass does between two awaits is
proved apart from the state, as a step from `Going` to an `Outcome`, one lemma per
operator; the lemma of an action then only says what the queue of writes and the
world become.

For every set of people, every history of any length and every bound (assumptions
`GroupConstants` and `LastIsPositive`), in `GroupReceiveProofs`:

| Theorem | Says | Argument |
|---|---|---|
| `MembersAreReplayed` | `MembershipIsReplay` | the refinement of `MembershipLedger`. `ReplayInv`: the members are the replay of what is recorded or waits (`Known`), and what has an effect in it is recorded. |
| `TailStaysNewest` | `[]TailIsNewest` | `TailInv` adds that a tail belongs to a known group and lies after its bootstrap. |
| `NamesAreNewest` | `[]NewestNameWins` | `NameInv` says the same of every state: updating the name from the new subjects alone is choosing among all (`NewestOfParts`). |
| `UnreadStays` | `UnreadStaysExact` | every step counts anew, reads, hides or stores nothing (`Recounts`, `Shows`, `Kept`), but for a late mark-as-read and a mark-as-unread. |
| `AnnouncedAsShown` | `AnnouncedWhenShown` | `WaitingInv`: what waits is not stored. |

`GroupInv` joins these with `UnknownInv` (of a group not known yet there is nothing
but what waits for it, and nothing waits for one created here) and `RowInv`. The
members are kept without replaying, so that each way to change them must be shown
to give what the replay would: an action beyond the tail is applied to the members
there are (`NewestAction`, with `MembersBefore` for whether it may), and waiting,
eviction and finality learn or forget only actions without effect, which changes
neither the members nor what has an effect (`IneffectiveActions`). That the evicted
ones have none is part of `ReplayInv`: only what is not recorded waits. These facts
are of the recursive function `Rosters`, along a history of any length. The
library's induction theorems take an operator, which the provers cannot
instantiate, but `WFMin` is about a set: a least position where the fact fails
(`LeastNatural`, `Induction`) leads to a contradiction with the one before it.

For every set of sources, documents, requests and rules, every limit and number
of troubles (assumption `ConsentConstants`), in `SigningConsentProofs`:

| Theorem | Says | Argument |
|---|---|---|
| `ReviewsAreInTurn` | `[]ReviewsTakeTurns` | `QueueInv`: the queue of a source holds exactly its requests that wait or are at work, each once, the one at work first. So a document has at most one request under review, and closing it removes at most one prompt. `ReviewInv` is the rest of the property itself. |
| `LatestCounts` | `LatestDecisionCounts` | `CacheInv`: what a document that is not behind has read agrees with what is saved. `FreshInv`: a request whose revision is current was not overruled since it began or since its own answer was saved, and its document has read the rules. `ConsentCommits`: the end of a COMMIT installs what it saved in every document not behind, whatever happened while it was awaited. |

An invalidation renews both parts (`CacheFrame`, `FreshDrops`): it unloads the
documents of its source and leaves only the request that made the decision
current. The removal of prompts and of queued requests is the recursive function
`Without`, as the provers know nothing of `SelectSeq`; `WithoutFacts` says by the
same induction over a set that it keeps members and order. Preparing these proofs
showed with two troubles, where the run has one, that an earlier statement of
`LatestDecisionCounts` was false: it did not count the session grant over a failed
deletion as being behind. It is exact now, and no longer excepts a change that is
under way.

Only model-checked: liveness (`JobsSettle`, `OutboxDrains`, `HistoryCompletes`,
`JobsFinish`, `QueriesEnd`, `RequestsSettle`), which is out of TLAPS's reach, as
ENABLED is.

## 5. Plan

1. `RelayPool`: the answers of publishes, and a theorem about them.
2. `ProximitySession` (contexts of an endpoint, election) and the unread counts of
   the read model.

## 6. Not modelled

Cryptography, wire formats, files and media, the user interface, the desktop
shell, native modules, migrations, push servers. `PROJECT.json` gives the reason
per component. Those named in the plan are left for later; the others are I/O or
presentation that the modelled services do not depend on.
