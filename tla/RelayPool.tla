------------------------------ MODULE RelayPool ------------------------------
(***************************************************************************)
(* The relay pool (relay/managed-relay-pool.ts): one socket per relay,     *)
(* shared by the subscriptions and the queries of its owners.  A query is  *)
(* one logical subscription per relay, which its end closes.               *)
(*                                                                         *)
(* Generations are implicit: they are only compared with the current one,  *)
(* and what belongs to a lost socket is dropped with it.                   *)
(***************************************************************************)
EXTENDS Integers, Sequences, FiniteSets

CONSTANTS
  Url,
  Live,         \* subscriptions their owner closes
  Query,
  UrlsOf,       \* the relays of each subscription and of each query
  WithSigner,   \* those that can answer AUTH
  Limit,        \* maxConcurrentQueriesPerRelay
  Hint,         \* networks the platform tells apart
  MaxEvents     \* bound: what owners, relays and platform do on their own

ASSUME PoolConstants ==
  /\ IsFiniteSet(Url) /\ IsFiniteSet(Live) /\ IsFiniteSet(Query)
  /\ UrlsOf \in [Live \union Query -> (SUBSET Url) \ {{}}]
  /\ Limit \in Nat \ {0} /\ MaxEvents \in Nat
  /\ \A q \in Query, u \in Url : <<q, u>> \notin Live

VARIABLES
  conn,         \* relay -> ManagedConnection
  phase,        \* of each logical subscription
  link,         \* what a logical subscription has on each of its relays
  ends,         \* how often its owner was told that the initial read ended
  queue,        \* queries waiting for a slot of a relay
  active,       \* activeQueriesByRelay
  net,          \* the last hint: networkAvailable, networkSignature
  first,        \* is the snapshot of the network asked for still to come
  missed,       \* only that snapshot told of the network's return
  reach,        \* relays that would accept a connection
  events

subs == <<phase, link, ends>>
slots == <<queue, active>>
world == <<net, first, missed, reach>>
vars == <<conn, subs, slots, world, events>>

Entry == {<<q, u>> : q \in Query, u \in Url}
Asked == {e \in Entry : e[2] \in UrlsOf[e[1]]}
Logical == Live \union Asked
Urls(l) == IF l \in Live THEN UrlsOf[l] ELSE {l[2]}
Signs(l) == (IF l \in Live THEN l ELSE l[1]) \in WithSigner

NoConn ==
  [sock |-> "none",       \* or "connecting", "open"
   retry |-> FALSE,       \* retryTimer
   awaiting |-> {},       \* subscribers of connectPromise
   rejected |-> {},       \* told of its failure next
   authing |-> {},        \* waiting for AUTH on this socket
   dropping |-> FALSE]    \* which failed: the socket is closed next
NoLink ==
  [read |-> "none",       \* or "timed", "bare" (no timer), "eose", "failed"
   req |-> "none",        \* the physical subscription: or "sent", "ended"
   again |-> FALSE,       \* retryTimers
   tried |-> FALSE,       \* authAttempts, on this socket
   refused |-> FALSE]     \* closed by the relay for good
NoLinks(l) == [u \in Urls(l) |-> NoLink]

Demand(u) == {l \in Logical : phase[l] = "open" /\ u \in Urls(l)}
Over(k) == k.read \in {"eose", "failed"}
AllEnded(links, l) == \A u \in Urls(l) : Over(links[l][u])
-----------------------------------------------------------------------------
(***************************************************************************)
(* Connections and what subscriptions have on them.                        *)
(***************************************************************************)
(* closeConnection; a connect in progress is aborted. *)
Shut(c) == [NoConn EXCEPT !.rejected = c.rejected \union c.awaiting]

(* A new connection of ensureRelay. *)
Dialed(c) == [NoConn EXCEPT !.sock = "connecting", !.rejected = c.rejected]

(* ensureRelay by someone who does not wait for it. *)
Ensured(c) == IF c.sock = "none" /\ net.up THEN Dialed(c) ELSE c

Scheduled(c, u) == [c EXCEPT !.retry = @ \/ (net.up /\ Demand(u) # {})]

(* A physical subscription goes with its socket: closed by the pool, the   *)
(* read is left open; closed by the relay, it has ended.                   *)
Detached(k) == [k EXCEPT !.req = "none", !.tried = FALSE, !.refused = FALSE]
Ended(k, result) == [k EXCEPT !.read = IF Over(k) THEN @ ELSE result]
Cut(k) == IF k.req = "none" THEN Detached(k) ELSE Detached(Ended(k, "eose"))

(* attachLogicalSubscription: the connection timer stops, a deadline for   *)
(* the end of the stored events starts.                                    *)
Attached(k) ==
  IF k.req # "none" THEN k
  ELSE [k EXCEPT !.req = "sent", !.again = FALSE, !.refused = FALSE,
                 !.read = IF @ = "timed" THEN "bare" ELSE @]

(* Some subscriptions get a new link on u. *)
On(u, new) ==
  [l \in Logical |-> IF l \in DOMAIN new THEN [link[l] EXCEPT ![u] = new[l]] ELSE link[l]]

(* Subscriptions end: what they have on relays goes, and the timer of a    *)
(* relay nobody wants any more.                                            *)
Without(closed, c) ==
  [u \in Url |->
     [c[u] EXCEPT !.awaiting = @ \ closed, !.rejected = @ \ closed,
                  !.retry = @ /\ ~(Demand(u) # {} /\ Demand(u) \subseteq closed)]]

Closed(l) == IF l \in Asked /\ phase[l] = "open" THEN "ending" ELSE "closed"

Close(closed, told, c, links) ==
  /\ conn' = Without(closed, c)
  /\ phase' = [l \in Logical |-> IF l \in closed THEN Closed(l) ELSE phase[l]]
  /\ link' = [l \in Logical |-> IF l \in closed THEN NoLinks(l) ELSE links[l]]
  /\ ends' = [l \in Logical |-> IF l \in told THEN ends[l] + 1 ELSE ends[l]]

(* settleSubscriptionRead, for the reads that end in a step: the last one  *)
(* of a subscription tells its owner, and a query then closes it.          *)
Settle(c, links) ==
  LET done == {l \in Logical : /\ phase[l] = "open"
                               /\ AllEnded(links, l) /\ ~AllEnded(link, l)}
  IN  Close(done \ Live, done, c, links)

(* subscribe, for all of L: on an open socket at once, else the connection *)
(* is awaited for as long as its timer allows.                             *)
Joined(c, new) ==
  CASE new = {} \/ c.sock = "open" -> c
    [] new # {} /\ c.sock = "connecting" -> [c EXCEPT !.awaiting = @ \union new]
    [] new # {} /\ c.sock = "none" /\ net.up ->
         [Dialed(c) EXCEPT !.awaiting = new]
    [] OTHER -> [c EXCEPT !.rejected = @ \union new]

Start(L) ==
  /\ conn' = [u \in Url |-> Joined(conn[u], {l \in L : u \in Urls(l)})]
  /\ link' = [l \in Logical |->
       IF l \notin L THEN link[l]
       ELSE [u \in Urls(l) |->
               LET k == [NoLink EXCEPT !.read = "timed"]
               IN  IF conn[u].sock = "open" THEN Attached(k) ELSE k]]
-----------------------------------------------------------------------------
(***************************************************************************)
(* Queries: at most Limit of a relay at a time, the others wait in turn.   *)
(***************************************************************************)
(* The entries drainRelayQueryQueue takes from a queue with room for n:    *)
(* those aborted since they were queued are passed over.                   *)
Passed(waiting, n, before) ==
  {i \in 1..Len(waiting) :
     Cardinality({j \in 1..(i - 1) : before[waiting[j]] = "queued"}) < n}

(* drainRelayQueryQueue, with n slots of each relay taken. *)
Drain(waiting, n, before) ==
  LET passed == [u \in Url |-> Passed(waiting[u], Limit - n[u], before)]
      alive == [u \in Url |-> {i \in passed[u] : before[waiting[u][i]] = "queued"}]
      started == UNION {{waiting[u][i] : i \in alive[u]} : u \in Url}
  IN  /\ queue' = [u \in Url |->
           SubSeq(waiting[u], Cardinality(passed[u]) + 1, Len(waiting[u]))]
      /\ active' = [u \in Url |-> n[u] + Cardinality(alive[u])]
      /\ phase' = [l \in Logical |-> IF l \in started THEN "open" ELSE before[l]]
      /\ Start(started)

Event == events < MaxEvents /\ events' = events + 1
Quiet == UNCHANGED events

AskQuery(q) ==
  LET asked == {<<q, u>> : u \in UrlsOf[q]} IN
  /\ \A l \in asked : phase[l] = "idle"
  /\ Drain([u \in Url |-> IF u \in UrlsOf[q] THEN Append(queue[u], <<q, u>>)
                                             ELSE queue[u]],
           active, [l \in Logical |-> IF l \in asked THEN "queued" ELSE phase[l]])
  /\ UNCHANGED <<ends, world>> /\ Quiet

(* The slot of a query that has been answered is free. *)
Release(l) ==
  /\ l \in Asked /\ phase[l] = "ending"
  /\ Drain(queue, [active EXCEPT ![l[2]] = @ - 1], [phase EXCEPT ![l] = "closed"])
  /\ UNCHANGED <<ends, world>> /\ Quiet

(* Mutant: the end is told whenever a subscription is closed. *)
ToldAgain(L) == L

(* closeLogicalSubscription: tells the owner, if nothing has so far. *)
Told(L) == {l \in L : phase[l] = "open" => ~AllEnded(link, l)}

(* Owners give up: a query that waits is answered at once. *)
Cancel(L, c) ==
  LET closed == {l \in L : phase[l] \in {"queued", "open"}}
  IN  Close(closed, Told(closed), c, link)

AbortQuery(q) ==
  /\ Event
  /\ \E l \in Asked : l[1] = q /\ phase[l] \in {"queued", "open"}
  /\ Cancel({l \in Asked : l[1] = q}, conn)
  /\ UNCHANGED <<slots, world>>

(* Mutant: the counts go with the queues. *)
DestroyWithCounts ==
  /\ Event
  /\ Cancel(Logical, [u \in Url |-> Shut(conn[u])])
  /\ queue' = [u \in Url |-> <<>>] /\ active' = [u \in Url |-> 0]
  /\ UNCHANGED world

Destroy ==
  /\ Event
  /\ Cancel(Logical, [u \in Url |-> Shut(conn[u])])
  /\ queue' = [u \in Url |-> <<>>]
  /\ UNCHANGED <<active, world>>

Subscribe(l) ==
  /\ l \in Live /\ phase[l] = "idle"
  /\ phase' = [phase EXCEPT ![l] = "open"]
  /\ Start({l})
  /\ UNCHANGED <<ends, slots, world>> /\ Quiet

Unsubscribe(l) ==
  /\ Event /\ l \in Live /\ phase[l] = "open"
  /\ Cancel({l}, conn)
  /\ UNCHANGED <<slots, world>>
-----------------------------------------------------------------------------
(***************************************************************************)
(* Sockets.                                                                *)
(***************************************************************************)
(* The relay u becomes c, with new links. *)
Relink(u, c, new) == Settle([conn EXCEPT ![u] = c], On(u, new))

Attach(u, L) == [l \in L |-> Attached(link[l][u])]
Detach(u) == [l \in Demand(u) |-> Detached(link[l][u])]
Fail(l, u) == [x \in {l} |-> Ended(link[l][u], "failed")]

Connected(u) ==
  /\ conn[u].sock = "connecting" /\ reach[u]
  /\ Relink(u, [conn[u] EXCEPT !.sock = "open", !.awaiting = {}], Attach(u, Demand(u)))
  /\ UNCHANGED <<slots, world>> /\ Quiet

(* Mutant: only a socket that was open is dialed again. *)
ConnectFailsForGood(u) ==
  /\ conn[u].sock = "connecting" /\ (reach[u] => events < MaxEvents)
  /\ events' = IF reach[u] THEN events + 1 ELSE events
  /\ Relink(u, Shut(conn[u]), Detach(u))
  /\ UNCHANGED <<slots, world>>

ConnectFails(u) ==
  /\ conn[u].sock = "connecting" /\ (reach[u] => events < MaxEvents)
  /\ events' = IF reach[u] THEN events + 1 ELSE events
  /\ Relink(u, Scheduled(Shut(conn[u]), u), Detach(u))
  /\ UNCHANGED <<slots, world>>

(* A subscriber learns that the connection it awaited failed, or was given *)
(* up, or could not be tried without a network.                            *)
Rejected(l, u) ==
  /\ l \in conn[u].rejected
  /\ Relink(u, [conn[u] EXCEPT !.rejected = @ \ {l}], Fail(l, u))
  /\ UNCHANGED <<slots, world>> /\ Quiet

(* The timer of a read whose request has not been sent. *)
ConnectTimeout(l, u) ==
  /\ link[l][u].read = "timed"
  /\ Relink(u, conn[u], Fail(l, u))
  /\ UNCHANGED <<slots, world>> /\ Quiet

RetryRings(u) ==
  /\ conn[u].retry
  /\ conn' = [conn EXCEPT ![u] = IF Demand(u) = {} THEN [@ EXCEPT !.retry = FALSE]
                                 ELSE Ensured([@ EXCEPT !.retry = FALSE])]
  /\ UNCHANGED <<subs, slots, world>> /\ Quiet

(* The relay closes the socket, or the pool's own ping finds it dead. *)
SocketCloses(u) ==
  /\ Event /\ conn[u].sock = "open"
  /\ Relink(u, Scheduled([conn[u] EXCEPT !.sock = "none", !.dropping = FALSE], u),
            [l \in Demand(u) |-> Cut(link[l][u])])
  /\ UNCHANGED <<slots, world>>

(* A REQ or AUTH that cannot be written retires its socket (LifecycleRelay *)
(* .send): the pool is told, the reads stay open.                          *)
SendFails(u) ==
  /\ Event /\ conn[u].sock = "open"
  /\ Relink(u, Scheduled([conn[u] EXCEPT !.sock = "none", !.dropping = FALSE], u),
            Detach(u))
  /\ UNCHANGED <<slots, world>>

(* publishToRelay connects; its timeout replaces a socket that is silent.  *)
Publish(u) ==
  /\ Event /\ conn' = [conn EXCEPT ![u] = Ensured(@)]
  /\ UNCHANGED <<subs, slots, world>>

(* Mutant: an attempt that was under way is given up for good. *)
RedialedIfOpen(u) ==
  IF Demand(u) = {} \/ conn[u].sock # "open" THEN Shut(conn[u]) ELSE Dialed(Shut(conn[u]))

Redialed(u) == IF Demand(u) = {} THEN Shut(conn[u]) ELSE Dialed(Shut(conn[u]))

PublishTimesOut(u) ==
  /\ Event /\ conn[u].sock = "open"
  /\ Relink(u, Redialed(u), Detach(u))
  /\ UNCHANGED <<slots, world>>

(* forgetIdleRelays, by the budget of an application's destinations. *)
ForgetIdle(u) ==
  /\ Event
  /\ Demand(u) = {} /\ active[u] = 0 /\ queue[u] = <<>>
  /\ conn' = [conn EXCEPT ![u] = Shut(@)]
  /\ UNCHANGED <<subs, slots, world>>
-----------------------------------------------------------------------------
(***************************************************************************)
(* Requests on an open socket.                                             *)
(***************************************************************************)
(* The stored events end, or the deadline of the request passes. *)
Eose(l, u) ==
  /\ link[l][u].req = "sent"
  /\ Relink(u, conn[u],
            [x \in {l} |-> [Ended(link[l][u], "eose") EXCEPT !.req = "ended"]])
  /\ UNCHANGED <<slots, world>> /\ Quiet

(* handlePhysicalSubscriptionClose, by reason: AUTH is tried once on a     *)
(* socket; a rejection for good waits for the next socket.                 *)
CanAuth(l, u) == Signs(l) /\ ~link[l][u].tried

RelayClosesForAuth(l, u) ==
  /\ Event /\ link[l][u].req # "none" /\ CanAuth(l, u)
  /\ Relink(u, [conn[u] EXCEPT !.authing = @ \union {l}],
            [x \in {l} |-> [link[l][u] EXCEPT !.req = "none", !.tried = TRUE]])
  /\ UNCHANGED <<slots, world>>

RelayCloses(l, u) ==
  /\ Event /\ link[l][u].req # "none"
  /\ \E again \in BOOLEAN :
       Relink(u, conn[u],
              [x \in {l} |-> [Ended(link[l][u], "eose") EXCEPT
                              !.req = "none", !.again = again, !.refused = ~again]])
  /\ UNCHANGED <<slots, world>>

RetrySubscription(l, u) ==
  /\ link[l][u].again
  /\ Relink(u, Ensured(conn[u]),
            [x \in {l} |-> IF conn[u].sock = "open" THEN Attached(link[l][u])
                           ELSE [link[l][u] EXCEPT !.again = FALSE]])
  /\ UNCHANGED <<slots, world>> /\ Quiet

(* Mutant: the answer resumes whoever asked. *)
AuthSucceedsForAll(u) ==
  /\ conn[u].authing # {} /\ conn[u].sock = "open"
  /\ Relink(u, [conn[u] EXCEPT !.authing = {}], Attach(u, conn[u].authing))
  /\ UNCHANGED <<slots, world>> /\ Quiet

AuthSucceeds(u) ==
  /\ conn[u].authing # {} /\ conn[u].sock = "open"
  /\ Relink(u, [conn[u] EXCEPT !.authing = {}], Attach(u, conn[u].authing \intersect Demand(u)))
  /\ UNCHANGED <<slots, world>> /\ Quiet

(* The signer or the relay refuses, or neither answers in time.  Everyone  *)
(* who waited tries again, on another socket: this one keeps its failure.  *)
AuthFails(u) ==
  /\ conn[u].authing # {}
  /\ Relink(u, [conn[u] EXCEPT !.authing = {}, !.dropping = conn[u].sock = "open"],
            [l \in conn[u].authing \intersect Demand(u) |->
               [Ended(link[l][u], "eose") EXCEPT !.again = TRUE, !.tried = FALSE]])
  /\ UNCHANGED <<slots, world>> /\ Quiet

AuthDrops(u) ==
  /\ conn[u].dropping
  /\ Relink(u, Scheduled(Shut(conn[u]), u), Detach(u))
  /\ UNCHANGED <<slots, world>> /\ Quiet
-----------------------------------------------------------------------------
(***************************************************************************)
(* The platform.                                                           *)
(***************************************************************************)
(* recoverConnections: every relay in demand gets a new socket. *)
Recovered == [u \in Url |-> IF Demand(u) = {} THEN conn[u] ELSE Redialed(u)]
AllDetached(hit) ==
  [l \in Logical |-> [u \in Urls(l) |-> IF u \in hit THEN Detached(link[l][u]) ELSE link[l][u]]]
Wanted == {u \in Url : Demand(u) # {}}

Hinted(up) == \E hint \in Hint : net' = [up |-> up, hint |-> hint]

(* handleNetworkState.  A hint that differs only in name is a change too. *)
NetworkLost ==
  /\ Hinted(FALSE)
  /\ Settle([u \in Url |-> Shut(conn[u])], AllDetached(Url))

Recover == Settle(Recovered, AllDetached(Wanted)) /\ missed' = FALSE

NetworkChanges ==
  /\ Event
  /\ \/ NetworkLost /\ UNCHANGED missed
     \/ /\ Hinted(TRUE)
        /\ IF ~net.up \/ net'.hint # net.hint
           THEN Recover ELSE UNCHANGED <<conn, subs, missed>>
  /\ UNCHANGED <<slots, first, reach>>

(* What was asked for at the start is a loss, or no change. *)
FirstSnapshot ==
  /\ Event /\ first /\ first' = FALSE
  /\ \/ NetworkLost /\ UNCHANGED missed
     \/ /\ Hinted(TRUE)
        /\ missed' = (missed \/ ~net.up)
        /\ UNCHANGED <<conn, subs>>
  /\ UNCHANGED <<slots, reach>>

(* From the background, where only timers differ. *)
EnterForeground ==
  /\ Event
  /\ IF net.up THEN Recover ELSE UNCHANGED <<conn, subs, missed>>
  /\ UNCHANGED <<slots, net, first, reach>>

(* A relay goes down or comes back. *)
Outage(u) ==
  /\ Event /\ reach' = [reach EXCEPT ![u] = ~@]
  /\ UNCHANGED <<conn, subs, slots, net, first, missed>>
-----------------------------------------------------------------------------
Init ==
  /\ conn = [u \in Url |-> NoConn]
  /\ phase = [l \in Logical |-> "idle"] /\ link = [l \in Logical |-> NoLinks(l)]
  /\ ends = [l \in Logical |-> 0]
  /\ queue = [u \in Url |-> <<>>] /\ active = [u \in Url |-> 0]
  /\ net = [up |-> TRUE, hint |-> "unknown"] /\ first = TRUE /\ missed = FALSE
  /\ reach = [u \in Url |-> TRUE] /\ events = 0

(* What ends or rings by itself. *)
Runs(u) ==
  \/ Connected(u)
  \/ ConnectFails(u)
  \/ RetryRings(u)
  \/ AuthSucceeds(u)
  \/ AuthFails(u)
  \/ AuthDrops(u)

Reads(l, u) ==
  \/ Rejected(l, u)
  \/ ConnectTimeout(l, u)
  \/ Eose(l, u)
  \/ RetrySubscription(l, u)

Next ==
  \/ \E u \in Url :
       \/ Runs(u)
       \/ SocketCloses(u)
       \/ SendFails(u)
       \/ Publish(u)
       \/ PublishTimesOut(u)
       \/ ForgetIdle(u)
       \/ Outage(u)
  \/ \E l \in Logical :
       \/ Subscribe(l)
       \/ Unsubscribe(l)
       \/ Release(l)
       \/ \E u \in Urls(l) : Reads(l, u) \/ RelayClosesForAuth(l, u) \/ RelayCloses(l, u)
  \/ \E q \in Query : AskQuery(q) \/ AbortQuery(q)
  \/ Destroy
  \/ NetworkChanges
  \/ FirstSnapshot
  \/ EnterForeground

Spec == Init /\ [][Next]_vars

(* Something that can go on does: a timer rings, an attempt to connect or  *)
(* to authenticate ends, a deadline passes, an answer is taken in.         *)
Work(u) == Runs(u) \/ \E l \in Logical : u \in Urls(l) /\ (Reads(l, u) \/ Release(l))

FairSpec == Spec /\ WF_vars(\E u \in Url : Work(u))
-----------------------------------------------------------------------------
(* Whoever wants a relay has a request on it, or something is under way or *)
(* set to get one, unless the relay turned it down: no path that loses or  *)
(* replaces a socket forgets a subscription.                               *)
DemandHasPlan ==
  net.up /\ ~missed => \A u \in Url : \A l \in Demand(u) :
    \/ link[l][u].req # "none" \/ link[l][u].again
    \/ conn[u].sock = "connecting" \/ conn[u].retry
    \/ conn[u].sock = "open" /\ (l \in conn[u].authing \/ link[l][u].refused)

(* What a closed subscription had is gone, and stays so when an AUTH, a    *)
(* retry or a connection of its time completes; nothing reconnects for     *)
(* nobody.                                                                 *)
NothingOutlivesOwner ==
  \A u \in Url :
    /\ conn[u].retry => Demand(u) # {}
    /\ \A l \in Logical : u \in Urls(l) /\ (link[l][u].req # "none" \/ link[l][u].again)
                            => l \in Demand(u)

(* The slots taken are those of the queries that run, and no query waits   *)
(* beside a free one: through aborts, failures and the pool's destruction. *)
SlotsAreUsed ==
  \A u \in Url :
    /\ active[u] = Cardinality({l \in Asked : l[2] = u /\ phase[l] \in {"open", "ending"}})
    /\ active[u] <= Limit
    /\ queue[u] # <<>> => active[u] = Limit

(* An owner is told once that its initial read ended, by the last relay or *)
(* by its own closing, in whatever order they come.                        *)
EndsOnce ==
  \A l \in Logical : ends[l] <= 1 /\ (phase[l] \in {"ending", "closed"} => ends[l] = 1)

(* Every query ends, if the network and the relays are back for good: none *)
(* waits for a slot, a socket or an answer that no longer comes.           *)
QueriesEnd ==
  <>[](net.up /\ ~missed /\ \A u \in Url : reach[u])
    => []<>(\A l \in Asked : phase[l] \in {"idle", "closed"})
=============================================================================
