--------------------------- MODULE RelayPoolProofs ---------------------------
(***************************************************************************)
(* What holds of the relay pool for any relays, subscriptions, queries and *)
(* limits: no subscription is forgotten (DemandHasPlan), nothing outlives  *)
(* its owner (NothingOutlivesOwner), an owner is told once that its        *)
(* initial read ended (EndsOnce), and the slots of a relay are those of    *)
(* the queries that run there (SlotsAreUsed).                              *)
(*                                                                         *)
(* Every action but a start of subscriptions computes connections and      *)
(* links and then closes what has ended, in Close.  So the invariant of a  *)
(* state is also stated of such intermediate results (Good), and the proof *)
(* of an action is that its results are Good.                              *)
(***************************************************************************)
EXTENDS RelayPool, SequenceTheorems, FiniteSetTheorems, TLAPS

Phase == {"idle", "queued", "open", "ending", "closed"}
Connection == [sock : {"none", "connecting", "open"}, retry : BOOLEAN,
               awaiting : SUBSET Logical, rejected : SUBSET Logical,
               authing : SUBSET Logical, dropping : BOOLEAN]
Link == [read : {"none", "timed", "bare", "eose", "failed"},
         req : {"none", "sent", "ended"},
         again : BOOLEAN, tried : BOOLEAN, refused : BOOLEAN]

Linked(links) == DOMAIN links = Logical /\ \A l \in Logical : links[l] \in [Urls(l) -> Link]

TypeInv ==
  /\ conn \in [Url -> Connection] /\ Linked(link)
  /\ phase \in [Logical -> Phase] /\ ends \in [Logical -> Nat]
  /\ net.up \in BOOLEAN /\ missed \in BOOLEAN

(* What a relay's connection c and the link k of a subscription l of it    *)
(* have in common; up and m are the network and the ghost missed.          *)
Planned(c, k, l) ==
  \/ k.req # "none" \/ k.again
  \/ c.sock = "connecting" \/ c.retry
  \/ c.sock = "open" /\ (l \in c.authing \/ k.refused)

Sound(c, u, up) ==
  /\ c \in Connection
  /\ c.awaiting \subseteq Demand(u) /\ c.rejected \subseteq Demand(u)
  /\ c.retry => Demand(u) # {} /\ c.sock = "none"
  /\ c.sock # "none" => up

Wired(c, k, l, up, m) ==
  /\ k.req # "none" => c.sock = "open"
  /\ up /\ ~m => Planned(c, k, l)

Kept(c, links, up) ==
  /\ DOMAIN c = Url /\ \A u \in Url : Sound(c[u], u, up)
  /\ c = [u \in Url |-> c[u]]
  /\ Linked(links)
  /\ \A l \in Logical : phase[l] # "open" => links[l] = NoLinks(l)
  /\ \A l \in Logical : \A u \in Urls(l) : Over(link[l][u]) => Over(links[l][u])

Good(c, links, up, m) ==
  /\ Kept(c, links, up)
  /\ \A u \in Url : \A l \in Demand(u) : Wired(c[u], links[l][u], l, up, m)

(* How often an owner has been told by now. *)
Count(l) ==
  IF phase[l] \in {"ending", "closed"} \/ (phase[l] = "open" /\ AllEnded(link, l))
  THEN 1 ELSE 0

PoolInv ==
  /\ TypeInv
  /\ Good(conn, link, net.up, missed)
  /\ \A l \in Logical : ends[l] = Count(l)

(* What is taken from a queue is a query of that relay's list. *)
QueueInv == queue \in [Url -> Seq(Asked)]
-----------------------------------------------------------------------------
LEMMA LinkFacts ==
  /\ NoConn \in Connection /\ NoLink \in Link
  /\ \A l \in Logical : NoLinks(l) \in [Urls(l) -> Link]
  /\ \A l \in Logical : Urls(l) \subseteq Url /\ Urls(l) # {}
<1>1. NoConn \in Connection /\ NoLink \in Link
  BY DEF NoConn, NoLink, Connection, Link
<1>2. \A l \in Live : UrlsOf[l] \subseteq Url /\ UrlsOf[l] # {}
  BY PoolConstants
<1>3. \A l \in Asked : l[2] \in Url
  BY DEF Asked, Entry
<1>4. \A l \in Logical : Urls(l) \subseteq Url /\ Urls(l) # {}
  BY <1>2, <1>3 DEF Logical, Urls
<1> QED
  BY <1>1, <1>4 DEF NoLinks

LEMMA PoolInit == Init => PoolInv
<1> SUFFICES ASSUME Init PROVE PoolInv
  OBVIOUS
<1>1. TypeInv
  BY LinkFacts DEF Init, TypeInv, Linked, Phase
<1>2. Good(conn, link, net.up, missed)
  <2>1. \A u \in Url : Demand(u) = {}
    BY DEF Init, Demand
  <2>2. \A u \in Url : Sound(conn[u], u, net.up)
    BY LinkFacts DEF Init, Sound, NoConn
  <2> QED
    BY <1>1, <2>1, <2>2 DEF Kept, Good, Init, TypeInv
<1>3. \A l \in Logical : ends[l] = Count(l)
  BY DEF Init, Count
<1> QED
  BY <1>1, <1>2, <1>3 DEF PoolInv
-----------------------------------------------------------------------------
(* A step that closes nothing: connections alone change. *)
LEMMA ConnStep ==
  ASSUME PoolInv, UNCHANGED subs, Good(conn', link, net'.up, missed'),
         net'.up \in BOOLEAN, missed' \in BOOLEAN
  PROVE  PoolInv'
<1>1. UNCHANGED <<phase, link, ends>>
  BY DEF subs
<1>2. \A u \in Url : Demand(u)' = Demand(u)
  BY <1>1 DEF Demand
<1>3. Good(conn, link, net.up, missed)'
  <2>1. \A u \in Url : Sound(conn[u], u, net.up)'
    BY <1>2 DEF Kept, Good, Sound
  <2> QED
    BY <1>1, <1>2, <2>1 DEF Kept, Good, Linked, Wired, Planned
<1>4. TypeInv'
  BY <1>1 DEF PoolInv, TypeInv, Kept, Good, Sound
<1>5. \A l \in Logical : (ends[l] = Count(l))'
  BY <1>1 DEF PoolInv, Count, AllEnded, Over
<1> QED
  BY <1>3, <1>4, <1>5 DEF PoolInv

(* What Close needs to keep the invariant: of those it closes, the owners  *)
(* not told before are told, of the others those whose reads now ended.    *)
LEMMA CloseStep ==
  ASSUME PoolInv, NEW closed \in SUBSET Logical, NEW told \in SUBSET Logical, NEW c, NEW links,
         \A l \in closed : phase[l] \in {"queued", "open"},
         \A l \in closed : l \in told <=> ~ (phase[l] = "open" /\ AllEnded(link, l)),
         \A l \in Logical \ closed :
           l \in told <=> phase[l] = "open" /\ AllEnded(links, l) /\ ~ AllEnded(link, l),
         Kept(c, links, net'.up),
         \A u \in Url : \A l \in Demand(u) \ closed : Wired(c[u], links[l][u], l, net'.up, missed'),
         net'.up \in BOOLEAN, missed' \in BOOLEAN,
         Close(closed, told, c, links)
  PROVE  PoolInv'
<1>1. /\ phase' \in [Logical -> Phase]
      /\ \A l \in closed : phase'[l] \in {"ending", "closed"}
      /\ \A l \in Logical \ closed : phase'[l] = phase[l]
  BY DEF Close, Closed, PoolInv, TypeInv, Phase
<1>2. \A u \in Url : Demand(u)' = Demand(u) \ closed
  BY <1>1 DEF Demand
<1>3. /\ DOMAIN link' = Logical
      /\ \A l \in closed : link'[l] = NoLinks(l)
      /\ \A l \in Logical \ closed : link'[l] = links[l]
  BY DEF Close
<1>4. Linked(link)'
  BY <1>3, LinkFacts DEF Linked, Kept, Good
<1>5. /\ conn' = [u \in Url |-> conn'[u]] /\ DOMAIN conn' = Url
      /\ \A u \in Url : Sound(conn[u], u, net.up)'
      /\ \A u \in Url : /\ conn'[u].sock = c[u].sock /\ conn'[u].authing = c[u].authing
                        /\ (Demand(u) \ closed # {} => conn'[u].retry = c[u].retry)
  <2>1. conn' = Without(closed, c)
    BY DEF Close
  <2>2. ASSUME NEW u \in Url
        PROVE  /\ Sound(conn[u], u, net.up)'
               /\ conn'[u].sock = c[u].sock /\ conn'[u].authing = c[u].authing
               /\ (Demand(u) \ closed # {} => conn'[u].retry = c[u].retry)
    <3>1. Sound(c[u], u, net'.up)
      BY DEF Kept, Good
    <3>2. conn'[u] = [c[u] EXCEPT !.awaiting = @ \ closed, !.rejected = @ \ closed,
                        !.retry = @ /\ ~(Demand(u) # {} /\ Demand(u) \subseteq closed)]
      BY <2>1 DEF Without
    <3> DEFINE k == c[u]
               waits == k.awaiting \ closed
               fails == k.rejected \ closed
               keeps == k.retry /\ ~(Demand(u) # {} /\ Demand(u) \subseteq closed)
    <3>a. conn'[u] = [k EXCEPT !.awaiting = waits, !.rejected = fails, !.retry = keeps]
      BY <3>2
    <3>b. k \in Connection
      BY <3>1 DEF Sound
    <3>c. waits \in SUBSET Logical /\ fails \in SUBSET Logical /\ keeps \in BOOLEAN
      BY <3>b DEF Connection
    <3>d. /\ conn'[u] \in Connection
          /\ conn'[u].awaiting = waits /\ conn'[u].rejected = fails /\ conn'[u].retry = keeps
          /\ conn'[u].sock = k.sock /\ conn'[u].authing = k.authing
      <4> HIDE DEF k, waits, fails, keeps
      <4> QED
        BY <3>a, <3>b, <3>c DEF Connection
    <3>3. /\ conn'[u] \in Connection
          /\ conn'[u].awaiting = c[u].awaiting \ closed /\ conn'[u].rejected = c[u].rejected \ closed
          /\ conn'[u].retry <=> c[u].retry /\ ~(Demand(u) # {} /\ Demand(u) \subseteq closed)
          /\ conn'[u].sock = c[u].sock /\ conn'[u].authing = c[u].authing
      BY <3>d, Zenon
    <3>4. Sound(conn[u], u, net.up)'
      BY <3>1, <3>3, <1>2 DEF Sound
    <3> QED
      BY <3>1, <3>3, <3>4 DEF Sound, Connection
  <2>3. conn' = [u \in Url |-> conn'[u]] /\ DOMAIN conn' = Url
    BY <2>1 DEF Without
  <2> QED
    BY <2>2, <2>3
<1>6. \A u \in Url : \A l \in Demand(u)' : Wired(conn[u], link[l][u], l, net.up, missed)'
  <2> SUFFICES ASSUME NEW u \in Url, NEW l \in Demand(u) \ closed
               PROVE  Wired(conn[u], link[l][u], l, net.up, missed)'
    BY <1>2
  <2>1. l \in Logical \ closed
    BY DEF Demand
  <2>2. Wired(c[u], links[l][u], l, net'.up, missed')
    BY DEF Kept, Good
  <2> QED
    BY <1>3, <1>5, <2>1, <2>2 DEF Wired, Planned
<1>7. \A l \in Logical : phase'[l] # "open" => link'[l] = NoLinks(l)
  BY <1>1, <1>3 DEF Kept, Good
<1>8. Good(conn, link, net.up, missed)'
  BY <1>4, <1>5, <1>6, <1>7 DEF Kept, Good
<1>9. TypeInv'
  BY <1>1, <1>4, <1>5 DEF PoolInv, TypeInv, Sound, Close
<1>10. ASSUME NEW l \in Logical PROVE (ends[l] = Count(l))'
  <2>1. ends'[l] = (IF l \in told THEN ends[l] + 1 ELSE ends[l]) /\ ends[l] = Count(l)
    BY DEF Close, PoolInv
  <2>2. CASE l \in closed
    BY <1>1, <2>1, <2>2 DEF Count
  <2>3. CASE l \notin closed
    <3>1. AllEnded(link, l) => AllEnded(links, l)
      BY DEF Kept, Good, AllEnded
    <3>2. AllEnded(link, l)' <=> AllEnded(links, l)
      BY <1>3, <2>3 DEF AllEnded, Over
    <3>3. l \in told <=> phase[l] = "open" /\ AllEnded(links, l) /\ ~ AllEnded(link, l)
      BY <2>3
    <3> QED
      BY <1>1, <2>1, <2>3, <3>1, <3>2, <3>3 DEF Count
  <2> QED
    BY <2>2, <2>3
<1> QED
  BY <1>8, <1>9, <1>10 DEF PoolInv

LEMMA SettleStep ==
  ASSUME PoolInv, NEW c, NEW links, Good(c, links, net'.up, missed'),
         net'.up \in BOOLEAN, missed' \in BOOLEAN, Settle(c, links)
  PROVE  PoolInv'
<1> DEFINE done == {l \in Logical : /\ phase[l] = "open"
                                    /\ AllEnded(links, l) /\ ~AllEnded(link, l)}
<1>1. Close(done \ Live, done, c, links)
  BY DEF Settle
<1>2. \A l \in Logical : l \in done <=> phase[l] = "open" /\ AllEnded(links, l) /\ ~ AllEnded(link, l)
  OBVIOUS
<1>3. done \in SUBSET Logical /\ done \ Live \in SUBSET Logical
  OBVIOUS
<1>4. /\ Kept(c, links, net'.up)
      /\ \A u \in Url : \A l \in Demand(u) : Wired(c[u], links[l][u], l, net'.up, missed')
  BY DEF Good
<1> HIDE DEF done
<1> QED
  BY <1>1, <1>2, <1>3, <1>4, CloseStep

LEMMA CancelStep ==
  ASSUME PoolInv, NEW L \in SUBSET Logical, NEW c, Kept(c, link, net'.up),
         \A u \in Url : \A l \in Demand(u) \ L : Wired(c[u], link[l][u], l, net'.up, missed'),
         net'.up \in BOOLEAN, missed' \in BOOLEAN, Cancel(L, c)
  PROVE  PoolInv'
<1> DEFINE closed == {l \in L : phase[l] \in {"queued", "open"}}
<1>1. Close(closed, Told(closed), c, link)
  BY DEF Cancel
<1>2. /\ closed \in SUBSET Logical /\ Told(closed) \in SUBSET Logical
      /\ \A l \in closed : phase[l] \in {"queued", "open"}
      /\ \A l \in closed : l \in Told(closed) <=> ~ (phase[l] = "open" /\ AllEnded(link, l))
      /\ \A l \in Logical \ closed : l \notin Told(closed)
  BY DEF Told
<1>3. \A u \in Url : Demand(u) \ closed = Demand(u) \ L
  BY DEF Demand
<1> HIDE DEF closed
<1> QED
  BY <1>1, <1>2, <1>3, CloseStep

-----------------------------------------------------------------------------
(* What the operators on one link do. *)
LEMMA LinkOps ==
  ASSUME NEW k \in Link
  PROVE  /\ Detached(k) \in Link /\ Detached(k).read = k.read /\ Detached(k).req = "none"
         /\ Detached(k).again = k.again
         /\ Attached(k) \in Link /\ Attached(k).req # "none"
         /\ Over(k) => Over(Attached(k))
         /\ Cut(k) \in Link /\ Cut(k).req = "none" /\ (Over(k) => Over(Cut(k)))
<1>1. /\ Detached(k) \in Link /\ Detached(k).read = k.read /\ Detached(k).req = "none"
      /\ Detached(k).again = k.again
  BY DEF Detached, Link
<1>2. Attached(k) \in Link /\ Attached(k).req # "none" /\ (Over(k) => Over(Attached(k)))
  <2>1. CASE k.req # "none"
    BY <2>1 DEF Attached, Link
  <2>2. CASE k.req = "none"
    BY <2>2 DEF Attached, Link, Over
  <2> QED
    BY <2>1, <2>2
<1>3. Ended(k, "eose") \in Link /\ Over(Ended(k, "eose"))
  BY DEF Ended, Over, Link
<1>4. Cut(k) \in Link /\ Cut(k).req = "none" /\ (Over(k) => Over(Cut(k)))
  <2>1. CASE k.req = "none"
    BY <2>1, <1>1 DEF Cut, Over
  <2>2. CASE k.req # "none"
    <3>1. Cut(k) = Detached(Ended(k, "eose"))
      BY <2>2 DEF Cut
    <3> DEFINE e == Ended(k, "eose")
    <3>2. e \in Link /\ Over(e)
      BY <1>3
    <3> HIDE DEF e
    <3>3. Detached(e) \in Link /\ Detached(e).req = "none" /\ Detached(e).read = e.read
      BY <3>2 DEF Detached, Link
    <3> QED
      BY <3>1, <3>2, <3>3 DEF Over, e
  <2> QED
    BY <2>1, <2>2
<1> QED
  BY <1>1, <1>2, <1>4

LEMMA EndedOps ==
  ASSUME NEW k \in Link, NEW r \in {"eose", "failed"}
  PROVE  /\ Ended(k, r) \in Link /\ Over(Ended(k, r))
         /\ Ended(k, r).req = k.req /\ Ended(k, r).again = k.again
         /\ Ended(k, r).refused = k.refused
  BY DEF Ended, Over, Link

(* A step at one relay u: the connection becomes cu, the link of each l in *)
(* L becomes new[l].                                                       *)
LEMMA RelinkStep ==
  ASSUME PoolInv, UNCHANGED world, NEW u \in Url, NEW L \in SUBSET Demand(u), NEW cu,
         NEW new \in [L -> Link], Relink(u, cu, new),
         Sound(cu, u, net.up),
         \A l \in L : Over(link[l][u]) => Over(new[l]),
         \A l \in L : Wired(cu, new[l], l, net.up, missed),
         \A l \in Demand(u) \ L : Wired(cu, link[l][u], l, net.up, missed)
  PROVE  PoolInv'
<1> DEFINE c == [conn EXCEPT ![u] = cu]
           links == On(u, new)
<1>1. conn \in [Url -> Connection] /\ Linked(link) /\ Good(conn, link, net.up, missed)
  BY DEF PoolInv, TypeInv
<1>2. c \in [Url -> Connection] /\ c[u] = cu /\ \A v \in Url \ {u} : c[v] = conn[v]
  BY <1>1 DEF Sound
<1>3. \A l \in L : /\ l \in Logical /\ phase[l] = "open" /\ u \in Urls(l)
                   /\ links[l] \in [Urls(l) -> Link] /\ links[l][u] = new[l]
                   /\ \A v \in Urls(l) \ {u} : links[l][v] = link[l][v]
  BY <1>1 DEF Demand, Linked, On
<1>4. DOMAIN links = Logical /\ \A l \in Logical \ L : links[l] = link[l]
  BY DEF On
<1>5. Linked(links)
  BY <1>1, <1>3, <1>4 DEF Linked
<1>6. \A v \in Url : Sound(c[v], v, net.up)
  BY <1>1, <1>2 DEF Kept, Good
<1>7. \A l \in Logical : phase[l] # "open" => links[l] = NoLinks(l)
  BY <1>1, <1>3, <1>4 DEF Kept, Good
<1>8. \A l \in Logical : \A v \in Urls(l) : Over(link[l][v]) => Over(links[l][v])
  BY <1>3, <1>4
<1>9. ASSUME NEW v \in Url, NEW l \in Demand(v) PROVE Wired(c[v], links[l][v], l, net.up, missed)
  <2>1. l \in Logical /\ v \in Urls(l)
    BY DEF Demand
  <2>2. CASE v = u
    <3>1. CASE l \in L
      BY <2>2, <3>1, <1>2, <1>3
    <3>2. CASE l \notin L
      BY <2>1, <2>2, <3>2, <1>2, <1>4
    <3> QED
      BY <3>1, <3>2
  <2>3. CASE v # u
    <3>1. c[v] = conn[v] /\ links[l][v] = link[l][v]
      BY <2>1, <2>3, <1>2, <1>3, <1>4
    <3> QED
      BY <3>1, <1>1 DEF Kept, Good
  <2> QED
    BY <2>2, <2>3
<1>10. c = [v \in Url |-> c[v]] /\ DOMAIN c = Url
  BY <1>2
<1>11. net' = net /\ missed' = missed /\ Settle(c, links)
  BY DEF world, Relink
<1> HIDE DEF c, links
<1>12. Good(c, links, net'.up, missed')
  BY <1>5, <1>6, <1>7, <1>8, <1>9, <1>10, <1>11 DEF Kept, Good
<1> QED
  BY <1>11, <1>12, SettleStep DEF PoolInv, TypeInv
-----------------------------------------------------------------------------
(* The invariant at one relay, and what the operators on one connection do. *)
LEMMA AtRelay ==
  ASSUME PoolInv, NEW u \in Url
  PROVE  /\ conn[u] \in Connection /\ Sound(conn[u], u, net.up)
         /\ Demand(u) \subseteq Logical
         /\ \A l \in Demand(u) : /\ link[l][u] \in Link
                                 /\ Wired(conn[u], link[l][u], l, net.up, missed)
<1>1. Good(conn, link, net.up, missed)
  BY DEF PoolInv
<1> QED
  BY <1>1 DEF Kept, Good, Linked, Sound, Demand

LEMMA Owned ==
  ASSUME PoolInv, NEW l \in Logical, NEW u \in Urls(l), link[l][u] # NoLink
  PROVE  u \in Url /\ l \in Demand(u) /\ link[l][u] \in Link
<1>1. Good(conn, link, net.up, missed)
  BY DEF PoolInv
<1>2. u \in Url /\ link[l][u] \in Link
  BY <1>1, LinkFacts DEF Kept, Good, Linked
<1>3. phase[l] = "open"
  BY <1>1 DEF Kept, Good, NoLinks
<1> QED
  BY <1>2, <1>3 DEF Demand

LEMMA ShutOps ==
  ASSUME NEW c \in Connection
  PROVE  /\ Shut(c) \in Connection /\ Shut(c).sock = "none" /\ Shut(c).retry = FALSE
         /\ Shut(c).awaiting = {} /\ Shut(c).rejected = c.rejected \union c.awaiting
         /\ Dialed(c) \in Connection /\ Dialed(c).sock = "connecting" /\ Dialed(c).retry = FALSE
         /\ Dialed(c).awaiting = {} /\ Dialed(c).rejected = c.rejected
  BY DEF Shut, Dialed, NoConn, Connection

LEMMA Recovers ==
  ASSUME NEW c, NEW u, NEW up, NEW b, Sound(c, u, up)
  PROVE  /\ Sound(Shut(c), u, b)
         /\ b => Sound(Dialed(c), u, b) /\ Sound(Dialed(Shut(c)), u, b)
         /\ Dialed(Shut(c)).sock = "connecting" /\ Shut(c) \in Connection
<1>1. c \in Connection /\ c.awaiting \subseteq Demand(u) /\ c.rejected \subseteq Demand(u)
  BY DEF Sound
<1> DEFINE d == Shut(c)
<1>2. /\ d \in Connection /\ d.sock = "none" /\ d.retry = FALSE /\ d.awaiting = {}
      /\ d.rejected = c.rejected \union c.awaiting
  BY <1>1, ShutOps
<1>3. /\ Dialed(c) \in Connection /\ Dialed(c).sock = "connecting" /\ Dialed(c).retry = FALSE
      /\ Dialed(c).awaiting = {} /\ Dialed(c).rejected = c.rejected
  BY <1>1, ShutOps
<1>4. b => Sound(Dialed(c), u, b)
  BY <1>1, <1>3 DEF Sound
<1> HIDE DEF d
<1>5. d.rejected \subseteq Demand(u)
  BY <1>1, <1>2
<1>6. Sound(d, u, b)
  BY <1>2, <1>5 DEF Sound
<1>7. /\ Dialed(d) \in Connection /\ Dialed(d).sock = "connecting" /\ Dialed(d).retry = FALSE
      /\ Dialed(d).awaiting = {} /\ Dialed(d).rejected = d.rejected
  BY <1>2, ShutOps
<1>8. b => Sound(Dialed(d), u, b)
  BY <1>5, <1>7 DEF Sound
<1> QED
  BY <1>2, <1>4, <1>6, <1>7, <1>8 DEF d

LEMMA Schedules ==
  ASSUME NEW c \in Connection, NEW u \in Url, Sound(c, u, net.up), c.sock = "none",
         net.up \in BOOLEAN
  PROVE  /\ Sound(Scheduled(c, u), u, net.up) /\ Scheduled(c, u).sock = "none"
         /\ net.up /\ Demand(u) # {} => Scheduled(c, u).retry
<1> DEFINE t == c.retry \/ (net.up /\ Demand(u) # {})
<1>1. Scheduled(c, u) = [c EXCEPT !.retry = t]
  BY DEF Scheduled
<1>2. t \in BOOLEAN
  BY DEF Connection
<1>3. t => Demand(u) # {}
  BY DEF Sound
<1>4. net.up /\ Demand(u) # {} => t
  OBVIOUS
<1> HIDE DEF t
<1>5. /\ Scheduled(c, u) \in Connection /\ Scheduled(c, u).sock = "none"
      /\ Scheduled(c, u).retry = t /\ Scheduled(c, u).awaiting = c.awaiting
      /\ Scheduled(c, u).rejected = c.rejected
  BY <1>1, <1>2 DEF Connection
<1> QED
  BY <1>3, <1>4, <1>5 DEF Sound

LEMMA Ensures ==
  ASSUME NEW c, NEW u, Sound(c, u, net.up)
  PROVE  /\ Sound(Ensured(c), u, net.up)
         /\ c.sock # "none" => Ensured(c) = c
         /\ c.sock = "none" /\ net.up => Ensured(c).sock = "connecting"
         /\ c.sock = "none" /\ ~ net.up => Ensured(c) = c
<1>1. Ensured(c) = IF c.sock = "none" /\ net.up THEN Dialed(c) ELSE c
  BY DEF Ensured
<1>2. c \in Connection
  BY DEF Sound
<1>3. net.up => Sound(Dialed(c), u, net.up)
  BY Recovers
<1>4. Dialed(c).sock = "connecting"
  BY <1>2, ShutOps
<1> QED
  BY <1>1, <1>3, <1>4
-----------------------------------------------------------------------------
(* Sockets. *)
LEMMA ConnectedStep == ASSUME PoolInv, NEW u \in Url, Connected(u) PROVE PoolInv'
<1> DEFINE L == Demand(u)
           new == [l \in L |-> Attached(link[l][u])]
           cu == [conn[u] EXCEPT !.sock = "open", !.awaiting = {}]
<1>1. Relink(u, cu, new)
  BY DEF Connected, Attach
<1>2. new \in [L -> Link] /\ \A l \in L : new[l].req # "none"
                                          /\ (Over(link[l][u]) => Over(new[l]))
  BY AtRelay, LinkOps
<1>3. Sound(cu, u, net.up) /\ cu.sock = "open"
  <2>1. conn[u] \in Connection /\ Sound(conn[u], u, net.up) /\ conn[u].sock = "connecting"
    BY AtRelay DEF Connected
  <2> QED
    BY <2>1 DEF Sound, Connection
<1>4. UNCHANGED world
  BY DEF Connected
<1> HIDE DEF new, cu
<1>5. \A l \in L : Wired(cu, new[l], l, net.up, missed)
  BY <1>2, <1>3 DEF Wired, Planned
<1> QED
  BY <1>1, <1>2, <1>3, <1>4, <1>5, RelinkStep

(* A socket is lost or given up: every link on it is detached. *)
LEMMA DetachStep ==
  ASSUME PoolInv, NEW u \in Url, NEW cu, UNCHANGED world,
         Relink(u, cu, Detach(u)), Sound(cu, u, net.up),
         net.up /\ Demand(u) # {} => cu.sock = "connecting" \/ cu.retry
  PROVE  PoolInv'
<1> DEFINE L == Demand(u)
           new == [l \in L |-> Detached(link[l][u])]
<1>1. Relink(u, cu, new)
  BY DEF Detach
<1>2. new \in [L -> Link] /\ \A l \in L : new[l].req = "none"
                                          /\ (Over(link[l][u]) => Over(new[l]))
  BY AtRelay, LinkOps DEF Over
<1> HIDE DEF new
<1>3. \A l \in L : Wired(cu, new[l], l, net.up, missed)
  BY <1>2 DEF Wired, Planned
<1> QED
  BY <1>1, <1>2, <1>3, RelinkStep

LEMMA Drops ==
  ASSUME NEW c \in Connection, NEW u \in Url, Sound(c, u, net.up), net.up \in BOOLEAN
  PROVE  LET lost == [c EXCEPT !.sock = "none", !.dropping = FALSE]
         IN  /\ Sound(Scheduled(lost, u), u, net.up)
             /\ net.up /\ Demand(u) # {} => Scheduled(lost, u).retry
<1> DEFINE lost == [c EXCEPT !.sock = "none", !.dropping = FALSE]
<1>1. lost \in Connection /\ Sound(lost, u, net.up) /\ lost.sock = "none"
  BY DEF Connection, Sound
<1> QED
  BY <1>1, Schedules

LEMMA DropSteps ==
  ASSUME PoolInv, NEW u \in Url,
         ConnectFails(u) \/ SendFails(u) \/ PublishTimesOut(u) \/ AuthDrops(u)
  PROVE  PoolInv'
<1>1. /\ conn[u] \in Connection /\ Sound(conn[u], u, net.up) /\ net.up \in BOOLEAN
      /\ UNCHANGED world
  BY AtRelay DEF PoolInv, TypeInv, ConnectFails, SendFails, PublishTimesOut, AuthDrops
<1>2. /\ Shut(conn[u]) \in Connection /\ Sound(Shut(conn[u]), u, net.up)
      /\ Shut(conn[u]).sock = "none"
  BY <1>1, Recovers, ShutOps
<1>3. CASE ConnectFails(u) \/ AuthDrops(u)
  <2>1. Relink(u, Scheduled(Shut(conn[u]), u), Detach(u))
    BY <1>3 DEF ConnectFails, AuthDrops
  <2>2. /\ Sound(Scheduled(Shut(conn[u]), u), u, net.up)
        /\ net.up /\ Demand(u) # {} => Scheduled(Shut(conn[u]), u).retry
    BY <1>1, <1>2, Schedules
  <2> QED
    BY <1>1, <2>1, <2>2, DetachStep
<1>4. CASE SendFails(u)
  <2> DEFINE cu == Scheduled([conn[u] EXCEPT !.sock = "none", !.dropping = FALSE], u)
  <2>1. Relink(u, cu, Detach(u))
    BY <1>4 DEF SendFails
  <2>2. Sound(cu, u, net.up) /\ (net.up /\ Demand(u) # {} => cu.retry)
    BY <1>1, Drops
  <2> HIDE DEF cu
  <2> QED
    BY <1>1, <2>1, <2>2, DetachStep
<1>5. CASE PublishTimesOut(u)
  <2>1. net.up
    BY <1>1, <1>5 DEF PublishTimesOut, Sound
  <2>2. Sound(Redialed(u), u, net.up) /\ (Demand(u) # {} => Redialed(u).sock = "connecting")
    BY <1>1, <2>1, Recovers DEF Redialed
  <2> QED
    BY <1>1, <1>5, <2>2, DetachStep DEF PublishTimesOut
<1> QED
  BY <1>3, <1>4, <1>5

LEMMA SocketClosesStep == ASSUME PoolInv, NEW u \in Url, SocketCloses(u) PROVE PoolInv'
<1> DEFINE L == Demand(u)
           new == [l \in L |-> Cut(link[l][u])]
           cu == Scheduled([conn[u] EXCEPT !.sock = "none", !.dropping = FALSE], u)
<1>1. Relink(u, cu, new)
  BY DEF SocketCloses
<1>2. new \in [L -> Link] /\ \A l \in L : new[l].req = "none"
                                          /\ (Over(link[l][u]) => Over(new[l]))
  BY AtRelay, LinkOps
<1>3. Sound(cu, u, net.up) /\ (net.up /\ Demand(u) # {} => cu.retry)
  BY AtRelay, Drops DEF PoolInv, TypeInv
<1>4. UNCHANGED world
  BY DEF SocketCloses
<1> HIDE DEF new, cu
<1>5. \A l \in L : Wired(cu, new[l], l, net.up, missed)
  BY <1>2, <1>3 DEF Wired, Planned
<1> QED
  BY <1>1, <1>2, <1>3, <1>4, <1>5, RelinkStep
-----------------------------------------------------------------------------
(* Requests.  A step of one link, that leaves the others their plans. *)
LEMMA OneStep ==
  ASSUME PoolInv, UNCHANGED world, NEW u \in Url, NEW l \in Demand(u), NEW cu, NEW k \in Link,
         Relink(u, cu, [x \in {l} |-> k]), Sound(cu, u, net.up), Over(link[l][u]) => Over(k),
         Wired(cu, k, l, net.up, missed),
         \/ conn[u].sock = "none" /\ cu.sock = "connecting"
         \/ /\ cu.sock = conn[u].sock /\ cu.retry = conn[u].retry
            /\ conn[u].authing \subseteq cu.authing
  PROVE  PoolInv'
<1> DEFINE new == [x \in {l} |-> k]
<1>1. /\ new \in [{l} -> Link] /\ {l} \subseteq Demand(u)
      /\ \A m \in {l} : new[m] = k
  OBVIOUS
<1>2. Relink(u, cu, new)
  OBVIOUS
<1> HIDE DEF new
<1>3. ASSUME NEW m \in Demand(u) PROVE Wired(cu, link[m][u], m, net.up, missed)
  <2>1. Wired(conn[u], link[m][u], m, net.up, missed)
    BY AtRelay
  <2> QED
    BY <2>1 DEF Wired, Planned
<1>4. /\ \A m \in {l} : Over(link[m][u]) => Over(new[m])
      /\ \A m \in {l} : Wired(cu, new[m], m, net.up, missed)
      /\ \A m \in Demand(u) \ {l} : Wired(cu, link[m][u], m, net.up, missed)
  BY <1>1, <1>3
<1> QED
  BY <1>1, <1>2, <1>4, RelinkStep

LEMMA RejectedStep == ASSUME PoolInv, NEW l, NEW u \in Url, Rejected(l, u) PROVE PoolInv'
<1> DEFINE cu == [conn[u] EXCEPT !.rejected = @ \ {l}]
           k == Ended(link[l][u], "failed")
<1>1. /\ conn[u] \in Connection /\ Sound(conn[u], u, net.up)
      /\ l \in conn[u].rejected /\ UNCHANGED world
  BY AtRelay DEF Rejected
<1>2. l \in Demand(u) /\ link[l][u] \in Link
      /\ Wired(conn[u], link[l][u], l, net.up, missed)
  BY <1>1, AtRelay DEF Sound
<1>3. Relink(u, cu, [x \in {l} |-> k])
  BY DEF Rejected, Fail
<1>4. /\ Sound(cu, u, net.up) /\ cu.sock = conn[u].sock /\ cu.retry = conn[u].retry
      /\ cu.authing = conn[u].authing
  BY <1>1 DEF Sound, Connection
<1>5. /\ k \in Link /\ Over(k) /\ k.req = link[l][u].req /\ k.again = link[l][u].again
      /\ k.refused = link[l][u].refused
  BY <1>2, EndedOps
<1> HIDE DEF cu, k
<1>6. Wired(cu, k, l, net.up, missed)
  BY <1>2, <1>4, <1>5 DEF Wired, Planned
<1> QED
  BY <1>1, <1>2, <1>3, <1>4, <1>5, <1>6, OneStep

LEMMA ConnectTimeoutStep ==
  ASSUME PoolInv, NEW l \in Logical, NEW u \in Urls(l), ConnectTimeout(l, u) PROVE PoolInv'
<1> DEFINE k == Ended(link[l][u], "failed")
<1>1. /\ u \in Url /\ l \in Demand(u) /\ link[l][u] \in Link /\ UNCHANGED world
  BY Owned DEF ConnectTimeout, NoLink
<1>2. /\ Sound(conn[u], u, net.up) /\ Wired(conn[u], link[l][u], l, net.up, missed)
  BY <1>1, AtRelay
<1>3. Relink(u, conn[u], [x \in {l} |-> k])
  BY DEF ConnectTimeout, Fail
<1>4. /\ k \in Link /\ Over(k) /\ k.req = link[l][u].req /\ k.again = link[l][u].again
      /\ k.refused = link[l][u].refused
  BY <1>1, EndedOps
<1> HIDE DEF k
<1>5. Wired(conn[u], k, l, net.up, missed)
  BY <1>2, <1>4 DEF Wired, Planned
<1> QED
  BY <1>1, <1>2, <1>3, <1>4, <1>5, OneStep

LEMMA EoseStep ==
  ASSUME PoolInv, NEW l \in Logical, NEW u \in Urls(l), Eose(l, u) PROVE PoolInv'
<1> DEFINE e == Ended(link[l][u], "eose")
           k == [e EXCEPT !.req = "ended"]
<1>1. /\ u \in Url /\ l \in Demand(u) /\ link[l][u] \in Link /\ UNCHANGED world
      /\ link[l][u].req = "sent"
  BY Owned DEF Eose, NoLink
<1>2. /\ Sound(conn[u], u, net.up) /\ Wired(conn[u], link[l][u], l, net.up, missed)
  BY <1>1, AtRelay
<1>3. Relink(u, conn[u], [x \in {l} |-> k])
  BY DEF Eose
<1>4. e \in Link /\ Over(e)
  BY <1>1, EndedOps
<1> HIDE DEF e
<1>5. k \in Link /\ Over(k) /\ k.req = "ended"
  BY <1>4 DEF Link, Over
<1> HIDE DEF k
<1>6. Wired(conn[u], k, l, net.up, missed)
  BY <1>1, <1>2, <1>5 DEF Wired, Planned
<1> QED
  BY <1>1, <1>2, <1>3, <1>5, <1>6, OneStep

LEMMA ClosesForAuthStep ==
  ASSUME PoolInv, NEW l \in Logical, NEW u \in Urls(l), RelayClosesForAuth(l, u) PROVE PoolInv'
<1> DEFINE j == link[l][u]
           k == [j EXCEPT !.req = "none", !.tried = TRUE]
           waits == conn[u].authing \union {l}
           cu == [conn[u] EXCEPT !.authing = waits]
<1>1. /\ u \in Url /\ l \in Demand(u) /\ j \in Link /\ UNCHANGED world
      /\ j.req # "none" /\ l \in Logical
  BY Owned DEF RelayClosesForAuth, NoLink
<1>2. /\ conn[u] \in Connection /\ Sound(conn[u], u, net.up)
      /\ Wired(conn[u], j, l, net.up, missed)
  BY <1>1, AtRelay
<1>3. Relink(u, cu, [x \in {l} |-> k])
  BY DEF RelayClosesForAuth
<1>4. waits \in SUBSET Logical /\ l \in waits /\ conn[u].authing \subseteq waits
  BY <1>1, <1>2 DEF Connection
<1> HIDE DEF waits
<1>5. /\ Sound(cu, u, net.up) /\ cu.sock = conn[u].sock /\ cu.retry = conn[u].retry
      /\ cu.authing = waits
  BY <1>2, <1>4 DEF Sound, Connection
<1> HIDE DEF j
<1>6. k \in Link /\ (Over(j) => Over(k)) /\ k.req = "none"
  BY <1>1 DEF Link, Over
<1> HIDE DEF k, cu
<1>7. Wired(cu, k, l, net.up, missed)
  BY <1>1, <1>2, <1>4, <1>5, <1>6 DEF Wired, Planned
<1> QED
  BY <1>1, <1>2, <1>3, <1>4, <1>5, <1>6, <1>7, OneStep DEF j

LEMMA RelayClosesStep ==
  ASSUME PoolInv, NEW l \in Logical, NEW u \in Urls(l), RelayCloses(l, u) PROVE PoolInv'
<1>1. PICK again \in BOOLEAN :
        Relink(u, conn[u],
               [x \in {l} |-> [Ended(link[l][u], "eose") EXCEPT
                               !.req = "none", !.again = again, !.refused = ~again]])
  BY DEF RelayCloses
<1> DEFINE e == Ended(link[l][u], "eose")
           k == [e EXCEPT !.req = "none", !.again = again, !.refused = ~again]
<1>2. /\ u \in Url /\ l \in Demand(u) /\ link[l][u] \in Link /\ UNCHANGED world
      /\ link[l][u].req # "none"
  BY Owned DEF RelayCloses, NoLink
<1>3. /\ Sound(conn[u], u, net.up) /\ Wired(conn[u], link[l][u], l, net.up, missed)
  BY <1>2, AtRelay
<1>4. Relink(u, conn[u], [x \in {l} |-> k])
  BY <1>1
<1>5. e \in Link /\ Over(e)
  BY <1>2, EndedOps
<1> HIDE DEF e
<1>6. k \in Link /\ Over(k) /\ k.req = "none" /\ k.again = again /\ k.refused = (~again)
  BY <1>5 DEF Link, Over
<1> HIDE DEF k
<1>7. Wired(conn[u], k, l, net.up, missed)
  BY <1>2, <1>3, <1>6 DEF Wired, Planned
<1> QED
  BY <1>2, <1>3, <1>4, <1>6, <1>7, OneStep

LEMMA RetryStep ==
  ASSUME PoolInv, NEW l \in Logical, NEW u \in Urls(l), RetrySubscription(l, u) PROVE PoolInv'
<1> DEFINE j == link[l][u]
           k == IF conn[u].sock = "open" THEN Attached(j) ELSE [j EXCEPT !.again = FALSE]
<1>1. /\ u \in Url /\ l \in Demand(u) /\ j \in Link /\ UNCHANGED world
  BY Owned DEF RetrySubscription, NoLink
<1>2. /\ conn[u] \in Connection /\ Sound(conn[u], u, net.up)
      /\ Wired(conn[u], j, l, net.up, missed)
  BY <1>1, AtRelay
<1>3. Relink(u, Ensured(conn[u]), [x \in {l} |-> k])
  BY DEF RetrySubscription
<1>4. k \in Link /\ (Over(j) => Over(k)) /\ (conn[u].sock = "open" => k.req # "none")
      /\ (conn[u].sock # "open" => k.req = j.req)
  <2>1. CASE conn[u].sock = "open"
    BY <1>1, <2>1, LinkOps
  <2>2. CASE conn[u].sock # "open"
    <3> HIDE DEF j
    <3>1. k = [j EXCEPT !.again = FALSE]
      BY <2>2
    <3> QED
      BY <1>1, <2>2, <3>1 DEF Link, Over
  <2> QED
    BY <2>1, <2>2
<1>5. /\ Sound(Ensured(conn[u]), u, net.up)
      /\ conn[u].sock # "none" => Ensured(conn[u]) = conn[u]
      /\ conn[u].sock = "none" /\ net.up => Ensured(conn[u]).sock = "connecting"
      /\ conn[u].sock = "none" /\ ~ net.up => Ensured(conn[u]) = conn[u]
      /\ conn[u].sock \in {"none", "connecting", "open"}
  BY <1>2, Ensures DEF Connection
<1> HIDE DEF j, k
<1>6. Wired(Ensured(conn[u]), k, l, net.up, missed)
  BY <1>2, <1>4, <1>5 DEF Wired, Planned
<1>7. \/ conn[u].sock = "none" /\ Ensured(conn[u]).sock = "connecting"
      \/ Ensured(conn[u]) = conn[u]
  BY <1>5 DEF Ensured
<1> QED
  BY <1>1, <1>2, <1>3, <1>4, <1>5, <1>6, <1>7, OneStep DEF j

(* Whoever does not wait for an AUTH does not plan on it. *)
LEMMA AuthStep ==
  ASSUME PoolInv, NEW u \in Url, AuthSucceeds(u) \/ AuthFails(u) PROVE PoolInv'
<1> DEFINE L == conn[u].authing \intersect Demand(u)
<1>1. /\ conn[u] \in Connection /\ Sound(conn[u], u, net.up) /\ UNCHANGED world
      /\ \A l \in Demand(u) : /\ link[l][u] \in Link
                              /\ Wired(conn[u], link[l][u], l, net.up, missed)
  BY AtRelay DEF AuthSucceeds, AuthFails
<1>2. CASE AuthSucceeds(u)
  <2> DEFINE cu == [conn[u] EXCEPT !.authing = {}]
             new == [l \in L |-> Attached(link[l][u])]
  <2>1. Relink(u, cu, new)
    BY <1>2 DEF AuthSucceeds, Attach
  <2>2. new \in [L -> Link] /\ \A l \in L : new[l].req # "none"
                                            /\ (Over(link[l][u]) => Over(new[l]))
    BY <1>1, LinkOps
  <2>3. /\ Sound(cu, u, net.up) /\ cu.sock = "open" /\ conn[u].sock = "open"
        /\ cu.retry = conn[u].retry
    BY <1>1, <1>2 DEF AuthSucceeds, Sound, Connection
  <2> HIDE DEF cu, new
  <2>4. \A l \in L : Wired(cu, new[l], l, net.up, missed)
    BY <2>2, <2>3 DEF Wired, Planned
  <2>5. \A l \in Demand(u) \ L : Wired(cu, link[l][u], l, net.up, missed)
    BY <1>1, <2>3 DEF Wired, Planned
  <2>6. L \in SUBSET Demand(u) /\ \A l \in L : Over(link[l][u]) => Over(new[l])
    BY <2>2
  <2> HIDE DEF L
  <2> QED
    BY <1>1, <2>1, <2>2, <2>3, <2>4, <2>5, <2>6, RelinkStep
<1>3. CASE AuthFails(u)
  <2> DEFINE open == conn[u].sock = "open"
             cu == [conn[u] EXCEPT !.authing = {}, !.dropping = open]
             new == [l \in L |-> [Ended(link[l][u], "eose") EXCEPT !.again = TRUE, !.tried = FALSE]]
  <2>1. Relink(u, cu, new)
    BY <1>3 DEF AuthFails
  <2>2. ASSUME NEW l \in L
        PROVE  new[l] \in Link /\ Over(new[l]) /\ new[l].again /\ new[l].req = link[l][u].req
    <3> DEFINE e == Ended(link[l][u], "eose")
    <3>1. e \in Link /\ Over(e) /\ e.req = link[l][u].req
      BY <1>1, EndedOps
    <3>2. new[l] = [e EXCEPT !.again = TRUE, !.tried = FALSE]
      OBVIOUS
    <3> HIDE DEF e, new
    <3> QED
      BY <3>1, <3>2 DEF Link, Over
  <2>3. new \in [L -> Link]
    BY <2>2
  <2>4. open \in BOOLEAN
    OBVIOUS
  <2> HIDE DEF new, open
  <2>5. /\ Sound(cu, u, net.up) /\ cu.sock = conn[u].sock /\ cu.retry = conn[u].retry
    BY <1>1, <2>4 DEF Sound, Connection
  <2> HIDE DEF cu
  <2>6. \A l \in L : Wired(cu, new[l], l, net.up, missed)
    BY <1>1, <2>2, <2>5 DEF Wired, Planned
  <2>7. \A l \in Demand(u) \ L : Wired(cu, link[l][u], l, net.up, missed)
    BY <1>1, <2>5 DEF Wired, Planned
  <2>8. L \in SUBSET Demand(u) /\ \A l \in L : Over(link[l][u]) => Over(new[l])
    BY <2>2
  <2> HIDE DEF L
  <2> QED
    BY <1>1, <2>1, <2>3, <2>5, <2>6, <2>7, <2>8, RelinkStep
<1> QED
  BY <1>2, <1>3
-----------------------------------------------------------------------------
(* Steps that close nothing. *)
LEMMA OneConn ==
  ASSUME PoolInv, NEW u \in Url, NEW cu, conn' = [conn EXCEPT ![u] = cu],
         UNCHANGED <<subs, world>>, Sound(cu, u, net.up),
         \A l \in Demand(u) : Wired(cu, link[l][u], l, net.up, missed)
  PROVE  PoolInv'
<1>1. conn \in [Url -> Connection] /\ Good(conn, link, net.up, missed)
      /\ net' = net /\ missed' = missed
  BY DEF PoolInv, TypeInv, world
<1>2. /\ DOMAIN conn' = Url /\ conn' = [v \in Url |-> conn'[v]]
      /\ conn'[u] = cu /\ \A v \in Url \ {u} : conn'[v] = conn[v]
  BY <1>1
<1>3. \A v \in Url : Sound(conn'[v], v, net.up)
  BY <1>1, <1>2 DEF Kept, Good
<1>4. \A v \in Url : \A l \in Demand(v) : Wired(conn'[v], link[l][v], l, net.up, missed)
  BY <1>1, <1>2 DEF Kept, Good
<1>5. Good(conn', link, net.up, missed)
  BY <1>1, <1>2, <1>3, <1>4 DEF Kept, Good
<1> QED
  BY <1>1, <1>5, ConnStep DEF PoolInv, TypeInv

(* A relay without a socket is dialed, if anything is done about it. *)
LEMMA EnsureStep ==
  ASSUME PoolInv, NEW u \in Url, RetryRings(u) \/ Publish(u) \/ ForgetIdle(u)
  PROVE  PoolInv'
<1>1. /\ conn[u] \in Connection /\ Sound(conn[u], u, net.up) /\ UNCHANGED <<subs, world>>
      /\ \A l \in Demand(u) : Wired(conn[u], link[l][u], l, net.up, missed)
  BY AtRelay DEF RetryRings, Publish, ForgetIdle
<1>2. CASE RetryRings(u)
  <2> DEFINE c == [conn[u] EXCEPT !.retry = FALSE]
  <2>1. Demand(u) # {} /\ conn[u].sock = "none" /\ conn[u].retry
    BY <1>1, <1>2 DEF RetryRings, Sound
  <2>2. conn' = [conn EXCEPT ![u] = Ensured(c)]
    BY <1>2, <2>1 DEF RetryRings
  <2>3. Sound(c, u, net.up) /\ c.sock = "none"
    BY <1>1, <2>1 DEF Sound, Connection
  <2> HIDE DEF c
  <2>4. /\ Sound(Ensured(c), u, net.up)
        /\ net.up => Ensured(c).sock = "connecting"
    BY <2>3, Ensures
  <2>5. \A l \in Demand(u) : Wired(Ensured(c), link[l][u], l, net.up, missed)
    BY <1>1, <2>1, <2>4 DEF Wired, Planned
  <2> QED
    BY <1>1, <2>2, <2>4, <2>5, OneConn
<1>3. CASE Publish(u)
  <2>1. conn' = [conn EXCEPT ![u] = Ensured(conn[u])]
    BY <1>3 DEF Publish
  <2>2. /\ Sound(Ensured(conn[u]), u, net.up)
        /\ conn[u].sock # "none" => Ensured(conn[u]) = conn[u]
        /\ conn[u].sock = "none" /\ net.up => Ensured(conn[u]).sock = "connecting"
        /\ conn[u].sock = "none" /\ ~ net.up => Ensured(conn[u]) = conn[u]
    BY <1>1, Ensures
  <2>3. \A l \in Demand(u) : Wired(Ensured(conn[u]), link[l][u], l, net.up, missed)
    BY <1>1, <2>2 DEF Wired, Planned
  <2> QED
    BY <1>1, <2>1, <2>2, <2>3, OneConn
<1>4. CASE ForgetIdle(u)
  <2>1. conn' = [conn EXCEPT ![u] = Shut(conn[u])] /\ Demand(u) = {}
    BY <1>4 DEF ForgetIdle
  <2>2. Sound(Shut(conn[u]), u, net.up)
    BY <1>1, Recovers
  <2> QED
    BY <1>1, <2>1, <2>2, OneConn
<1> QED
  BY <1>2, <1>3, <1>4

(* The network is found to be there, which the pool does not act upon. *)
LEMMA StillStep ==
  ASSUME PoolInv, UNCHANGED <<conn, subs>>, net'.up \in BOOLEAN, missed' \in BOOLEAN,
         net.up => net'.up, net'.up /\ ~ missed' => net.up /\ ~ missed
  PROVE  PoolInv'
<1>1. Good(conn, link, net.up, missed) /\ conn' = conn
  BY DEF PoolInv
<1>2. \A u \in Url : Sound(conn'[u], u, net'.up)
  BY <1>1 DEF Kept, Good, Sound
<1>3. \A u \in Url : \A l \in Demand(u) : Wired(conn'[u], link[l][u], l, net'.up, missed')
  BY <1>1 DEF Good, Wired
<1>4. Good(conn', link, net'.up, missed')
  BY <1>1, <1>2, <1>3 DEF Kept, Good
<1> QED
  BY <1>4, ConnStep
-----------------------------------------------------------------------------
(* The platform. *)
LEMMA AllDetaches ==
  ASSUME PoolInv, NEW hit \in SUBSET Url
  PROVE  /\ Linked(AllDetached(hit))
         /\ \A l \in Logical : phase[l] # "open" => AllDetached(hit)[l] = NoLinks(l)
         /\ \A l \in Logical : \A u \in Urls(l) :
              /\ Over(link[l][u]) => Over(AllDetached(hit)[l][u])
              /\ u \in hit => AllDetached(hit)[l][u].req = "none"
              /\ u \notin hit => AllDetached(hit)[l][u] = link[l][u]
<1> DEFINE links == AllDetached(hit)
<1>1. DOMAIN links = Logical
  BY DEF AllDetached
<1>2. ASSUME NEW l \in Logical, NEW u \in Urls(l)
      PROVE  /\ link[l][u] \in Link /\ links[l][u] \in Link
             /\ Over(link[l][u]) => Over(links[l][u])
             /\ u \in hit => links[l][u].req = "none"
             /\ u \notin hit => links[l][u] = link[l][u]
  <2>1. link[l][u] \in Link
    BY DEF PoolInv, TypeInv, Linked
  <2>2. links[l][u] = IF u \in hit THEN Detached(link[l][u]) ELSE link[l][u]
    BY DEF AllDetached
  <2>3. /\ Detached(link[l][u]) \in Link /\ Detached(link[l][u]).read = link[l][u].read
        /\ Detached(link[l][u]).req = "none"
    BY <2>1, LinkOps
  <2> HIDE DEF links
  <2> QED
    BY <2>1, <2>2, <2>3 DEF Over
<1>3. ASSUME NEW l \in Logical
      PROVE  links[l] \in [Urls(l) -> Link] /\ (phase[l] # "open" => links[l] = NoLinks(l))
  <2>1. links[l] = [u \in Urls(l) |-> IF u \in hit THEN Detached(link[l][u]) ELSE link[l][u]]
    BY DEF AllDetached
  <2>2. links[l] \in [Urls(l) -> Link]
    <3>1. \A u \in Urls(l) : links[l][u] \in Link
      BY <1>2
    <3> QED
      BY <2>1, <3>1
  <2>3. Detached(NoLink) = NoLink
    <3> DEFINE k == NoLink
    <3>1. k \in Link /\ k.req = "none" /\ k.tried = FALSE /\ k.refused = FALSE
      BY LinkFacts DEF NoLink
    <3> HIDE DEF k
    <3>2. Detached(k) = k
      BY <3>1 DEF Detached, Link
    <3> QED
      BY <3>2 DEF k
  <2>4. phase[l] # "open" => \A u \in Urls(l) : link[l][u] = NoLink
    BY DEF PoolInv, Good, Kept, NoLinks
  <2> QED
    BY <2>1, <2>2, <2>3, <2>4 DEF NoLinks
<1> HIDE DEF links
<1> QED
  BY <1>1, <1>2, <1>3 DEF Linked, links

LEMMA NetworkLostStep == ASSUME PoolInv, NetworkLost, missed' = missed PROVE PoolInv'
<1> DEFINE c == [u \in Url |-> Shut(conn[u])]
           links == AllDetached(Url)
<1>1. net'.up = FALSE /\ Settle(c, links) /\ missed' \in BOOLEAN
  BY DEF NetworkLost, Hinted, PoolInv, TypeInv
<1>2. \A u \in Url : Sound(c[u], u, FALSE)
  BY AtRelay, Recovers
<1>3. c = [u \in Url |-> c[u]] /\ DOMAIN c = Url
  OBVIOUS
<1>4. /\ Linked(links)
      /\ \A l \in Logical : phase[l] # "open" => links[l] = NoLinks(l)
      /\ \A l \in Logical : \A u \in Urls(l) :
           /\ Over(link[l][u]) => Over(links[l][u])
           /\ u \in Url => links[l][u].req = "none"
  BY AllDetaches
<1> HIDE DEF c, links
<1>5. Good(c, links, FALSE, missed')
  BY <1>2, <1>3, <1>4 DEF Good, Kept, Wired, Demand
<1> QED
  BY <1>1, <1>5, SettleStep

LEMMA RecoverStep == ASSUME PoolInv, Recover, net'.up = TRUE PROVE PoolInv'
<1> DEFINE links == AllDetached(Wanted)
<1>1. missed' = FALSE /\ Settle(Recovered, links)
  BY DEF Recover
<1>2. ASSUME NEW u \in Url
      PROVE  Sound(Recovered[u], u, TRUE)
             /\ (Demand(u) # {} => Recovered[u].sock = "connecting")
  <2>1. Sound(conn[u], u, net.up)
    BY AtRelay
  <2>2. Sound(conn[u], u, TRUE)
    BY <2>1 DEF Sound
  <2>3. Sound(Dialed(Shut(conn[u])), u, TRUE) /\ Dialed(Shut(conn[u])).sock = "connecting"
    BY <2>1, Recovers
  <2> QED
    BY <2>2, <2>3 DEF Recovered, Redialed
<1>3. Recovered = [u \in Url |-> Recovered[u]] /\ DOMAIN Recovered = Url
  BY DEF Recovered
<1>4. /\ Linked(links)
      /\ \A l \in Logical : phase[l] # "open" => links[l] = NoLinks(l)
      /\ \A l \in Logical : \A u \in Urls(l) :
           /\ Over(link[l][u]) => Over(links[l][u])
           /\ u \in Wanted => links[l][u].req = "none"
  <2>1. Wanted \in SUBSET Url
    BY DEF Wanted
  <2> QED
    BY <2>1, AllDetaches
<1>5. \A u \in Url : \A l \in Demand(u) : l \in Logical /\ u \in Urls(l) /\ u \in Wanted
  BY DEF Demand, Wanted
<1> HIDE DEF links
<1>6. Good(Recovered, links, TRUE, FALSE)
  BY <1>2, <1>3, <1>4, <1>5 DEF Good, Kept, Wired, Planned
<1> QED
  BY <1>1, <1>6, SettleStep

LEMMA PlatformStep ==
  ASSUME PoolInv,
         NetworkChanges \/ FirstSnapshot \/ EnterForeground \/ \E u \in Url : Outage(u)
  PROVE  PoolInv'
<1>1. net.up \in BOOLEAN /\ missed \in BOOLEAN
  BY DEF PoolInv, TypeInv
<1>2. CASE NetworkLost /\ UNCHANGED missed
  BY <1>2, NetworkLostStep
<1>3. CASE Hinted(TRUE) /\ Recover
  BY <1>3, RecoverStep DEF Hinted
<1>4. CASE net.up /\ UNCHANGED net /\ Recover
  BY <1>4, RecoverStep
<1>5. CASE /\ UNCHANGED <<conn, subs>>
           /\ \/ Hinted(TRUE) /\ net.up /\ UNCHANGED missed
              \/ Hinted(TRUE) /\ missed' = (missed \/ ~net.up)
              \/ UNCHANGED <<net, missed>>
  <2>1. Hinted(TRUE) => net'.up = TRUE
    BY DEF Hinted
  <2>2. net'.up \in BOOLEAN /\ (net.up => net'.up)
    BY <1>1, <1>5, <2>1
  <2>3. missed' \in BOOLEAN
    <3>1. (missed \/ ~net.up) \in BOOLEAN
      OBVIOUS
    <3> QED
      BY <1>1, <1>5, <3>1
  <2>4. net'.up /\ ~ missed' => net.up /\ ~ missed
    BY <1>5, Zenon
  <2> QED
    BY <1>5, <2>2, <2>3, <2>4, StillStep
<1>6. NetworkChanges => \/ NetworkLost /\ UNCHANGED missed
                        \/ Hinted(TRUE) /\ Recover
                        \/ Hinted(TRUE) /\ net.up /\ UNCHANGED <<conn, subs, missed>>
  BY <1>1 DEF NetworkChanges
<1>7. FirstSnapshot => \/ NetworkLost /\ UNCHANGED missed
                       \/ /\ Hinted(TRUE) /\ missed' = (missed \/ ~net.up)
                          /\ UNCHANGED <<conn, subs>>
  BY DEF FirstSnapshot
<1>8. EnterForeground => \/ net.up /\ UNCHANGED net /\ Recover
                         \/ UNCHANGED <<conn, subs, net, missed>>
  BY DEF EnterForeground
<1>9. \A u \in Url : Outage(u) => UNCHANGED <<conn, subs, net, missed>>
  BY DEF Outage
<1> QED
  BY <1>2, <1>3, <1>4, <1>5, <1>6, <1>7, <1>8, <1>9
-----------------------------------------------------------------------------
(* Owners give up. *)
LEMMA GiveUpStep ==
  ASSUME PoolInv,
         (\E q \in Query : AbortQuery(q)) \/ (\E l \in Logical : Unsubscribe(l)) \/ Destroy
  PROVE  PoolInv'
<1>1. Good(conn, link, net.up, missed) /\ net.up \in BOOLEAN /\ missed \in BOOLEAN
  BY DEF PoolInv, TypeInv
<1>2. net' = net /\ missed' = missed
  BY DEF AbortQuery, Unsubscribe, Destroy, world
<1>3. ASSUME NEW L \in SUBSET Logical, Cancel(L, conn) PROVE PoolInv'
  <2>1. \A u \in Url : \A l \in Demand(u) \ L : Wired(conn[u], link[l][u], l, net.up, missed)
    BY <1>1 DEF Good
  <2> QED
    BY <1>1, <1>2, <1>3, <2>1, CancelStep DEF Good
<1>4. ASSUME NEW q \in Query, AbortQuery(q) PROVE PoolInv'
  <2>1. Cancel({l \in Asked : l[1] = q}, conn) /\ {l \in Asked : l[1] = q} \in SUBSET Logical
    BY <1>4 DEF AbortQuery, Logical
  <2> QED
    BY <2>1, <1>3
<1>5. ASSUME NEW l \in Logical, Unsubscribe(l) PROVE PoolInv'
  BY <1>5, <1>3 DEF Unsubscribe
<1>6. ASSUME Destroy PROVE PoolInv'
  <2> DEFINE c == [u \in Url |-> Shut(conn[u])]
  <2>1. Cancel(Logical, c)
    BY <1>6 DEF Destroy
  <2>2. \A u \in Url : Sound(c[u], u, net.up) /\ Demand(u) \ Logical = {}
    BY AtRelay, Recovers DEF Demand
  <2>3. c = [u \in Url |-> c[u]] /\ DOMAIN c = Url
    OBVIOUS
  <2> HIDE DEF c
  <2>4. Kept(c, link, net'.up)
    BY <1>1, <1>2, <2>2, <2>3 DEF Good, Kept
  <2>5. \A u \in Url : \A l \in Demand(u) \ Logical : Wired(c[u], link[l][u], l, net'.up, missed')
    BY <2>2
  <2> QED
    BY <1>1, <1>2, <2>1, <2>4, <2>5, CancelStep
<1> QED
  BY <1>4, <1>5, <1>6
-----------------------------------------------------------------------------
(* Subscriptions and queries start. *)
LEMMA JoinedOps ==
  ASSUME NEW c \in Connection, NEW new \in SUBSET Logical, net.up \in BOOLEAN
  PROVE  /\ Joined(c, new) \in Connection
         /\ Joined(c, new).awaiting \subseteq c.awaiting \union new
         /\ Joined(c, new).rejected \subseteq c.rejected \union new
         /\ Joined(c, new).retry => c.retry /\ Joined(c, new).sock = c.sock
         /\ \/ /\ Joined(c, new).sock = c.sock /\ Joined(c, new).retry = c.retry
               /\ Joined(c, new).authing = c.authing
               /\ new = {} \/ c.sock # "none" \/ ~ net.up
            \/ c.sock = "none" /\ net.up /\ Joined(c, new).sock = "connecting"
<1>1. CASE new = {} \/ c.sock = "open"
  <2>1. Joined(c, new) = c
    BY <1>1 DEF Joined
  <2> QED
    BY <1>1, <2>1
<1>2. CASE new # {} /\ c.sock = "connecting"
  <2> DEFINE a == c.awaiting \union new
  <2>1. Joined(c, new) = [c EXCEPT !.awaiting = a]
    BY <1>2 DEF Joined
  <2>2. a \in SUBSET Logical
    BY DEF Connection
  <2> HIDE DEF a
  <2>3. /\ Joined(c, new) \in Connection /\ Joined(c, new).awaiting = a
        /\ Joined(c, new).rejected = c.rejected /\ Joined(c, new).sock = c.sock
        /\ Joined(c, new).retry = c.retry /\ Joined(c, new).authing = c.authing
    BY <2>1, <2>2 DEF Connection
  <2> QED
    BY <1>2, <2>3 DEF a
<1>3. CASE new # {} /\ c.sock = "none" /\ net.up
  <2> DEFINE d == Dialed(c)
  <2>1. Joined(c, new) = [d EXCEPT !.awaiting = new]
    BY <1>3 DEF Joined
  <2>2. /\ d \in Connection /\ d.sock = "connecting" /\ d.retry = FALSE
        /\ d.rejected = c.rejected
    BY ShutOps
  <2> HIDE DEF d
  <2>3. /\ Joined(c, new) \in Connection /\ Joined(c, new).awaiting = new
        /\ Joined(c, new).rejected = c.rejected /\ Joined(c, new).sock = "connecting"
        /\ Joined(c, new).retry = FALSE
    BY <2>1, <2>2 DEF Connection
  <2> QED
    BY <1>3, <2>3
<1>4. CASE new # {} /\ c.sock = "none" /\ ~ net.up
  <2> DEFINE r == c.rejected \union new
  <2>1. Joined(c, new) = [c EXCEPT !.rejected = r]
    BY <1>4 DEF Joined
  <2>2. r \in SUBSET Logical
    BY DEF Connection
  <2> HIDE DEF r
  <2>3. /\ Joined(c, new) \in Connection /\ Joined(c, new).rejected = r
        /\ Joined(c, new).awaiting = c.awaiting /\ Joined(c, new).sock = c.sock
        /\ Joined(c, new).retry = c.retry /\ Joined(c, new).authing = c.authing
    BY <2>1, <2>2 DEF Connection
  <2> QED
    BY <1>4, <2>3 DEF r
<1> QED
  BY <1>1, <1>2, <1>3, <1>4 DEF Connection

(* before: the phases as the step finds them, those of the starting ones    *)
(* aside; a query that has just been asked or answered may be among them.  *)
LEMMA StartStep ==
  ASSUME PoolInv, UNCHANGED <<ends, world>>,
         NEW S \in SUBSET Logical, NEW before \in [Logical -> Phase],
         \A l \in S : before[l] \in {"idle", "queued"},
         \A l \in Logical :
           /\ before[l] = "open" <=> phase[l] = "open"
           /\ before[l] \in {"ending", "closed"} <=> phase[l] \in {"ending", "closed"},
         phase' = [l \in Logical |-> IF l \in S THEN "open" ELSE before[l]],
         Start(S)
  PROVE  PoolInv'
<1> DEFINE New(u) == {l \in S : u \in Urls(l)}
<1>1. /\ conn \in [Url -> Connection] /\ Linked(link) /\ net.up \in BOOLEAN
      /\ missed \in BOOLEAN /\ ends \in [Logical -> Nat]
      /\ Good(conn, link, net.up, missed)
      /\ net' = net /\ missed' = missed /\ ends' = ends
  BY DEF PoolInv, TypeInv, world
<1>2. /\ phase' \in [Logical -> Phase]
      /\ \A l \in S : phase'[l] = "open" /\ phase[l] \notin {"open", "ending", "closed"}
      /\ \A l \in Logical \ S : phase'[l] = before[l]
  BY DEF Phase
<1>3. \A u \in Url : Demand(u)' = Demand(u) \union New(u)
  BY <1>2 DEF Demand
<1>4. /\ DOMAIN link' = Logical
      /\ \A l \in Logical \ S : link'[l] = link[l]
      /\ \A l \in S : link'[l] \in [Urls(l) -> Link]
      /\ \A l \in S : \A u \in Urls(l) :
           /\ ~ Over(link'[l][u])
           /\ link'[l][u].req # "none" <=> conn[u].sock = "open"
  <2> DEFINE k == [NoLink EXCEPT !.read = "timed"]
  <2>1. k \in Link /\ k.read = "timed" /\ k.req = "none"
    BY DEF NoLink, Link
  <2>2. /\ DOMAIN link' = Logical
        /\ \A l \in Logical \ S : link'[l] = link[l]
        /\ \A l \in S : link'[l] = [u \in Urls(l) |->
                                    IF conn[u].sock = "open" THEN Attached(k) ELSE k]
    BY DEF Start
  <2> HIDE DEF k
  <2>3. Attached(k) \in Link /\ Attached(k).read = "bare" /\ Attached(k).req = "sent"
    BY <2>1 DEF Attached, Link
  <2>4. ~ Over(k) /\ ~ Over(Attached(k))
    BY <2>1, <2>3 DEF Over
  <2>5. ASSUME NEW l \in S
        PROVE  /\ link'[l] \in [Urls(l) -> Link]
               /\ \A u \in Urls(l) : ~ Over(link'[l][u])
               /\ \A u \in Urls(l) : link'[l][u].req # "none" <=> conn[u].sock = "open"
    <3> DEFINE to == [u \in Urls(l) |-> IF conn[u].sock = "open" THEN Attached(k) ELSE k]
    <3>1. link'[l] = to
      BY <2>2
    <3>2. \A u \in Urls(l) : to[u] = IF conn[u].sock = "open" THEN Attached(k) ELSE k
      OBVIOUS
    <3>3. to \in [Urls(l) -> Link]
      BY <2>1, <2>3
    <3> HIDE DEF to
    <3> QED
      BY <2>1, <2>3, <2>4, <3>1, <3>2, <3>3
  <2> QED
    BY <2>2, <2>5
<1>5. ASSUME NEW u \in Url
      PROVE  /\ Sound(conn[u], u, net.up)'
             /\ \A l \in Demand(u)' : Wired(conn[u], link[l][u], l, net.up, missed)'
  <2> DEFINE j == Joined(conn[u], New(u))
  <2>1. conn'[u] = j
    BY DEF Start
  <2>2. New(u) \in SUBSET Logical /\ conn[u] \in Connection
    BY <1>1
  <2>3. /\ j \in Connection
        /\ j.awaiting \subseteq conn[u].awaiting \union New(u)
        /\ j.rejected \subseteq conn[u].rejected \union New(u)
        /\ j.retry => conn[u].retry /\ j.sock = conn[u].sock
        /\ \/ /\ j.sock = conn[u].sock /\ j.retry = conn[u].retry
              /\ j.authing = conn[u].authing
              /\ New(u) = {} \/ conn[u].sock # "none" \/ ~ net.up
           \/ conn[u].sock = "none" /\ net.up /\ j.sock = "connecting"
    <3> HIDE DEF New
    <3> QED
      BY <1>1, <2>2, JoinedOps
  <2> HIDE DEF j
  <2>4. Sound(conn[u], u, net.up)
    BY AtRelay
  <2>5. Sound(conn[u], u, net.up)'
    <3> HIDE DEF New
    <3> QED
      BY <1>1, <1>3, <2>1, <2>3, <2>4 DEF Sound
  <2>6. ASSUME NEW l \in Demand(u) PROVE Wired(conn[u], link[l][u], l, net.up, missed)'
    <3>1. Wired(conn[u], link[l][u], l, net.up, missed) /\ l \in Logical
      BY AtRelay
    <3>2. link'[l][u] = link[l][u]
      BY <1>2, <1>4, <3>1 DEF Demand
    <3> HIDE DEF New
    <3> QED
      BY <1>1, <2>1, <2>3, <3>1, <3>2 DEF Wired, Planned
  <2>7. ASSUME NEW l \in New(u) PROVE Wired(conn[u], link[l][u], l, net.up, missed)'
    <3>1. link'[l][u].req # "none" <=> conn[u].sock = "open"
      BY <1>4
    <3>2. New(u) # {} /\ conn[u].sock \in {"none", "connecting", "open"}
      BY <2>2 DEF Connection
    <3> HIDE DEF New
    <3> QED
      BY <1>1, <2>1, <2>3, <3>1, <3>2 DEF Wired, Planned
  <2>8. \A l \in Demand(u)' : l \in Demand(u) \/ l \in New(u)
    BY <1>3
  <2> HIDE DEF New
  <2> QED
    BY <2>5, <2>6, <2>7, <2>8
<1>6. conn' = [u \in Url |-> conn'[u]] /\ DOMAIN conn' = Url
  BY DEF Start
<1>7. Linked(link)'
  BY <1>1, <1>4 DEF Linked
<1>8. \A l \in Logical : phase'[l] # "open" => link'[l] = NoLinks(l)
  BY <1>1, <1>2, <1>4 DEF Good, Kept
<1> HIDE DEF New
<1>9. Good(conn, link, net.up, missed)'
  BY <1>5, <1>6, <1>7, <1>8 DEF Good, Kept
<1>10. TypeInv'
  BY <1>1, <1>2, <1>5, <1>6, <1>7 DEF TypeInv, Sound
<1>11. ASSUME NEW l \in Logical PROVE (ends[l] = Count(l))'
  <2>1. ends'[l] = Count(l)
    BY <1>1 DEF PoolInv
  <2>2. CASE l \in S
    <3>1. ~ AllEnded(link, l)'
      BY <1>4, <2>2, LinkFacts DEF AllEnded, Over
    <3> QED
      BY <1>2, <2>1, <2>2, <3>1 DEF Count
  <2>3. CASE l \notin S
    <3>1. AllEnded(link, l)' <=> AllEnded(link, l)
      BY <1>4, <2>3 DEF AllEnded, Over
    <3> QED
      BY <1>2, <2>1, <2>3, <3>1 DEF Count
  <2> QED
    BY <2>2, <2>3
<1> QED
  BY <1>9, <1>10, <1>11 DEF PoolInv

LEMMA DrainStep ==
  ASSUME PoolInv, UNCHANGED <<ends, world>>,
         NEW waiting \in [Url -> Seq(Asked)], NEW n, NEW before \in [Logical -> Phase],
         \A l \in Logical :
           /\ before[l] = "open" <=> phase[l] = "open"
           /\ before[l] \in {"ending", "closed"} <=> phase[l] \in {"ending", "closed"},
         Drain(waiting, n, before)
  PROVE  PoolInv' /\ QueueInv'
<1> DEFINE passed == [u \in Url |-> Passed(waiting[u], Limit - n[u], before)]
           alive == [u \in Url |-> {i \in passed[u] : before[waiting[u][i]] = "queued"}]
           started == UNION {{waiting[u][i] : i \in alive[u]} : u \in Url}
<1>1. /\ queue' = [u \in Url |->
           SubSeq(waiting[u], Cardinality(passed[u]) + 1, Len(waiting[u]))]
      /\ phase' = [l \in Logical |-> IF l \in started THEN "open" ELSE before[l]]
      /\ Start(started)
  BY DEF Drain
<1>2. \A u \in Url : /\ passed[u] \subseteq 1..Len(waiting[u])
                    /\ waiting[u] \in Seq(Asked) /\ Len(waiting[u]) \in Nat
  BY DEF Passed
<1>3. started \in SUBSET Logical /\ \A l \in started : before[l] \in {"idle", "queued"}
  <2>1. ASSUME NEW u \in Url, NEW i \in alive[u]
        PROVE  waiting[u][i] \in Asked /\ before[waiting[u][i]] = "queued"
    <3>1. i \in passed[u] /\ before[waiting[u][i]] = "queued"
      OBVIOUS
    <3> HIDE DEF passed, alive
    <3>2. i \in 1..Len(waiting[u])
      BY <1>2, <3>1
    <3> QED
      BY <1>2, <3>1, <3>2
  <2> HIDE DEF alive
  <2> QED
    BY <2>1 DEF Logical
<1>4. QueueInv'
  <2>1. ASSUME NEW u \in Url
        PROVE  SubSeq(waiting[u], Cardinality(passed[u]) + 1, Len(waiting[u])) \in Seq(Asked)
    <3> DEFINE w == waiting[u]
               m == Cardinality(passed[u]) + 1
    <3>1. w \in Seq(Asked) /\ Len(w) \in Nat /\ passed[u] \subseteq 1..Len(w)
      BY <1>2
    <3> HIDE DEF w, passed
    <3>2. IsFiniteSet(1..Len(w))
      BY <3>1, FS_Interval
    <3>3. Cardinality(passed[u]) \in Nat
      BY <3>1, <3>2, FS_Subset, FS_CardinalityType
    <3>4. m \in Nat /\ m >= 1
      BY <3>3
    <3> HIDE DEF m
    <3>5. \A i \in m..Len(w) : w[i] \in Asked
      BY <3>1, <3>4
    <3>6. SubSeq(w, m, Len(w)) \in Seq(Asked)
      BY <3>1, <3>4, <3>5, SubSeqProperties
    <3> QED
      BY <3>6 DEF w, m
  <2> HIDE DEF passed
  <2> QED
    BY <1>1, <2>1 DEF QueueInv
<1> HIDE DEF started
<1> QED
  BY <1>1, <1>3, <1>4, StartStep

LEMMA AskStep ==
  ASSUME PoolInv, QueueInv, NEW q \in Query, AskQuery(q) PROVE PoolInv' /\ QueueInv'
<1> DEFINE asked == {<<q, u>> : u \in UrlsOf[q]}
           waiting == [u \in Url |-> IF u \in UrlsOf[q] THEN Append(queue[u], <<q, u>>)
                                                       ELSE queue[u]]
           before == [l \in Logical |-> IF l \in asked THEN "queued" ELSE phase[l]]
<1>1. /\ \A l \in asked : phase[l] = "idle"
      /\ Drain(waiting, active, before) /\ UNCHANGED <<ends, world>>
  BY DEF AskQuery
<1>2. waiting \in [Url -> Seq(Asked)]
  <2>1. \A u \in Url : u \in UrlsOf[q] => <<q, u>> \in Asked
    BY DEF Asked, Entry
  <2> QED
    BY <2>1, AppendProperties DEF QueueInv
<1>3. /\ before \in [Logical -> Phase]
      /\ \A l \in Logical :
           /\ before[l] = "open" <=> phase[l] = "open"
           /\ before[l] \in {"ending", "closed"} <=> phase[l] \in {"ending", "closed"}
  BY <1>1 DEF PoolInv, TypeInv, Phase
<1> HIDE DEF waiting, before
<1> QED
  BY <1>1, <1>2, <1>3, DrainStep

LEMMA ReleaseStep ==
  ASSUME PoolInv, QueueInv, NEW l \in Logical, Release(l) PROVE PoolInv' /\ QueueInv'
<1> DEFINE before == [phase EXCEPT ![l] = "closed"]
           n == [active EXCEPT ![l[2]] = @ - 1]
<1>1. phase[l] = "ending" /\ Drain(queue, n, before) /\ UNCHANGED <<ends, world>>
  BY DEF Release
<1>2. queue \in [Url -> Seq(Asked)]
  BY DEF QueueInv
<1>3. /\ before \in [Logical -> Phase]
      /\ \A m \in Logical :
           /\ before[m] = "open" <=> phase[m] = "open"
           /\ before[m] \in {"ending", "closed"} <=> phase[m] \in {"ending", "closed"}
  BY <1>1 DEF PoolInv, TypeInv, Phase
<1> HIDE DEF before, n
<1> QED
  BY <1>1, <1>2, <1>3, DrainStep

LEMMA SubscribeStep == ASSUME PoolInv, NEW l \in Logical, Subscribe(l) PROVE PoolInv'
<1>1. /\ phase[l] = "idle" /\ Start({l}) /\ UNCHANGED <<ends, world>>
      /\ phase \in [Logical -> Phase]
  BY DEF Subscribe, PoolInv, TypeInv
<1>2. phase' = [m \in Logical |-> IF m \in {l} THEN "open" ELSE phase[m]]
  BY <1>1 DEF Subscribe
<1> QED
  BY <1>1, <1>2, StartStep
-----------------------------------------------------------------------------
LEMMA PoolStep == ASSUME PoolInv, QueueInv, [Next]_vars PROVE PoolInv' /\ QueueInv'
<1> USE DEF QueueInv
<1>1. ASSUME NEW u \in Url, Runs(u) PROVE PoolInv' /\ QueueInv'
  <2>1. QueueInv'
    BY <1>1 DEF Runs, Connected, ConnectFails, RetryRings, AuthSucceeds, AuthFails, AuthDrops, slots
  <2> QED
    BY <1>1, <2>1, ConnectedStep, DropSteps, EnsureStep, AuthStep DEF Runs
<1>2. ASSUME NEW u \in Url,
             \/ SocketCloses(u) \/ SendFails(u) \/ Publish(u) \/ PublishTimesOut(u)
             \/ ForgetIdle(u) \/ Outage(u)
      PROVE  PoolInv' /\ QueueInv'
  <2>1. QueueInv'
    BY <1>2 DEF SocketCloses, SendFails, Publish, PublishTimesOut, ForgetIdle, Outage, slots
  <2> QED
    BY <1>2, <2>1, SocketClosesStep, DropSteps, EnsureStep, PlatformStep
<1>3. ASSUME NEW l \in Logical, Subscribe(l) \/ Unsubscribe(l) PROVE PoolInv' /\ QueueInv'
  <2>1. QueueInv'
    BY <1>3 DEF Subscribe, Unsubscribe, slots
  <2> QED
    BY <1>3, <2>1, SubscribeStep, GiveUpStep
<1>4. ASSUME NEW l \in Logical, NEW u \in Urls(l),
             Reads(l, u) \/ RelayClosesForAuth(l, u) \/ RelayCloses(l, u)
      PROVE  PoolInv' /\ QueueInv'
  <2>1. QueueInv'
    BY <1>4 DEF Reads, Rejected, ConnectTimeout, Eose, RetrySubscription,
                RelayClosesForAuth, RelayCloses, slots
  <2>2. u \in Url
    BY LinkFacts
  <2> QED
    BY <1>4, <2>1, <2>2, RejectedStep, ConnectTimeoutStep, EoseStep, RetryStep,
       ClosesForAuthStep, RelayClosesStep DEF Reads
<1>5. ASSUME (\E q \in Query : AbortQuery(q)) \/ Destroy PROVE PoolInv' /\ QueueInv'
  <2>1. CASE \E q \in Query : AbortQuery(q)
    BY <2>1, GiveUpStep DEF AbortQuery, slots
  <2>2. CASE Destroy
    <3>1. <<>> \in Seq(Asked)
      OBVIOUS
    <3>2. queue' = [u \in Url |-> <<>>]
      BY <2>2 DEF Destroy
    <3> QED
      BY <2>2, <3>1, <3>2, GiveUpStep
  <2> QED
    BY <1>5, <2>1, <2>2
<1>6. ASSUME NetworkChanges \/ FirstSnapshot \/ EnterForeground PROVE PoolInv' /\ QueueInv'
  <2>1. QueueInv'
    BY <1>6 DEF NetworkChanges, FirstSnapshot, EnterForeground, slots
  <2> QED
    BY <1>6, <2>1, PlatformStep
<1>7. ASSUME UNCHANGED vars PROVE PoolInv' /\ QueueInv'
  <2>1. UNCHANGED <<conn, subs, net, missed, queue>>
    BY <1>7 DEF vars, world, slots
  <2>2. net'.up \in BOOLEAN /\ missed' \in BOOLEAN
    BY <2>1 DEF PoolInv, TypeInv
  <2> QED
    BY <2>1, <2>2, StillStep
<1> QED
  BY <1>1, <1>2, <1>3, <1>4, <1>5, <1>6, <1>7, AskStep, ReleaseStep DEF Next

LEMMA PoolCorrect == Spec => [](PoolInv /\ QueueInv)
<1>1. Init => PoolInv /\ QueueInv
  BY PoolInit DEF Init, QueueInv
<1>2. PoolInv /\ QueueInv /\ [Next]_vars => (PoolInv /\ QueueInv)'
  BY PoolStep
<1> QED
  BY <1>1, <1>2, PTL DEF Spec

(* Through every loss, replacement, refusal and recovery of sockets, and   *)
(* whatever ends meanwhile, each subscription that is open has a request   *)
(* on each of its relays, or something is under way that gets it one.      *)
THEOREM NoneIsForgotten == Spec => []DemandHasPlan
<1>1. PoolInv => DemandHasPlan
  BY DEF PoolInv, Good, Wired, Planned, DemandHasPlan
<1> QED
  BY <1>1, PoolCorrect, PTL

(* Nothing of a subscription outlives its closing, and no timer of a relay *)
(* outlives the last one who wanted it: AUTH, retries and connections that *)
(* complete later find nothing to act on.                                  *)
THEOREM ClosedIsGone == Spec => []NothingOutlivesOwner
<1>1. PoolInv => NothingOutlivesOwner
  <2> SUFFICES ASSUME PoolInv, NEW u \in Url
               PROVE  /\ conn[u].retry => Demand(u) # {}
                      /\ \A l \in Logical : u \in Urls(l) /\ (link[l][u].req # "none" \/ link[l][u].again)
                                              => l \in Demand(u)
    BY DEF NothingOutlivesOwner
  <2>1. conn[u].retry => Demand(u) # {}
    BY AtRelay DEF Sound
  <2>2. ASSUME NEW l \in Logical, u \in Urls(l), link[l][u].req # "none" \/ link[l][u].again
        PROVE  l \in Demand(u)
    BY <2>2, Owned DEF NoLink
  <2> QED
    BY <2>1, <2>2
<1> QED
  BY <1>1, PoolCorrect, PTL

(* The owner of a subscription is told at most once that its initial read  *)
(* ended, and has been told when it is closed.                             *)
THEOREM ToldOnce == Spec => []EndsOnce
<1>1. PoolInv => EndsOnce
  BY DEF PoolInv, Count, EndsOnce
<1> QED
  BY <1>1, PoolCorrect, PTL
-----------------------------------------------------------------------------
(***************************************************************************)
(* The slots of a relay.  Those a drain passes over are a prefix of the    *)
(* queue that ends where the room does; a queue holds each query once, and *)
(* only queries that do not run, so those started take one slot each.      *)
(***************************************************************************)
Holding(u, ph) == {l \in Asked : l[2] = u /\ ph[l] \in {"open", "ending"}}

Queued(w, u, ph) ==
  /\ w \in Seq(Asked)
  /\ \A i \in 1..Len(w) : w[i][2] = u /\ ph[w[i]] \in {"queued", "closed"}
  /\ \A i \in 1..Len(w) : \A j \in 1..Len(w) : w[i] = w[j] => i = j

(* What each relay's queue w and count n are, in phases ph. *)
Slotted(w, n, u, ph) ==
  /\ Queued(w, u, ph)
  /\ n = Cardinality(Holding(u, ph)) /\ n <= Limit

SlotInv ==
  /\ queue = [u \in Url |-> queue[u]] /\ active = [u \in Url |-> active[u]]
  /\ \A u \in Url : Slotted(queue[u], active[u], u, phase)
  /\ \A u \in Url : queue[u] # <<>> => active[u] = Limit

LEMMA HoldingFinite ==
  ASSUME NEW u, NEW ph
  PROVE  IsFiniteSet(Holding(u, ph)) /\ Cardinality(Holding(u, ph)) \in Nat
<1>1. IsFiniteSet(Query \X Url)
  BY PoolConstants, FS_Product
<1>2. Asked \subseteq Query \X Url
  BY DEF Asked, Entry
<1>3. IsFiniteSet(Asked)
  BY <1>1, <1>2, FS_Subset
<1>4. Holding(u, ph) \in SUBSET Asked
  BY DEF Holding
<1> QED
  BY <1>3, <1>4, FS_Subset, FS_CardinalityType

(* The entries of w before i that still wait. *)
Ahead(w, i, ph) == {j \in 1..(i - 1) : ph[w[j]] = "queued"}

LEMMA AheadFinite ==
  ASSUME NEW w, NEW ph, NEW i \in Nat
  PROVE  /\ IsFiniteSet(Ahead(w, i, ph)) /\ Cardinality(Ahead(w, i, ph)) \in Nat
         /\ \A k \in 0..i : Cardinality(Ahead(w, k, ph)) <= Cardinality(Ahead(w, i, ph))
<1>1. IsFiniteSet(1..(i - 1))
  <2>1. i - 1 \in Int /\ 1 \in Int
    OBVIOUS
  <2> QED
    BY <2>1, FS_Interval
<1>2. Ahead(w, i, ph) \in SUBSET (1..(i - 1))
  BY DEF Ahead
<1>3. IsFiniteSet(Ahead(w, i, ph)) /\ Cardinality(Ahead(w, i, ph)) \in Nat
  BY <1>1, <1>2, FS_Subset, FS_CardinalityType
<1>4. ASSUME NEW k \in 0..i PROVE Cardinality(Ahead(w, k, ph)) <= Cardinality(Ahead(w, i, ph))
  <2>1. Ahead(w, k, ph) \in SUBSET Ahead(w, i, ph)
    BY DEF Ahead
  <2> QED
    BY <1>3, <2>1, FS_Subset
<1> QED
  BY <1>3, <1>4

(* A drain passes over the first p entries of a queue. *)
LEMMA PassedIsPrefix ==
  ASSUME NEW w, Len(w) \in Nat, NEW n \in Int, NEW ph, NEW P, P = Passed(w, n, ph)
  PROVE  /\ Cardinality(P) \in 0..Len(w)
         /\ P = 1..Cardinality(P)
         /\ \A i \in 1..Len(w) : i \in P <=> Cardinality(Ahead(w, i, ph)) < n
<1>1. \A i \in 1..Len(w) : i \in P <=> Cardinality(Ahead(w, i, ph)) < n
  BY DEF Passed, Ahead
<1>2. P \in SUBSET (1..Len(w))
  BY DEF Passed
<1>3. IsFiniteSet(1..Len(w)) /\ Cardinality(1..Len(w)) = Len(w)
  <2> DEFINE n1 == Len(w)
  <2>1. n1 \in Nat
    OBVIOUS
  <2> HIDE DEF n1
  <2>2. IsFiniteSet(1..n1) /\ Cardinality(1..n1) = n1
    BY <2>1, FS_Interval
  <2> QED
    BY <2>2 DEF n1
<1>4. IsFiniteSet(P) /\ Cardinality(P) \in Nat /\ Cardinality(P) <= Len(w)
  BY <1>2, <1>3, FS_Subset, FS_CardinalityType
<1> DEFINE p == Cardinality(P)
<1>5. ASSUME NEW i \in P PROVE i \in 1..p
  <2>1. i \in 1..Len(w) /\ Cardinality(Ahead(w, i, ph)) < n
    BY <1>1, <1>2
  <2>2. ASSUME NEW k \in 1..i PROVE k \in P
    <3>1. /\ Cardinality(Ahead(w, k, ph)) <= Cardinality(Ahead(w, i, ph))
          /\ Cardinality(Ahead(w, i, ph)) \in Nat
      BY <2>1, AheadFinite
    <3>2. Cardinality(Ahead(w, k, ph)) \in Nat
      BY AheadFinite
    <3> QED
      BY <1>1, <2>1, <3>1, <3>2
  <2>3. 1..i \in SUBSET P
    BY <2>2
  <2>4. Cardinality(1..i) = i
    BY <2>1, FS_Interval
  <2>5. Cardinality(1..i) <= Cardinality(P)
    BY <1>4, <2>3, FS_Subset
  <2> QED
    BY <1>4, <2>1, <2>4, <2>5
<1>6. IsFiniteSet(1..p) /\ Cardinality(1..p) = p
  BY <1>4, FS_Interval
<1>7. P \in SUBSET (1..p)
  BY <1>5
<1>8. P = 1..p
  BY <1>6, <1>7, FS_Subset
<1> QED
  BY <1>1, <1>4, <1>8

(* Of the entries passed over, those still waiting are started. *)
Alive(w, P, ph) == {i \in P : ph[w[i]] = "queued"}
Started(w, P, ph) == {w[i] : i \in Alive(w, P, ph)}
Opens(T, u, ph, after) ==
  \A l \in Asked : l[2] = u => after[l] = (IF l \in T THEN "open" ELSE ph[l])

(* Those it finds waiting fill the room n, unless the queue ends before. *)
LEMMA RoomIsFilled ==
  ASSUME NEW w, Len(w) \in Nat, NEW n \in Nat, NEW ph, NEW P, P = Passed(w, n, ph),
         NEW A, A = Alive(w, P, ph)
  PROVE  /\ IsFiniteSet(A) /\ Cardinality(A) \in Nat /\ Cardinality(A) <= n
         /\ Cardinality(P) < Len(w) => Cardinality(A) = n
<1> DEFINE p == Cardinality(P)
<1>1. /\ p \in 0..Len(w) /\ P = 1..p
      /\ \A i \in 1..Len(w) : i \in P <=> Cardinality(Ahead(w, i, ph)) < n
  BY PassedIsPrefix
<1> HIDE DEF p
<1>2. A = Ahead(w, p + 1, ph)
  BY <1>1 DEF Ahead, Alive
<1>3. IsFiniteSet(A) /\ Cardinality(A) \in Nat
  <2>1. p + 1 \in Nat
    BY <1>1
  <2>2. /\ IsFiniteSet(Ahead(w, p + 1, ph))
        /\ Cardinality(Ahead(w, p + 1, ph)) \in Nat
    BY <2>1, AheadFinite
  <2> QED
    BY <1>2, <2>2
<1>4. Cardinality(A) <= n
  <2>1. CASE p = 0
    <3>1. A = {}
      BY <1>1, <2>1 DEF Alive
    <3> QED
      BY <3>1, FS_EmptySet
  <2>2. CASE p # 0
    <3>1. p \in P /\ p \in 1..Len(w)
      BY <1>1, <2>2
    <3>2. Cardinality(Ahead(w, p, ph)) < n
      BY <1>1, <3>1
    <3>3. IsFiniteSet(Ahead(w, p, ph)) /\ Cardinality(Ahead(w, p, ph)) \in Nat
      BY <3>1, AheadFinite
    <3> DEFINE B == Ahead(w, p, ph)
    <3>4. A \in SUBSET (B \union {p})
      BY <1>1, <1>2, <3>1 DEF Ahead
    <3>b. IsFiniteSet(B)
      BY <3>3
    <3> HIDE DEF B
    <3>5. IsFiniteSet(B \union {p}) /\ Cardinality(B \union {p}) <= Cardinality(B) + 1
      <4>1. Cardinality(B) \in Nat
        BY <3>b, FS_CardinalityType
      <4>2. /\ IsFiniteSet(B \union {p})
            /\ Cardinality(B \union {p}) =
                 IF p \in B THEN Cardinality(B) ELSE Cardinality(B) + 1
        BY <3>b, FS_AddElement
      <4> QED
        BY <4>1, <4>2
    <3>6. Cardinality(B \union {p}) \in Nat
      BY <3>5, FS_CardinalityType
    <3>7. Cardinality(A) <= Cardinality(B \union {p})
      BY <3>4, <3>5, FS_Subset
    <3> QED
      BY <1>3, <3>2, <3>3, <3>5, <3>6, <3>7 DEF B
  <2> QED
    BY <2>1, <2>2
<1>5. p < Len(w) => Cardinality(A) >= n
  <2> SUFFICES ASSUME p < Len(w) PROVE Cardinality(A) >= n
    OBVIOUS
  <2>1. p + 1 \in 1..Len(w) /\ p + 1 \notin P
    BY <1>1
  <2>2. ~(Cardinality(A) < n)
    BY <1>1, <1>2, <2>1
  <2> QED
    BY <1>3, <2>2
<1> QED
  BY <1>3, <1>4, <1>5 DEF p

(* A drain of one relay's queue keeps its slots in order. *)
LEMMA DrainOne ==
  ASSUME NEW u \in Url, NEW w, NEW ph, NEW n, Slotted(w, n, u, ph),
         NEW P, P = Passed(w, Limit - n, ph),
         NEW A, A = Alive(w, P, ph), NEW T, T = Started(w, P, ph),
         NEW after, Opens(T, u, ph, after)
  PROVE  /\ Slotted(SubSeq(w, Cardinality(P) + 1, Len(w)), n + Cardinality(A), u, after)
         /\ SubSeq(w, Cardinality(P) + 1, Len(w)) # <<>> => n + Cardinality(A) = Limit
<1> DEFINE p == Cardinality(P)
           rest == SubSeq(w, p + 1, Len(w))
<1>a. A = {i \in P : ph[w[i]] = "queued"} /\ T = {w[i] : i \in A}
  BY DEF Alive, Started
<1>b. \A l \in Asked : l[2] = u => after[l] = (IF l \in T THEN "open" ELSE ph[l])
  BY DEF Opens
<1>1. /\ w \in Seq(Asked) /\ Len(w) \in Nat
      /\ \A i \in 1..Len(w) : w[i] \in Asked /\ w[i][2] = u /\ ph[w[i]] \in {"queued", "closed"}
      /\ \A i \in 1..Len(w) : \A j \in 1..Len(w) : w[i] = w[j] => i = j
  BY DEF Slotted, Queued
<1>2. n \in Nat /\ Limit - n \in Nat /\ Limit \in Nat /\ n = Cardinality(Holding(u, ph))
  BY HoldingFinite, PoolConstants DEF Slotted
<1>3. p \in 0..Len(w) /\ P = 1..p
  BY <1>1, <1>2, PassedIsPrefix
<1>4. /\ IsFiniteSet(A) /\ Cardinality(A) \in Nat /\ Cardinality(A) <= Limit - n
      /\ p < Len(w) => Cardinality(A) = Limit - n
  <2> DEFINE room == Limit - n
  <2>1. room \in Nat /\ P = Passed(w, room, ph)
    BY <1>2
  <2> HIDE DEF room
  <2>2. /\ IsFiniteSet(A) /\ Cardinality(A) \in Nat /\ Cardinality(A) <= room
        /\ Cardinality(P) < Len(w) => Cardinality(A) = room
    BY <1>1, <2>1, RoomIsFilled
  <2> QED
    BY <2>2 DEF room
<1> HIDE DEF p
<1>5. /\ rest \in Seq(Asked) /\ Len(rest) = Len(w) - p
      /\ \A i \in 1..Len(rest) : rest[i] = w[p + i]
  <2>1. \A i \in (p + 1)..Len(w) : w[i] \in Asked
    BY <1>1, <1>3
  <2> QED
    BY <1>1, <1>3, <2>1, SubSeqProperties
<1> HIDE DEF rest
<1>6. ASSUME NEW i \in 1..Len(rest)
      PROVE  rest[i][2] = u /\ after[rest[i]] \in {"queued", "closed"}
  <2>1. p + i \in 1..Len(w) /\ p + i \notin P /\ rest[i] = w[p + i]
    BY <1>1, <1>3, <1>5
  <2>2. w[p + i] \notin T
    BY <1>a, <1>1, <1>3, <2>1
  <2> QED
    BY <1>b, <1>1, <2>1, <2>2
<1>7. ASSUME NEW i \in 1..Len(rest), NEW j \in 1..Len(rest), rest[i] = rest[j] PROVE i = j
  <2>1. p + i \in 1..Len(w) /\ p + j \in 1..Len(w) /\ w[p + i] = w[p + j]
    BY <1>1, <1>3, <1>5, <1>7
  <2>2. p + i = p + j
    BY <1>1, <2>1
  <2> QED
    BY <1>3, <2>2
<1>8. Queued(rest, u, after)
  BY <1>5, <1>6, <1>7 DEF Queued
<1>9. IsFiniteSet(T) /\ Cardinality(T) = Cardinality(A)
  <2> DEFINE f == [i \in A |-> w[i]]
  <2>1. f \in Bijection(A, T)
    BY <1>a, <1>1, <1>3 DEF Bijection, Injection, Surjection, IsInjective
  <2>2. ExistsBijection(A, T)
    BY <2>1 DEF ExistsBijection
  <2> QED
    BY <1>4, <2>2, FS_Bijection
<1>10. Holding(u, after) = Holding(u, ph) \union T /\ Holding(u, ph) \intersect T = {}
  <2>1. \A l \in T : l \in Asked /\ l[2] = u /\ ph[l] = "queued"
    BY <1>a, <1>1, <1>3
  <2> QED
    BY <1>b, <2>1 DEF Holding
<1>11. Cardinality(Holding(u, after)) = n + Cardinality(A)
  <2>1. Cardinality(Holding(u, ph) \intersect T) = 0
    BY <1>10, FS_EmptySet
  <2>2. IsFiniteSet(Holding(u, ph))
    BY HoldingFinite
  <2>3. Cardinality(Holding(u, after))
          = Cardinality(Holding(u, ph)) + Cardinality(T) - Cardinality(Holding(u, ph) \intersect T)
    BY <1>9, <1>10, <2>2, FS_Union
  <2> QED
    BY <1>2, <1>4, <1>9, <2>1, <2>3
<1>12. rest # <<>> => n + Cardinality(A) = Limit
  <2>1. p = Len(w) => rest = <<>>
    BY <1>5, EmptySeq
  <2> QED
    BY <1>1, <1>2, <1>3, <1>4, <2>1
<1> QED
  BY <1>2, <1>4, <1>8, <1>11, <1>12 DEF Slotted, p, rest

LEMMA DrainKeepsSlots ==
  ASSUME NEW waiting, NEW n, NEW before \in [Logical -> Phase], Drain(waiting, n, before),
         \A u \in Url : Slotted(waiting[u], n[u], u, before)
  PROVE  SlotInv'
<1> DEFINE passed == [u \in Url |-> Passed(waiting[u], Limit - n[u], before)]
           alive == [u \in Url |-> {i \in passed[u] : before[waiting[u][i]] = "queued"}]
           taken(u) == {waiting[u][i] : i \in alive[u]}
           started == UNION {taken(u) : u \in Url}
<1>1. /\ queue' = [u \in Url |->
             SubSeq(waiting[u], Cardinality(passed[u]) + 1, Len(waiting[u]))]
      /\ active' = [u \in Url |-> n[u] + Cardinality(alive[u])]
      /\ phase' = [l \in Logical |-> IF l \in started THEN "open" ELSE before[l]]
  BY DEF Drain
<1>2. ASSUME NEW u \in Url PROVE \A l \in taken(u) : l[2] = u
  <2>1. Slotted(waiting[u], n[u], u, before)
    OBVIOUS
  <2>2. alive[u] \subseteq 1..Len(waiting[u])
    BY DEF Passed
  <2> QED
    BY <2>1, <2>2 DEF Slotted, Queued
<1>3. ASSUME NEW u \in Url
      PROVE  Slotted(queue[u], active[u], u, phase)' /\ (queue[u] # <<>> => active[u] = Limit)'
  <2> DEFINE P == passed[u]
             A == alive[u]
             T == taken(u)
  <2>1. P = Passed(waiting[u], Limit - n[u], before)
    OBVIOUS
  <2>2. A = {i \in P : before[waiting[u][i]] = "queued"} /\ T = {waiting[u][i] : i \in A}
    OBVIOUS
  <2>3. ASSUME NEW l \in Asked, l[2] = u
        PROVE  phase'[l] = (IF l \in T THEN "open" ELSE before[l])
    <3>1. l \in started <=> l \in T
      BY <1>2, <2>3
    <3> QED
      BY <1>1, <3>1 DEF Logical
  <2>4. queue'[u] = SubSeq(waiting[u], Cardinality(P) + 1, Len(waiting[u]))
    BY <1>1
  <2>5. active'[u] = n[u] + Cardinality(A)
    BY <1>1
  <2>6. Slotted(waiting[u], n[u], u, before)
    OBVIOUS
  <2> DEFINE w == waiting[u]
             m == n[u]
             after == phase'
  <2>a. /\ Slotted(w, m, u, before) /\ P = Passed(w, Limit - m, before)
        /\ A = Alive(w, P, before) /\ T = Started(w, P, before) /\ Opens(T, u, before, after)
    BY <2>1, <2>2, <2>3, <2>6 DEF Alive, Started, Opens
  <2>b. queue'[u] = SubSeq(w, Cardinality(P) + 1, Len(w)) /\ active'[u] = m + Cardinality(A)
    BY <2>4, <2>5
  <2> HIDE DEF P, A, T, w, m, after
  <2>c. /\ Slotted(SubSeq(w, Cardinality(P) + 1, Len(w)), m + Cardinality(A), u, after)
        /\ SubSeq(w, Cardinality(P) + 1, Len(w)) # <<>> => m + Cardinality(A) = Limit
    BY <2>a, DrainOne
  <2>7. /\ Slotted(queue'[u], active'[u], u, phase')
        /\ queue'[u] # <<>> => active'[u] = Limit
    BY <2>b, <2>c DEF after
  <2> QED
    BY <2>7 DEF Slotted, Queued, Holding
<1>4. queue' = [u \in Url |-> queue'[u]] /\ active' = [u \in Url |-> active'[u]]
  BY <1>1
<1> QED
  BY <1>3, <1>4 DEF SlotInv

(* What no drain does to the phases: a query that waits is closed, one     *)
(* that runs is ending, nothing else happens to a query.                   *)
Ends(l) ==
  \/ phase'[l] = phase[l]
  \/ phase[l] = "queued" /\ phase'[l] = "closed"
  \/ phase[l] = "open" /\ phase'[l] = "ending"
NoStart == \A l \in Asked : Ends(l)

LEMMA EndsKeepSlots ==
  ASSUME SlotInv, NoStart, UNCHANGED active, queue' = queue \/ queue' = [u \in Url |-> <<>>]
  PROVE  SlotInv'
<1>1. ASSUME NEW u \in Url PROVE Slotted(queue[u], active[u], u, phase)'
  <2>1. Slotted(queue[u], active[u], u, phase)
    BY DEF SlotInv
  <2>2. Holding(u, phase') = Holding(u, phase)
    BY DEF Holding, NoStart, Ends
  <2>3. Queued(queue'[u], u, phase')
    <3>1. CASE queue' = queue
      <4>1. /\ queue[u] \in Seq(Asked)
            /\ \A i \in 1..Len(queue[u]) : queue[u][i] \in Asked
        BY <2>1 DEF Slotted, Queued
      <4> QED
        BY <2>1, <3>1, <4>1 DEF Slotted, Queued, NoStart, Ends
    <3>2. CASE queue' = [v \in Url |-> <<>>]
      <4>1. queue'[u] = <<>> /\ <<>> \in Seq(Asked) /\ Len(<<>>) = 0
        BY <3>2
      <4> QED
        BY <4>1 DEF Queued
    <3> QED
      BY <3>1, <3>2
  <2>4. Slotted(queue'[u], active'[u], u, phase')
    BY <2>1, <2>2, <2>3 DEF Slotted
  <2> QED
    BY <2>4 DEF Slotted, Queued, Holding
<1>2. \A u \in Url : (queue[u] # <<>> => active[u] = Limit)'
  BY DEF SlotInv
<1>3. (queue = [u \in Url |-> queue[u]] /\ active = [u \in Url |-> active[u]])'
  BY DEF SlotInv
<1> QED
  BY <1>1, <1>2, <1>3 DEF SlotInv

LEMMA CloseEnds ==
  ASSUME NEW closed, NEW told, NEW c, NEW links, Close(closed, told, c, links),
         \A l \in closed \intersect Asked : phase[l] \in {"queued", "open"}
  PROVE  NoStart
<1> SUFFICES ASSUME NEW l \in Asked PROVE Ends(l)
  BY DEF NoStart
<1>1. phase'[l] = IF l \in closed THEN Closed(l) ELSE phase[l]
  BY DEF Close, Logical
<1> QED
  BY <1>1 DEF Ends, Closed

LEMMA SettleEnds == ASSUME NEW c, NEW links, Settle(c, links) PROVE NoStart
<1> DEFINE done == {l \in Logical : /\ phase[l] = "open"
                                    /\ AllEnded(links, l) /\ ~AllEnded(link, l)}
<1>1. Close(done \ Live, done, c, links) /\ \A l \in done : phase[l] = "open"
  BY DEF Settle
<1> HIDE DEF done
<1> QED
  BY <1>1, CloseEnds

LEMMA CancelEnds == ASSUME NEW L, NEW c, Cancel(L, c) PROVE NoStart
<1> DEFINE closed == {l \in L : phase[l] \in {"queued", "open"}}
<1>1. Close(closed, Told(closed), c, link) /\ \A l \in closed : phase[l] \in {"queued", "open"}
  BY DEF Cancel
<1> HIDE DEF closed
<1> QED
  BY <1>1, CloseEnds

LEMMA AskSlots ==
  ASSUME SlotInv, phase \in [Logical -> Phase], NEW q \in Query, AskQuery(q) PROVE SlotInv'
<1> DEFINE asked == {<<q, u>> : u \in UrlsOf[q]}
           waiting == [u \in Url |-> IF u \in UrlsOf[q] THEN Append(queue[u], <<q, u>>)
                                                       ELSE queue[u]]
           before == [l \in Logical |-> IF l \in asked THEN "queued" ELSE phase[l]]
<1>1. /\ \A l \in asked : phase[l] = "idle"
      /\ Drain(waiting, active, before)
  BY DEF AskQuery
<1>2. before \in [Logical -> Phase]
  BY DEF Phase
<1>3. ASSUME NEW u \in Url PROVE Slotted(waiting[u], active[u], u, before)
  <2>1. Slotted(queue[u], active[u], u, phase)
    BY DEF SlotInv
  <2>2. /\ queue[u] \in Seq(Asked) /\ Len(queue[u]) \in Nat
        /\ \A i \in 1..Len(queue[u]) :
             /\ queue[u][i] \in Asked /\ queue[u][i][2] = u
             /\ phase[queue[u][i]] \in {"queued", "closed"}
        /\ \A i \in 1..Len(queue[u]) : \A j \in 1..Len(queue[u]) :
             queue[u][i] = queue[u][j] => i = j
    BY <2>1 DEF Slotted, Queued
  <2>3. \A l \in Asked : before[l] = IF l \in asked THEN "queued" ELSE phase[l]
    BY DEF Logical
  <2>4. Holding(u, before) = Holding(u, phase)
    BY <1>1, <2>3 DEF Holding
  <2>5. \A i \in 1..Len(queue[u]) : queue[u][i] \notin asked
    BY <1>1, <2>2
  <2>6. CASE u \in UrlsOf[q]
    <3> DEFINE e == <<q, u>>
               w == waiting[u]
               old == queue[u]
    <3>1. e \in Asked /\ e[2] = u /\ e \in asked
      BY <2>6 DEF Asked, Entry
    <3>2. before[e] = "queued"
      BY <2>3, <3>1
    <3>3. w = Append(old, e)
      BY <2>6
    <3>4. /\ old \in Seq(Asked) /\ Len(old) \in Nat
          /\ \A i \in 1..Len(old) :
             /\ old[i] \in Asked /\ old[i][2] = u /\ before[old[i]] \in {"queued", "closed"}
             /\ old[i] # e
          /\ \A i \in 1..Len(old) : \A j \in 1..Len(old) : old[i] = old[j] => i = j
      BY <2>2, <2>3, <2>5, <3>1
    <3> HIDE DEF e, w, old, before
    <3>5. /\ w \in Seq(Asked) /\ Len(w) = Len(old) + 1
          /\ \A i \in 1..Len(old) : w[i] = old[i]
          /\ w[Len(old) + 1] = e
      BY <3>1, <3>3, <3>4, AppendProperties
    <3>6. \A i \in 1..Len(w) : i \in 1..Len(old) \/ i = Len(old) + 1
      BY <3>4, <3>5
    <3>7. \A i \in 1..Len(w) : w[i][2] = u /\ before[w[i]] \in {"queued", "closed"}
      BY <3>1, <3>2, <3>4, <3>5, <3>6
    <3>8. \A i \in 1..Len(w) : \A j \in 1..Len(w) : w[i] = w[j] => i = j
      BY <3>4, <3>5, <3>6
    <3>9. Queued(w, u, before)
      BY <3>5, <3>7, <3>8 DEF Queued
    <3> QED
      BY <2>1, <2>4, <3>9 DEF Slotted, w
  <2>7. CASE u \notin UrlsOf[q]
    <3>1. waiting[u] = queue[u]
      BY <2>7
    <3>2. \A i \in 1..Len(queue[u]) : before[queue[u][i]] = phase[queue[u][i]]
      BY <2>2, <2>3, <2>5
    <3> HIDE DEF waiting, before
    <3>3. Queued(waiting[u], u, before)
      BY <2>2, <3>1, <3>2 DEF Queued
    <3> QED
      BY <2>1, <2>4, <3>3 DEF Slotted
  <2> QED
    BY <2>6, <2>7
<1> HIDE DEF waiting, before
<1> QED
  BY <1>1, <1>2, <1>3, DrainKeepsSlots

LEMMA ReleaseSlots ==
  ASSUME SlotInv, phase \in [Logical -> Phase], NEW l \in Logical, Release(l) PROVE SlotInv'
<1> DEFINE before == [phase EXCEPT ![l] = "closed"]
           n == [active EXCEPT ![l[2]] = @ - 1]
<1>1. l \in Asked /\ phase[l] = "ending" /\ Drain(queue, n, before)
  BY DEF Release
<1>2. l[2] \in Url
  BY <1>1 DEF Asked, Entry
<1>3. before \in [Logical -> Phase]
  BY DEF Phase
<1>4. \A m \in Asked : before[m] = IF m = l THEN "closed" ELSE phase[m]
  BY DEF Logical
<1>5. ASSUME NEW u \in Url PROVE Slotted(queue[u], n[u], u, before)
  <2>1. Slotted(queue[u], active[u], u, phase)
    BY DEF SlotInv
  <2>2. /\ queue[u] \in Seq(Asked)
        /\ \A i \in 1..Len(queue[u]) : queue[u][i] \in Asked /\ queue[u][i][2] = u
        /\ \A i \in 1..Len(queue[u]) : phase[queue[u][i]] \in {"queued", "closed"}
        /\ \A i \in 1..Len(queue[u]) : \A j \in 1..Len(queue[u]) :
             queue[u][i] = queue[u][j] => i = j
    BY <2>1 DEF Slotted, Queued
  <2>3. \A i \in 1..Len(queue[u]) : before[queue[u][i]] \in {"queued", "closed"}
    BY <1>4, <2>2
  <2> HIDE DEF before
  <2>4. Queued(queue[u], u, before)
    BY <2>2, <2>3 DEF Queued
  <2>5. n[u] = IF u = l[2] THEN active[u] - 1 ELSE active[u]
    <3>1. active = [v \in Url |-> active[v]]
      BY DEF SlotInv
    <3> QED
      BY <1>2, <3>1
  <2>6. Cardinality(Holding(u, before))
          = IF u = l[2] THEN Cardinality(Holding(u, phase)) - 1 ELSE Cardinality(Holding(u, phase))
    <3>1. CASE u = l[2]
      <4>1. Holding(u, before) = Holding(u, phase) \ {l} /\ l \in Holding(u, phase)
        BY <1>1, <1>4, <3>1 DEF Holding
      <4> QED
        <5> DEFINE H == Holding(u, phase)
        <5>1. IsFiniteSet(H)
          BY HoldingFinite
        <5>2. l \in H /\ Holding(u, before) = H \ {l}
          BY <4>1
        <5> HIDE DEF H
        <5>3. Cardinality(H \ {l}) = Cardinality(H) - 1
          BY <5>1, <5>2, FS_RemoveElement
        <5> QED
          BY <3>1, <5>2, <5>3 DEF H
    <3>2. CASE u # l[2]
      <4>1. Holding(u, before) = Holding(u, phase)
        BY <1>4, <3>2 DEF Holding
      <4> QED
        BY <3>2, <4>1
    <3> QED
      BY <3>1, <3>2
  <2>7. n[u] = Cardinality(Holding(u, before)) /\ n[u] <= Limit
    <3>1. /\ active[u] = Cardinality(Holding(u, phase)) /\ active[u] <= Limit
          /\ active[u] \in Nat /\ Limit \in Nat
      BY <2>1, HoldingFinite, PoolConstants DEF Slotted
    <3> QED
      BY <2>5, <2>6, <3>1
  <2> QED
    BY <2>4, <2>7 DEF Slotted
<1> HIDE DEF before, n
<1> QED
  BY <1>1, <1>3, <1>5, DrainKeepsSlots

(* Everything else ends queries or leaves them alone. *)
LEMMA SlotStep == ASSUME SlotInv, phase \in [Logical -> Phase], [Next]_vars PROVE SlotInv'
<1> USE DEF Relink, slots, subs
<1>0. ASSUME UNCHANGED phase PROVE NoStart
  BY <1>0 DEF NoStart, Ends
<1>1. ASSUME NEW u \in Url,
             \/ Runs(u) \/ SocketCloses(u) \/ SendFails(u) \/ Publish(u) \/ PublishTimesOut(u)
             \/ ForgetIdle(u) \/ Outage(u)
      PROVE  NoStart /\ UNCHANGED slots
  BY <1>0, <1>1, SettleEnds DEF Runs, Connected, ConnectFails, RetryRings, AuthSucceeds, AuthFails,
     AuthDrops, SocketCloses, SendFails, Publish, PublishTimesOut, ForgetIdle, Outage
<1>2. ASSUME NEW l \in Logical, NEW u \in Urls(l),
             Reads(l, u) \/ RelayClosesForAuth(l, u) \/ RelayCloses(l, u)
      PROVE  NoStart /\ UNCHANGED slots
  BY <1>2, SettleEnds DEF Reads, Rejected, ConnectTimeout, Eose, RetrySubscription,
     RelayClosesForAuth, RelayCloses
<1>3. ASSUME NEW l \in Logical, Subscribe(l) PROVE NoStart /\ UNCHANGED slots
  <2>1. l \in Live /\ phase' = [phase EXCEPT ![l] = "open"] /\ UNCHANGED slots
    BY <1>3 DEF Subscribe
  <2>2. l \notin Asked
    BY <2>1, PoolConstants DEF Asked, Entry
  <2> QED
    BY <2>1, <2>2 DEF NoStart, Ends, Logical
<1>4. ASSUME (\E l \in Logical : Unsubscribe(l)) \/ (\E q \in Query : AbortQuery(q))
      PROVE  NoStart /\ UNCHANGED slots
  BY <1>4, CancelEnds DEF Unsubscribe, AbortQuery
<1>5. ASSUME NetworkChanges \/ FirstSnapshot \/ EnterForeground PROVE NoStart /\ UNCHANGED slots
  BY <1>0, <1>5, SettleEnds DEF NetworkChanges, FirstSnapshot, EnterForeground, NetworkLost, Recover
<1>6. ASSUME UNCHANGED vars PROVE NoStart /\ UNCHANGED slots
  BY <1>0, <1>6 DEF vars
<1>7. ASSUME Destroy PROVE SlotInv'
  <2>1. NoStart /\ UNCHANGED active /\ queue' = [u \in Url |-> <<>>]
    BY <1>7, CancelEnds DEF Destroy
  <2> QED
    BY <2>1, EndsKeepSlots
<1>8. NoStart /\ UNCHANGED slots => SlotInv'
  BY EndsKeepSlots
<1> QED
  BY <1>1, <1>2, <1>3, <1>4, <1>5, <1>6, <1>7, <1>8, AskSlots, ReleaseSlots DEF Next

LEMMA SlotInit == Init => SlotInv
<1> SUFFICES ASSUME Init PROVE SlotInv
  OBVIOUS
<1>1. ASSUME NEW u \in Url PROVE Slotted(queue[u], active[u], u, phase) /\ queue[u] = <<>>
  <2>1. queue[u] = <<>> /\ active[u] = 0 /\ \A l \in Logical : phase[l] = "idle"
    BY <1>1 DEF Init
  <2>2. Holding(u, phase) = {}
    BY <2>1 DEF Holding, Logical
  <2>3. Cardinality(Holding(u, phase)) = 0
    BY <2>2, FS_EmptySet
  <2>4. <<>> \in Seq(Asked) /\ Len(<<>>) = 0 /\ 0 <= Limit
    BY PoolConstants
  <2> QED
    BY <2>1, <2>3, <2>4 DEF Slotted, Queued
<1> QED
  BY <1>1 DEF SlotInv, Init

LEMMA SlotsCorrect == Spec => []SlotInv
<1>1. PoolInv => phase \in [Logical -> Phase]
  BY DEF PoolInv, TypeInv
<1>2. SlotInv /\ PoolInv /\ [Next]_vars => SlotInv'
  BY <1>1, SlotStep
<1> QED
  BY <1>2, SlotInit, PoolCorrect, PTL DEF Spec

(* The slots of a relay that are taken are those of the queries that run,  *)
(* never more than its limit, and a query waits only when all are taken:   *)
(* whatever is aborted, fails or is destroyed in between.                  *)
THEOREM SlotsAreTheirs == Spec => []SlotsAreUsed
<1>1. SlotInv => SlotsAreUsed
  BY DEF SlotInv, Slotted, Holding, SlotsAreUsed
<1> QED
  BY <1>1, SlotsCorrect, PTL
=============================================================================
