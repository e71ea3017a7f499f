--------------------- MODULE SubscriptionDispatcherProofs ---------------------
(***************************************************************************)
(* Theorems about the dispatcher of subscriptions, for every set of        *)
(* upstreams and pools, every size of a pool and of its queue, and every   *)
(* number of announcements, requests and connections that end.             *)
(***************************************************************************)
EXTENDS SubscriptionDispatcher, TLAPS

Bounds == {"announcements", "requests", "deaths"}

\* A pool that is being opened has an upstream.
SpawningHasUrl == \A p \in Pools : pool[p].spawning => pool[p].url \in Urls

\* The dispatcher waits only for the queue of an upstream that is in the map.
BlockedRouted == blocked # NoUrl => upstreams[blocked] # NoPool

\* A request is put into a queue of its own upstream, and only into one that
\* is open: no pool serves two upstreams.
QueueOfUpstream ==
  \A u \in Urls : upstreams[u] # NoPool =>
    pool[upstreams[u]].url = u /\ ~ pool[upstreams[u]].spawning

\* OnlineRouted and the types need what a pool under way and a blocked send
\* are about.
DispatcherInv ==
  TypeOK /\ SpawningHasUrl /\ BlockedRouted /\ QueueOfUpstream /\ OnlineRouted

-----------------------------------------------------------------------------
\* Spending a bound leaves a natural number.
LEMMA SpendType ==
  ASSUME TypeOK, NEW b \in Bounds, Spend(b)
  PROVE  left' \in [Bounds -> Nat]
BY DEF TypeOK, Spend, Bounds

\* A pool that was never opened is one.
LEMMA FreePool == Free \in Pool /\ ~ Free.spawning /\ Free.url = NoUrl
BY DEF Free, Pool

\* A pool with some of its fields changed.
LEMMA PoolChange ==
  ASSUME NEW q \in Pool, NEW n, NEW b \in BOOLEAN
  PROVE  /\ [q EXCEPT !.queue = n] =
              [url |-> q.url, spawning |-> q.spawning, left |-> q.left,
               live |-> q.live, queue |-> n]
         /\ [q EXCEPT !.live = n] =
              [url |-> q.url, spawning |-> q.spawning, left |-> q.left,
               live |-> n, queue |-> q.queue]
         /\ [q EXCEPT !.spawning = b] =
              [url |-> q.url, spawning |-> b, left |-> q.left,
               live |-> q.live, queue |-> q.queue]
BY DEF Pool

\* The record of a pool after a handshake has ended.
LEMMA PoolHandshake ==
  ASSUME NEW q \in Pool, NEW n, NEW m
  PROVE  [q EXCEPT !.left = n, !.live = m] =
           [url |-> q.url, spawning |-> q.spawning, left |-> n,
            live |-> m, queue |-> q.queue]
<1> DEFINE s == [url |-> q.url, spawning |-> q.spawning, left |-> n,
                 live |-> q.live, queue |-> q.queue]
<1>1. [q EXCEPT !.left = n] = s
  BY DEF Pool
<1>2. [s EXCEPT !.live = m] =
        [url |-> q.url, spawning |-> q.spawning, left |-> n,
         live |-> m, queue |-> q.queue]
  OBVIOUS
<1>3. QED
  BY <1>1, <1>2, Zenon

\* The record of a pool whose opening has started or ended.
LEMMA PoolOpened ==
  ASSUME NEW q \in Pool, NEW n, NEW m, NEW b \in BOOLEAN
  PROVE  [q EXCEPT !.url = m, !.spawning = b, !.left = n] =
           [url |-> m, spawning |-> b, left |-> n,
            live |-> q.live, queue |-> q.queue]
<1> DEFINE s == [url |-> m, spawning |-> q.spawning, left |-> q.left,
                 live |-> q.live, queue |-> q.queue]
           t == [url |-> m, spawning |-> b, left |-> q.left,
                 live |-> q.live, queue |-> q.queue]
<1>1. [q EXCEPT !.url = m] = s
  BY DEF Pool
<1>2. [s EXCEPT !.spawning = b] = t
  OBVIOUS
<1>3. [t EXCEPT !.left = n] = [url |-> m, spawning |-> b, left |-> n,
                               live |-> q.live, queue |-> q.queue]
  OBVIOUS
<1>4. QED
  BY <1>1, <1>2, <1>3, Zenon

\* The invariant holds at the start.
LEMMA DispatcherInit == Init => DispatcherInv
<1> SUFFICES ASSUME Init PROVE DispatcherInv
  OBVIOUS
<1>1. pool \in [Pools -> Pool] /\ \A p \in Pools : pool[p] = Free
  BY FreePool DEF Init
<1>2. \A p \in Pools : /\ pool[p].live + pool[p].left <= ConnectionsPerUpstream
                       /\ pool[p].queue <= QueueCapacity
  BY <1>1, DispatcherAssumption DEF Free
<1>3. left \in [Bounds -> Nat]
  BY DispatcherAssumption DEF Init, Bounds
<1>4. upstreams \in [Urls -> Pools \cup {NoPool}]
  BY DEF Init
<1>5. last \in [Urls -> {"unknown", "online", "offline", "dead"}]
  BY DEF Init
<1>6. /\ startup \in Seq(Urls) /\ states \in Seq(WsUpstreamState)
      /\ requests \in Seq(Urls)
  BY DispatcherAssumption DEF Init
<1>7. permit \in BOOLEAN /\ started \in BOOLEAN /\ ready \in BOOLEAN
  BY DEF Init
<1>8. TypeOK
  BY <1>1, <1>2, <1>3, <1>4, <1>5, <1>6, <1>7 DEF Init, TypeOK, Bounds
<1>9. SpawningHasUrl /\ BlockedRouted /\ QueueOfUpstream
  BY <1>1, FreePool DEF Init, SpawningHasUrl, BlockedRouted, QueueOfUpstream
<1>10. OnlineRouted
  BY DEF Init, OnlineRouted
<1>11. QED
  BY <1>8, <1>9, <1>10 DEF DispatcherInv

\* What the steps of the dispatcher may do to one pool: its upstream and
\* whether it is open stay as they are.
SamePools ==
  \A p \in Pools : pool'[p].url = pool[p].url
                     /\ pool'[p].spawning = pool[p].spawning

\* A step that leaves the map, what was announced and the pools' upstreams
\* alone keeps what the invariant says of them.
LEMMA KeepsRoutes ==
  ASSUME DispatcherInv, SamePools, TypeOK',
         UNCHANGED <<upstreams, last>>,
         blocked' # NoUrl => upstreams[blocked'] # NoPool
  PROVE  DispatcherInv'
<1>1. SpawningHasUrl'
  BY DEF DispatcherInv, SamePools, SpawningHasUrl
<1>2. BlockedRouted'
  BY DEF BlockedRouted
<1>3. QueueOfUpstream'
  <2>1. ASSUME NEW u \in Urls, upstreams[u] # NoPool
        PROVE  /\ pool'[upstreams[u]].url = u
               /\ ~ pool'[upstreams[u]].spawning
    <3>1. upstreams[u] \in Pools
      BY <2>1 DEF DispatcherInv, TypeOK
    <3>2. QED
      BY <2>1, <3>1 DEF DispatcherInv, SamePools, QueueOfUpstream
  <2>2. QED
    BY <2>1 DEF QueueOfUpstream
<1>4. OnlineRouted'
  BY DEF DispatcherInv, SamePools, OnlineRouted, Spawning
<1>5. QED
  BY <1>1, <1>2, <1>3, <1>4 DEF DispatcherInv

\* The routing table and the handlers only fill channels.
LEMMA ChannelSteps ==
  ASSUME DispatcherInv,
         \/ Constructor
         \/ \E u \in Urls : Request(u) \/ \E b \in BOOLEAN : Announce(u, b)
  PROVE  DispatcherInv'
<1> USE DEF DispatcherInv
<1>1. ASSUME AnnounceStartup PROVE TypeOK' /\ UNCHANGED <<upstreams, pool, blocked, last>>
  <2>1. Head(startup) \in Urls /\ Tail(startup) \in Seq(Urls)
    BY <1>1 DEF TypeOK, AnnounceStartup
  <2>2. [url |-> Head(startup), is_online |-> TRUE] \in WsUpstreamState
    BY <2>1 DEF WsUpstreamState
  <2>3. QED
    BY <1>1, <2>1, <2>2 DEF TypeOK, AnnounceStartup
<1>2. ASSUME NEW u \in Base, Start(u)
      PROVE  TypeOK' /\ UNCHANGED <<upstreams, pool, blocked, last>>
  <2>1. u \in Urls
    BY DispatcherAssumption
  <2>2. requests' \in Seq(Urls)
    BY <1>2, <2>1 DEF TypeOK, Start
  <2>3. QED
    BY <1>2, <2>2 DEF TypeOK, Start
<1>3. ASSUME NEW u \in Urls, NEW b \in BOOLEAN, Announce(u, b)
      PROVE  TypeOK' /\ UNCHANGED <<upstreams, pool, blocked, last>>
  <2>1. [url |-> u, is_online |-> b] \in WsUpstreamState
    BY DEF WsUpstreamState
  <2>2. left' \in [Bounds -> Nat]
    BY <1>3, SpendType DEF Announce, Bounds
  <2>3. QED
    BY <1>3, <2>1, <2>2 DEF TypeOK, Announce, routes, Bounds
<1>4. ASSUME NEW u \in Urls, Request(u)
      PROVE  TypeOK' /\ UNCHANGED <<upstreams, pool, blocked, last>>
  <2>1. left' \in [Bounds -> Nat]
    BY <1>4, SpendType DEF Request, Bounds
  <2>2. QED
    BY <1>4, <2>1 DEF TypeOK, Request, routes, Bounds
<1>5. TypeOK' /\ UNCHANGED <<upstreams, pool, blocked, last>>
  BY <1>1, <1>2, <1>3, <1>4 DEF Constructor
<1>6. QED
  BY <1>5, KeepsRoutes DEF SamePools, BlockedRouted

-----------------------------------------------------------------------------
(* The dispatcher                                                          *)

\* An upstream is taken out of the map together with what was announced.
LEMMA Offline ==
  ASSUME DispatcherInv, StateOffline
  PROVE  DispatcherInv'
<1> USE DEF DispatcherInv
<1> DEFINE u == Head(states).url
<1>1. u \in Urls /\ Tail(states) \in Seq(WsUpstreamState)
  <2>1. Head(states) \in WsUpstreamState /\ Tail(states) \in Seq(WsUpstreamState)
    BY DEF TypeOK, StateOffline
  <2>2. QED
    BY <2>1 DEF WsUpstreamState
<1>2. /\ upstreams' = [upstreams EXCEPT ![u] = NoPool]
      /\ last' = [last EXCEPT ![u] = "offline"]
      /\ blocked = NoUrl /\ states' = Tail(states)
      /\ UNCHANGED <<routes, requests, pool, blocked, ready, left>>
  BY DEF StateOffline
<1> HIDE DEF u
<1>3. TypeOK'
  BY <1>1, <1>2 DEF TypeOK, routes
<1>4. SpawningHasUrl' /\ BlockedRouted'
  BY <1>2 DEF SpawningHasUrl, BlockedRouted
<1>5. QueueOfUpstream'
  BY <1>1, <1>2 DEF QueueOfUpstream, TypeOK
<1>6. OnlineRouted'
  BY <1>1, <1>2 DEF OnlineRouted, TypeOK, Spawning
<1>7. QED
  BY <1>3, <1>4, <1>5, <1>6

\* An upstream that comes online is in the map, or its pool is being opened.
LEMMA Online ==
  ASSUME DispatcherInv, StateOnline
  PROVE  DispatcherInv'
<1> USE DEF DispatcherInv
<1> DEFINE u == Head(states).url
           new == CHOOSE p \in Pools : pool[p] = Free
           opened == [url |-> u, spawning |-> TRUE,
                      left |-> ConnectionsPerUpstream, live |-> 0, queue |-> 0]
<1>1. u \in Urls /\ Tail(states) \in Seq(WsUpstreamState)
  <2>1. Head(states) \in WsUpstreamState /\ Tail(states) \in Seq(WsUpstreamState)
    BY DEF TypeOK, StateOnline
  <2>2. QED
    BY <2>1 DEF WsUpstreamState
<1>2. /\ last' = [last EXCEPT ![u] = "online"]
      /\ blocked = NoUrl /\ states' = Tail(states)
      /\ UNCHANGED <<routes, requests, upstreams, blocked, ready, left>>
  BY DEF StateOnline
<1>3. CASE upstreams[u] # NoPool /\ UNCHANGED pool
  <2> HIDE DEF u
  <2>1. TypeOK'
    BY <1>1, <1>2, <1>3 DEF TypeOK, routes
  <2>2. SpawningHasUrl' /\ BlockedRouted' /\ QueueOfUpstream'
    BY <1>2, <1>3 DEF SpawningHasUrl, BlockedRouted, QueueOfUpstream
  <2>3. OnlineRouted'
    BY <1>1, <1>2, <1>3 DEF OnlineRouted, TypeOK, Spawning
  <2>4. QED
    BY <2>1, <2>2, <2>3
<1>4. CASE /\ \E p \in Pools : pool[p] = Free
           /\ pool' = [pool EXCEPT ![new] =
                         [Free EXCEPT !.url = u, !.spawning = TRUE,
                                      !.left = ConnectionsPerUpstream]]
  <2>1. new \in Pools /\ pool[new] = Free
    BY <1>4
  <2>2. [Free EXCEPT !.url = u, !.spawning = TRUE,
                     !.left = ConnectionsPerUpstream] = opened
    <3>1. Free \in Pool /\ TRUE \in BOOLEAN
      BY FreePool
    <3>2. Free.live = 0 /\ Free.queue = 0
      BY DEF Free
    <3>3. [Free EXCEPT !.url = u, !.spawning = TRUE,
                       !.left = ConnectionsPerUpstream] =
            [url |-> u, spawning |-> TRUE, left |-> ConnectionsPerUpstream,
             live |-> Free.live, queue |-> Free.queue]
      BY <3>1, PoolOpened
    <3>4. QED
      BY <3>2, <3>3, Zenon
  <2>3. pool' = [pool EXCEPT ![new] = opened]
    BY <1>4, <2>2
  <2> HIDE DEF new
  <2>4. /\ opened \in Pool /\ opened.url = u /\ opened.spawning
        /\ opened.live + opened.left <= ConnectionsPerUpstream
        /\ opened.queue <= QueueCapacity
    BY <1>1, DispatcherAssumption DEF Pool
  <2> HIDE DEF u, opened
  <2>5. TypeOK'
    BY <1>1, <1>2, <2>1, <2>3, <2>4 DEF TypeOK, routes
  <2>6. SpawningHasUrl' /\ BlockedRouted'
    BY <1>1, <1>2, <2>1, <2>3, <2>4 DEF SpawningHasUrl, BlockedRouted, TypeOK
  <2>7. QueueOfUpstream'
    <3>1. \A w \in Urls : upstreams[w] # new
      BY <2>1, FreePool, DispatcherAssumption DEF QueueOfUpstream, TypeOK
    <3>2. QED
      BY <1>2, <2>1, <2>3, <3>1 DEF QueueOfUpstream, TypeOK
  <2>8. OnlineRouted'
    <3>1. pool'[new].spawning /\ pool'[new].url = u
      BY <2>1, <2>3, <2>4 DEF TypeOK
    <3>2. \A p \in Pools : pool[p].spawning => pool'[p] = pool[p]
      BY <2>1, <2>3, FreePool DEF TypeOK
    <3>3. QED
      BY <1>1, <1>2, <2>1, <3>1, <3>2 DEF OnlineRouted, TypeOK, Spawning
  <2>9. QED
    BY <2>5, <2>6, <2>7, <2>8
<1>5. QED
  BY <1>3, <1>4 DEF StateOnline

\* A handshake ends, one way or the other.
LEMMA Handshake ==
  ASSUME DispatcherInv, NEW p \in Pools, NEW ok \in BOOLEAN,
         SpawnConnection(p, ok)
  PROVE  DispatcherInv'
<1> USE DEF DispatcherInv
<1> DEFINE l == IF ok THEN pool[p].live + 1 ELSE pool[p].live
           r == [url |-> pool[p].url, spawning |-> pool[p].spawning,
                 left |-> pool[p].left - 1, live |-> l, queue |-> pool[p].queue]
<1>1. pool[p] \in Pool /\ pool[p].left > 0
  BY DEF TypeOK, SpawnConnection
<1>2. l \in Nat /\ l + (pool[p].left - 1) <= pool[p].live + pool[p].left
  BY <1>1 DEF Pool
<1>3. pool' = [pool EXCEPT ![p].left = @ - 1, ![p].live = IF ok THEN @ + 1 ELSE @]
  BY DEF SpawnConnection
<1>4. pool' = [pool EXCEPT ![p] = r]
  <2>1. pool' = [pool EXCEPT ![p] = [pool[p] EXCEPT !.left = pool[p].left - 1,
                                                    !.live = l]]
    BY <1>3 DEF TypeOK
  <2> HIDE DEF l
  <2>2. [pool[p] EXCEPT !.left = pool[p].left - 1, !.live = l] = r
    BY <1>1, PoolHandshake
  <2>3. QED
    BY <2>1, <2>2, Zenon
<1> HIDE DEF l
<1>5. /\ r \in Pool /\ r.url = pool[p].url /\ r.spawning = pool[p].spawning
      /\ r.live + r.left <= pool[p].live + pool[p].left
      /\ r.queue = pool[p].queue
  BY <1>1, <1>2 DEF Pool
<1> HIDE DEF r
<1>6. r.live + r.left <= ConnectionsPerUpstream
  BY <1>1, <1>5, DispatcherAssumption DEF TypeOK, Pool
<1>7. TypeOK'
  BY <1>4, <1>5, <1>6 DEF TypeOK, SpawnConnection, routes
<1>8. SamePools
  BY <1>4, <1>5 DEF TypeOK, SamePools
<1>9. QED
  BY <1>7, <1>8, KeepsRoutes DEF SpawnConnection, BlockedRouted

\* The queue of an opened pool goes into the map, under its own upstream.
LEMMA Opened ==
  ASSUME DispatcherInv, NEW p \in Pools, SpawnDone(p)
  PROVE  DispatcherInv'
<1> USE DEF DispatcherInv
<1> DEFINE u == pool[p].url
           r == [url |-> u, spawning |-> FALSE, left |-> pool[p].left,
                 live |-> pool[p].live, queue |-> pool[p].queue]
<1>1. pool[p] \in Pool /\ pool[p].spawning /\ u \in Urls
  BY DEF TypeOK, SpawnDone, SpawnedAll, SpawningHasUrl
<1>2. pool' = [pool EXCEPT ![p].spawning = FALSE]
  BY DEF SpawnDone
<1>3. pool' = [pool EXCEPT ![p] = r]
  <2>1. pool' = [pool EXCEPT ![p] = [pool[p] EXCEPT !.spawning = FALSE]]
    BY <1>2 DEF TypeOK
  <2>2. QED
    BY <1>1, <2>1, PoolChange
<1>4. /\ r \in Pool /\ r.url = u /\ ~ r.spawning
      /\ r.live = pool[p].live /\ r.left = pool[p].left
      /\ r.queue = pool[p].queue
  BY <1>1 DEF Pool
<1>5. upstreams' = [upstreams EXCEPT ![u] = p] /\ p # NoPool
  BY DispatcherAssumption DEF SpawnDone
<1>6. ready' \in BOOLEAN /\ permit' \in BOOLEAN
  BY DEF SpawnDone
<1> HIDE DEF r, u
<1>7. TypeOK'
  <2>1. pool' \in [Pools -> Pool]
    BY <1>3, <1>4 DEF TypeOK
  <2>2. \A s \in Pools : /\ pool'[s].live = pool[s].live
                          /\ pool'[s].left = pool[s].left
                          /\ pool'[s].queue = pool[s].queue
    BY <1>3, <1>4 DEF TypeOK
  <2>3. upstreams' \in [Urls -> Pools \cup {NoPool}]
    BY <1>1, <1>5 DEF TypeOK
  <2>4. QED
    BY <1>6, <2>1, <2>2, <2>3 DEF TypeOK, SpawnDone
<1>8. SpawningHasUrl' /\ BlockedRouted'
  BY <1>3, <1>4 DEF SpawnDone, SpawningHasUrl, BlockedRouted, TypeOK
<1>9. QueueOfUpstream'
  <2>1. \A w \in Urls : upstreams[w] # p
    BY <1>1, <1>5 DEF QueueOfUpstream
  <2>2. QED
    BY <1>1, <1>3, <1>4, <1>5, <2>1 DEF QueueOfUpstream, TypeOK
<1>10. OnlineRouted'
  <2> SUFFICES ASSUME NEW w \in Urls, last[w] = "online", upstreams'[w] = NoPool
               PROVE  \E s \in Pools : pool'[s].spawning /\ pool'[s].url = w
    BY DEF OnlineRouted, SpawnDone, Spawning
  <2>1. w # u /\ upstreams[w] = NoPool
    BY <1>1, <1>5 DEF TypeOK
  <2>2. PICK s \in Pools : pool[s].spawning /\ pool[s].url = w
    BY <2>1 DEF OnlineRouted, Spawning
  <2>3. s # p
    BY <2>1, <2>2 DEF u
  <2>4. QED
    BY <1>3, <2>2, <2>3 DEF TypeOK
<1>11. QED
  BY <1>7, <1>8, <1>9, <1>10

\* A request goes into the queue, or waits for room in it, or finds the pool
\* dead and takes it out of the map.
LEMMA SendEffect ==
  ASSUME DispatcherInv, NEW u \in Urls, upstreams[u] # NoPool, SendTo(u),
         UNCHANGED <<routes, states, ready, left>>,
         requests' \in Seq(Urls), blocked \in {NoUrl, u}
  PROVE  DispatcherInv'
<1> USE DEF DispatcherInv
<1> DEFINE p == upstreams[u]
<1>1. p \in Pools /\ pool[p] \in Pool
  BY DEF TypeOK
<1>2. CASE /\ upstreams' = [upstreams EXCEPT ![u] = NoPool]
           /\ last' = [last EXCEPT ![u] = "dead"]
           /\ blocked' = NoUrl
           /\ UNCHANGED pool
  <2>1. TypeOK'
    BY <1>2 DEF TypeOK, routes
  <2>2. SpawningHasUrl' /\ BlockedRouted'
    BY <1>2 DEF SpawningHasUrl, BlockedRouted
  <2>3. QueueOfUpstream'
    BY <1>2 DEF QueueOfUpstream, TypeOK
  <2>4. OnlineRouted'
    BY <1>2 DEF OnlineRouted, TypeOK, Spawning
  <2>5. QED
    BY <2>1, <2>2, <2>3, <2>4
<1>3. CASE /\ pool[p].queue < QueueCapacity
           /\ pool' = [pool EXCEPT ![p].queue = @ + 1]
           /\ blocked' = NoUrl
           /\ UNCHANGED <<upstreams, last>>
  <2> DEFINE r == [url |-> pool[p].url, spawning |-> pool[p].spawning,
                   left |-> pool[p].left, live |-> pool[p].live,
                   queue |-> pool[p].queue + 1]
  <2>1. pool' = [pool EXCEPT ![p] = r]
    <3>1. pool' = [pool EXCEPT ![p] = [pool[p] EXCEPT !.queue = pool[p].queue + 1]]
      BY <1>3 DEF TypeOK
    <3>2. QED
      BY <1>1, <3>1, PoolChange
  <2>2. /\ r \in Pool /\ r.url = pool[p].url /\ r.spawning = pool[p].spawning
        /\ r.live = pool[p].live /\ r.left = pool[p].left
        /\ r.queue <= QueueCapacity
    BY <1>1, <1>3, DispatcherAssumption, SMTT(30) DEF Pool
  <2> HIDE DEF r, p
  <2>3. TypeOK'
    BY <1>1, <1>3, <2>1, <2>2 DEF TypeOK, routes
  <2>4. SamePools
    BY <1>1, <2>1, <2>2 DEF TypeOK, SamePools
  <2>5. QED
    BY <1>3, <2>3, <2>4, KeepsRoutes
<1>4. CASE blocked' = u /\ UNCHANGED <<upstreams, pool, last>>
  <2>1. TypeOK'
    BY <1>4 DEF TypeOK, routes
  <2>2. QED
    BY <1>4, <2>1, KeepsRoutes DEF SamePools
<1>5. QED
  BY <1>2, <1>3, <1>4 DEF SendTo

\* Every step in which the dispatcher forwards a request.
LEMMA Sending ==
  ASSUME DispatcherInv, Forward \/ Unblock
  PROVE  DispatcherInv'
<1> USE DEF DispatcherInv
<1>1. CASE Forward
  <2> DEFINE u == Head(requests)
  <2>1. u \in Urls /\ requests' \in Seq(Urls)
    BY <1>1 DEF TypeOK, Forward
  <2>2. CASE UNCHANGED <<upstreams, pool, blocked, last>>
    <3>1. TypeOK'
      BY <1>1, <2>1, <2>2 DEF TypeOK, Forward, routes
    <3>2. QED
      BY <2>2, <3>1, KeepsRoutes DEF SamePools, BlockedRouted
  <2>3. CASE upstreams[u] # NoPool /\ SendTo(u)
    BY <1>1, <2>1, <2>3, SendEffect DEF Forward
  <2>4. QED
    BY <1>1, <2>2, <2>3 DEF Forward
<1>2. CASE Unblock
  <2>1. blocked \in Urls /\ upstreams[blocked] # NoPool
    BY <1>2 DEF TypeOK, Unblock, BlockedRouted
  <2>2. QED
    BY <1>2, <2>1, SendEffect DEF Unblock, TypeOK
<1>3. QED
  BY <1>1, <1>2

-----------------------------------------------------------------------------
\* Connections take requests and end, and the pool stays what it is.
LEMMA ConnectionSteps ==
  ASSUME DispatcherInv, NEW p \in Pools, TakeRequest(p) \/ ConnectionEnds(p)
  PROVE  DispatcherInv'
<1> USE DEF DispatcherInv
<1>1. pool[p] \in Pool
  BY DEF TypeOK
<1>2. CASE TakeRequest(p)
  <2> DEFINE r == [url |-> pool[p].url, spawning |-> pool[p].spawning,
                   left |-> pool[p].left, live |-> pool[p].live,
                   queue |-> pool[p].queue - 1]
  <2>1. pool' = [pool EXCEPT ![p] = r]
    <3>1. pool' = [pool EXCEPT ![p] = [pool[p] EXCEPT !.queue = pool[p].queue - 1]]
      BY <1>2 DEF TypeOK, TakeRequest
    <3>2. QED
      BY <1>1, <3>1, PoolChange
  <2>2. /\ r \in Pool /\ r.url = pool[p].url /\ r.spawning = pool[p].spawning
        /\ r.live = pool[p].live /\ r.left = pool[p].left
        /\ r.queue <= QueueCapacity
    BY <1>1, <1>2, DispatcherAssumption, SMTT(30) DEF Pool, TakeRequest, TypeOK
  <2> HIDE DEF r
  <2>3. TypeOK'
    BY <1>2, <2>1, <2>2 DEF TypeOK, TakeRequest, routes
  <2>4. SamePools
    BY <2>1, <2>2 DEF TypeOK, SamePools
  <2>5. QED
    BY <1>2, <2>3, <2>4, KeepsRoutes DEF TakeRequest, BlockedRouted
<1>3. CASE ConnectionEnds(p)
  <2> DEFINE r == [url |-> pool[p].url, spawning |-> pool[p].spawning,
                   left |-> pool[p].left, live |-> pool[p].live - 1,
                   queue |-> pool[p].queue]
  <2>1. pool' = [pool EXCEPT ![p] = r]
    <3>1. pool' = [pool EXCEPT ![p] = [pool[p] EXCEPT !.live = pool[p].live - 1]]
      BY <1>3 DEF TypeOK, ConnectionEnds
    <3>2. QED
      BY <1>1, <3>1, PoolChange
  <2>2. /\ r \in Pool /\ r.url = pool[p].url /\ r.spawning = pool[p].spawning
        /\ r.live + r.left <= ConnectionsPerUpstream
        /\ r.queue = pool[p].queue
    BY <1>1, <1>3, DispatcherAssumption, SMTT(30)
       DEF Pool, ConnectionEnds, TypeOK
  <2>3. left' \in [Bounds -> Nat]
    BY <1>3, SpendType DEF ConnectionEnds, Bounds
  <2> HIDE DEF r
  <2>4. TypeOK'
    BY <1>3, <2>1, <2>2, <2>3 DEF TypeOK, ConnectionEnds, routes, Bounds
  <2>5. SamePools
    BY <2>1, <2>2 DEF TypeOK, SamePools
  <2>6. QED
    BY <1>3, <2>4, <2>5, KeepsRoutes DEF ConnectionEnds, BlockedRouted
<1>4. QED
  BY <1>2, <1>3

\* The invariant survives every step.
LEMMA DispatcherNext == DispatcherInv /\ [Next]_vars => DispatcherInv'
<1> SUFFICES ASSUME DispatcherInv, [Next]_vars PROVE DispatcherInv'
  OBVIOUS
<1>1. CASE Run
  BY <1>1, Offline, Online, Sending, Opened, Handshake DEF Run
<1>2. CASE UNCHANGED vars
  <2>1. TypeOK'
    BY <1>2 DEF DispatcherInv, TypeOK, vars, routes
  <2>2. QED
    BY <1>2, <2>1, KeepsRoutes DEF vars, SamePools, DispatcherInv, BlockedRouted
<1>3. QED
  BY <1>1, <1>2, ChannelSteps, ConnectionSteps DEF Next

\* The invariant holds in every reachable state.
LEMMA DispatcherInvariant == Spec => []DispatcherInv
BY DispatcherInit, DispatcherNext, PTL DEF Spec

\* Every variable keeps its type, and no pool has more connections or queued
\* requests than it is configured for.
THEOREM DispatcherTypeCorrect == Spec => []TypeOK
<1>1. DispatcherInv => TypeOK
  BY DEF DispatcherInv
<1>2. QED
  BY <1>1, DispatcherInvariant, PTL

\* An upstream that was last announced online is in the map or about to be,
\* however many announcements and openings of pools overtake each other, until
\* a send finds its pool dead.
THEOREM OnlineAlwaysRouted == Spec => []OnlineRouted
<1>1. DispatcherInv => OnlineRouted
  BY DEF DispatcherInv
<1>2. QED
  BY <1>1, DispatcherInvariant, PTL

\* A request is only ever put into a queue of the upstream it is for.
THEOREM RequestsReachTheirUpstream == Spec => []QueueOfUpstream
<1>1. DispatcherInv => QueueOfUpstream
  BY DEF DispatcherInv
<1>2. QED
  BY <1>1, DispatcherInvariant, PTL

=============================================================================
