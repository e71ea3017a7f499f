------------------------ MODULE SubscriptionDispatcher ------------------------
(***************************************************************************)
(* The hub of websocket subscriptions (src/src/pubsub/dispatch.rs): one    *)
(* task that keeps a queue (sender) per upstream URL, opens a pool of      *)
(* connections when an upstream is announced, and forwards subscription    *)
(* requests.  Its announcements come from the routing table                *)
(* (src/src/cache/routes.rs), whose constructor also waits for the         *)
(* dispatcher's ready notification (src/src/lib.rs).                       *)
(*                                                                         *)
(* Pools of connections are opened by futures that the task itself polls,  *)
(* so that they stand still while it is blocked in a send.                 *)
(***************************************************************************)
EXTENDS Integers, Sequences, FiniteSets, FiniteSetsExt

CONSTANTS
  Urls,                    \* websocket upstreams
  Base,                    \* those of the base chain
  Startup,                 \* what RoutingTable::new announces, in order
  Pools,                   \* identities of the queues (flume channels)
  NoUrl, NoPool,
  ConnectionsPerUpstream,  \* connections_per_upstream
  QueueCapacity,           \* bound of a pool's queue
  MaxAnnouncements,        \* bound: later announcements of the ER nodes
  MaxRequests,             \* bound: requests of subscription handlers
  MaxDeaths                \* bound: connections that end

Pool == [url : Urls \cup {NoUrl}, spawning : BOOLEAN, left : Nat, live : Nat,
         queue : Nat]

ASSUME DispatcherAssumption ==
  /\ NoUrl \notin Urls /\ NoPool \notin Pools
  /\ Base \subseteq Urls
  /\ Startup \in Seq(Urls) /\ Startup # <<>>
  /\ ConnectionsPerUpstream \in Nat /\ QueueCapacity \in Nat
  /\ MaxAnnouncements \in Nat /\ MaxRequests \in Nat /\ MaxDeaths \in Nat

VARIABLES
  startup,    \* announcements RoutingTable::new has still to make
  permit,     \* the Notify that it waits on holds a permit
  started,    \* RoutingTable::new has returned
  states,     \* the channel of WsUpstreamState messages
  requests,   \* the channel of Subscription requests (their destinations)
  upstreams,  \* the queue of every upstream that requests are sent to
  pool,       \* the pools of connections behind the queues
  blocked,    \* destination of the request whose send has to wait
  ready,      \* the dispatcher has still to notify
  last,       \* history: what the dispatcher last learned of an upstream
  left        \* what is left of the bounds

routes == <<startup, permit, started>>
vars == <<routes, states, requests, upstreams, pool, blocked, ready, last,
          left>>

-----------------------------------------------------------------------------
Free == [url |-> NoUrl, spawning |-> FALSE, left |-> 0, live |-> 0,
         queue |-> 0]
Spawning == {p \in Pools : pool[p].spawning}
Spend(b) == left[b] > 0 /\ left' = [left EXCEPT ![b] = @ - 1]

\* Connections that are open to u, whichever pool they belong to.
Connections(u) ==
  MapThenSumSet(LAMBDA p : pool[p].live, {p \in Pools : pool[p].url = u})

Init ==
  /\ startup = Startup
  /\ permit = FALSE
  /\ started = FALSE
  /\ states = <<>>
  /\ requests = <<>>
  /\ upstreams = [u \in Urls |-> NoPool]
  /\ pool = [p \in Pools |-> Free]
  /\ blocked = NoUrl
  /\ ready = TRUE
  /\ last = [u \in Urls |-> "unknown"]
  /\ left = [announcements |-> MaxAnnouncements, requests |-> MaxRequests,
             deaths |-> MaxDeaths]

-----------------------------------------------------------------------------
(* The routing table and the subscription handlers.                        *)

AnnounceStartup ==
  /\ startup # <<>>
  /\ startup' = Tail(startup)
  /\ states' = Append(states, [url |-> Head(startup), is_online |-> TRUE])
  /\ UNCHANGED <<permit, started, requests, upstreams, pool, blocked, ready,
                 last, left>>

\* ready.notified().await; the updater then subscribes to the registry of
\* domains through one of the base chain upstreams.
Start(u) ==
  /\ startup = <<>> /\ permit /\ ~ started
  /\ u \in Base
  /\ permit' = FALSE
  /\ started' = TRUE
  /\ requests' = Append(requests, u)
  /\ UNCHANGED <<startup, states, upstreams, pool, blocked, ready, last,
                 left>>

\* insert_entry and remove_entry: an ER node changes its status.
Announce(u, online) ==
  /\ started /\ u \notin Base
  /\ Spend("announcements")
  /\ states' = Append(states, [url |-> u, is_online |-> online])
  /\ UNCHANGED <<routes, requests, upstreams, pool, blocked, ready, last>>

Request(u) ==
  /\ started
  /\ Spend("requests")
  /\ requests' = Append(requests, u)
  /\ UNCHANGED <<routes, states, upstreams, pool, blocked, ready, last>>

-----------------------------------------------------------------------------
(* SubscriptionDispatcher::run                                             *)

StateOffline ==
  LET u == Head(states).url IN
  /\ blocked = NoUrl
  /\ states # <<>> /\ ~ Head(states).is_online
  /\ states' = Tail(states)
  /\ upstreams' = [upstreams EXCEPT ![u] = NoPool]
  /\ last' = [last EXCEPT ![u] = "offline"]
  /\ UNCHANGED <<routes, requests, pool, blocked, ready, left>>

\* Nothing is opened for an upstream that is in the map.
StateOnline ==
  LET u == Head(states).url
      new == CHOOSE p \in Pools : pool[p] = Free
  IN
  /\ blocked = NoUrl
  /\ states # <<>> /\ Head(states).is_online
  /\ states' = Tail(states)
  /\ last' = [last EXCEPT ![u] = "online"]
  /\ \/ upstreams[u] # NoPool /\ UNCHANGED pool
     \/ /\ upstreams[u] = NoPool
        /\ \E p \in Pools : pool[p] = Free
        /\ pool' = [pool EXCEPT ![new] =
                      [Free EXCEPT !.url = u, !.spawning = TRUE,
                                   !.left = ConnectionsPerUpstream]]
  /\ UNCHANGED <<routes, requests, upstreams, blocked, ready, left>>

\* Mutant: one connection too many.
SpawnConnection_inclusive(p, ok) ==
  /\ blocked = NoUrl
  /\ pool[p].spawning /\ pool[p].live <= ConnectionsPerUpstream
  /\ pool' = [pool EXCEPT ![p].left = IF @ = 0 THEN 0 ELSE @ - 1,
                          ![p].live = IF ok THEN @ + 1 ELSE @]
  /\ UNCHANGED <<routes, states, requests, upstreams, blocked, ready, last,
                 left>>

\* try_spawn_connections: one handshake after the other, failures skipped.
SpawnConnection(p, ok) ==
  /\ blocked = NoUrl
  /\ pool[p].spawning /\ pool[p].left > 0
  /\ pool' = [pool EXCEPT ![p].left = @ - 1,
                          ![p].live = IF ok THEN @ + 1 ELSE @]
  /\ UNCHANGED <<routes, states, requests, upstreams, blocked, ready, last,
                 left>>

SpawnedAll(p) == pool[p].spawning /\ pool[p].left = 0

\* Mutants: notify_waiters, which leaves no permit for one who waits later;
\* and the test for other futures before the insertion.
SpawnDone_notify_waiters(p) ==
  /\ blocked = NoUrl
  /\ SpawnedAll(p)
  /\ pool' = [pool EXCEPT ![p].spawning = FALSE]
  /\ upstreams' = [upstreams EXCEPT ![pool[p].url] = p]
  /\ ready' = (ready /\ Spawning # {p})
  /\ permit' = (permit \/ (ready /\ Spawning = {p} /\ startup = <<>>))
  /\ UNCHANGED <<startup, started, states, requests, blocked, last, left>>
SpawnDone_last_only(p) ==
  /\ blocked = NoUrl
  /\ SpawnedAll(p)
  /\ pool' = [pool EXCEPT ![p].spawning = FALSE]
  /\ upstreams' = IF Spawning # {p} THEN upstreams
                  ELSE [upstreams EXCEPT ![pool[p].url] = p]
  /\ ready' = (ready /\ Spawning # {p})
  /\ permit' = (permit \/ (ready /\ Spawning = {p}))
  /\ UNCHANGED <<startup, started, states, requests, blocked, last, left>>

\* The queue goes into the map; the first time that no other pool is being
\* opened, ready is notified.
SpawnDone(p) ==
  /\ blocked = NoUrl
  /\ SpawnedAll(p)
  /\ pool' = [pool EXCEPT ![p].spawning = FALSE]
  /\ upstreams' = [upstreams EXCEPT ![pool[p].url] = p]
  /\ ready' = (ready /\ Spawning # {p})
  /\ permit' = (permit \/ (ready /\ Spawning = {p}))
  /\ UNCHANGED <<startup, started, states, requests, blocked, last, left>>

\* Mutant: a receiver that is never dropped keeps the queue connected.
Disconnected_never(p) == FALSE

\* Every receiver of the queue is gone.
Disconnected(p) == pool[p].live = 0

\* tx.send(request): a blocking send on a bounded queue.
SendTo(u) ==
  LET p == upstreams[u] IN
  \/ /\ Disconnected(p)
     /\ upstreams' = [upstreams EXCEPT ![u] = NoPool]
     /\ last' = [last EXCEPT ![u] = "dead"]
     /\ blocked' = NoUrl
     /\ UNCHANGED pool
  \/ /\ ~ Disconnected(p) /\ pool[p].queue < QueueCapacity
     /\ pool' = [pool EXCEPT ![p].queue = @ + 1]
     /\ blocked' = NoUrl
     /\ UNCHANGED <<upstreams, last>>
  \/ /\ ~ Disconnected(p) /\ pool[p].queue = QueueCapacity
     /\ blocked = NoUrl
     /\ blocked' = u
     /\ UNCHANGED <<upstreams, pool, last>>

Forward ==
  LET u == Head(requests) IN
  /\ blocked = NoUrl
  /\ requests # <<>>
  /\ requests' = Tail(requests)
  /\ \/ /\ upstreams[u] = NoPool
        /\ UNCHANGED <<upstreams, pool, blocked, last>>
     \/ /\ upstreams[u] # NoPool
        /\ SendTo(u)
  /\ UNCHANGED <<routes, states, ready, left>>

Unblock ==
  /\ blocked # NoUrl
  /\ SendTo(blocked)
  /\ UNCHANGED <<routes, states, requests, ready, left>>

-----------------------------------------------------------------------------
(* The connections of a pool: each takes requests from the shared queue,   *)
(* and ends only when it cannot reconnect (WebsocketConnection::run never  *)
(* reaches its else branch, as the ping timer is always there).            *)

TakeRequest(p) ==
  /\ pool[p].live > 0 /\ pool[p].queue > 0
  /\ pool' = [pool EXCEPT ![p].queue = @ - 1]
  /\ UNCHANGED <<routes, states, requests, upstreams, blocked, ready, last,
                 left>>

ConnectionEnds(p) ==
  /\ pool[p].live > 0
  /\ Spend("deaths")
  /\ pool' = [pool EXCEPT ![p].live = @ - 1]
  /\ UNCHANGED <<routes, states, requests, upstreams, blocked, ready, last>>

-----------------------------------------------------------------------------
Run ==
  \/ StateOffline \/ StateOnline \/ Forward \/ Unblock
  \/ \E p \in Pools :
       SpawnDone(p) \/ \E ok \in BOOLEAN : SpawnConnection(p, ok)

Constructor == AnnounceStartup \/ \E u \in Base : Start(u)

Next ==
  \/ Constructor \/ Run
  \/ \E u \in Urls : Request(u) \/ \E b \in BOOLEAN : Announce(u, b)
  \/ \E p \in Pools : TakeRequest(p) \/ ConnectionEnds(p)

Spec == Init /\ [][Next]_vars

(* Fairness: the runtime polls the dispatcher and the constructor of the   *)
(* routing table, a handshake ends, and a connection that is alive takes   *)
(* the requests in its queue.                                              *)
LiveSpec ==
  /\ Spec
  /\ WF_vars(Run) /\ WF_vars(Constructor)
  /\ \A p \in Pools : WF_vars(TakeRequest(p))

-----------------------------------------------------------------------------
(* Properties                                                              *)

WsUpstreamState == [url : Urls, is_online : BOOLEAN]

\* The type of every variable; no pool outgrows its configured size.
TypeOK ==
  /\ startup \in Seq(Urls)
  /\ permit \in BOOLEAN /\ started \in BOOLEAN /\ ready \in BOOLEAN
  /\ states \in Seq(WsUpstreamState)
  /\ requests \in Seq(Urls)
  /\ upstreams \in [Urls -> Pools \cup {NoPool}]
  /\ pool \in [Pools -> Pool]
  /\ \A p \in Pools : /\ pool[p].live + pool[p].left <= ConnectionsPerUpstream
                      /\ pool[p].queue <= QueueCapacity
  /\ blocked \in Urls \cup {NoUrl}
  /\ last \in [Urls -> {"unknown", "online", "offline", "dead"}]
  /\ left \in [{"announcements", "requests", "deaths"} -> Nat]

\* An upstream that was last announced online can be sent requests, now or as
\* soon as its pool is open, however announcements and pools overtake each
\* other, until the dispatcher finds all its connections gone.
OnlineRouted ==
  \A u \in Urls : last[u] = "online" =>
    upstreams[u] # NoPool \/ \E p \in Spawning : pool[p].url = u

\* "if upstream went offline, remove it from possible routes".
OfflineUnrouted == \A u \in Urls : last[u] = "offline" => upstreams[u] = NoPool

\* "The number of connections established per upstream WebSocket server."
ConnectionLimit == \A u \in Urls : Connections(u) <= ConnectionsPerUpstream

\* "synchronization between RoutingTable and Dispatcher, to ensure that all
\* connections are established": when the constructor of the routing table
\* goes on, every upstream it announced is in the map (or found dead).
ReadyMeansEstablished ==
  started => \A i \in DOMAIN Startup :
    upstreams[Startup[i]] # NoPool \/ last[Startup[i]] \in {"offline", "dead"}

\* The router starts: the notification is not lost, although it may come
\* before the routing table waits for it, and failed handshakes do not
\* prevent it.
RouterStarts == <>started

\* A blocked dispatcher goes on: a queue that is full is read by a live
\* connection, or its last connection ends and the send fails.
DispatcherUnblocked == blocked # NoUrl ~> blocked = NoUrl

=============================================================================
