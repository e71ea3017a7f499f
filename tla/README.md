# A TLA+ development of the MagicBlock RPC router

The router is one endpoint in front of the base chain and of the ephemeral
rollup (ER) nodes. For every account it finds out whether the account is
delegated and to which ER node, sends HTTP requests there, and relays websocket
subscriptions. This directory models the parts of it that hold state and run
concurrently, model-checks them with TLC and proves, with TLAPS, the safety
properties of the delegation cache, the routing table, the HTTP methods, the
dispatcher, the websocket connections, the account subscriptions and the
channels between them, for every number of each.

## The system and its parts

| Part | State | Operations | Interacts with |
|---|---|---|---|
| Delegation cache (`src/src/cache/delegations.rs`, `accounts.rs`) | bounded concurrent map from record address to entry (slot, record, pending fill), one oneshot channel per fill | `get_record`, `fetch`, `merge_fetched`, `stream_fill`, `subscribe`, `insert_new` with eviction, `updater` | RPC of the base chain; the sync service, which answers a subscription with its slot and sends updates over a channel; every request handler |
| Websocket connections (`pubsub/connection.rs`) | socket, `inflights`, `request_to_subs`, `subscriptions`, unsubscription channel | the branches of `run`, `reestablish` | shared request queue filled by the dispatcher; mailboxes of the subscribers; the upstream node |
| Account subscription handlers (`server/websocket.rs`) | sink, mailbox, handles | `account_subscribe`, `AccountSubscriptionHandler::run` | dispatcher, connections, delegation cache, routing table |
| Signature subscription handlers (`server/websocket.rs`) | sink, mailbox, one handle | `signature_subscribe`, `run` | dispatcher, forwarded transactions |
| Subscription dispatcher (`pubsub/dispatch.rs`) | a queue per upstream, futures that open pools | the branches of `run`, `try_spawn_connections` | announcements of the routing table, requests of the handlers, `ready` |
| Routing table (`cache/routes.rs`) | copy of the on-chain registry of ER nodes, proximity of each node, round robin over base chain endpoints | `new`, `insert_entry`, `remove_entry`, `updater` (registry feed, pings), `closest_node`, `base_chain` | registry subscription through the dispatcher, announcements to it |
| HTTP routing (`server/http.rs`) | bounded map from blockhash to upstream | one method per JSON-RPC method: choice of the upstream, splitting and reassembly | cache, table, forwarded transactions |
| Forwarded transactions (`cache/transactions.rs`) | bounded map from signature to upstream | `track`, `get` | HTTP routing, signature handlers |

What is hard here: a call may be overtaken or dropped at each await of
`get_record`; records come over two roads (RPC and stream) in any order; a lost
socket is noticed only at the next write; a subscriber may close, time out or
fall behind at any moment of a reconnection; pools are opened while their
upstreams change state; the registry changes while no subscription is in place;
delegations and routes change between two awaits of one HTTP request; an account
moves while its subscription is being set up; handlers, dispatcher and
connections wait for each other over bounded channels.
`PROJECT.json` lists each of these hazards at its line, with the properties that
would catch it going wrong.

What makes each part correct:

- cache: nobody waits for a fill that nobody will end; an entry holds what the
  chain held at its slot and never goes back; a change of the chain is never
  lost to a filled entry; every call returns;
- connections and handlers: notifications reach only subscribers of their
  account; a subscriber that holds a handle is known to its connection or told
  otherwise; a lost subscription is revived;
- dispatcher: an online upstream can be reached, an offline one cannot, its
  pool has the configured size, start-up completes;
- routing table: it follows the registry, averages are made of measurements, a
  silent node is not chosen;
- HTTP routing: a request goes to the one upstream that its accounts were found
  at, accounts come back at their positions, a signature or blockhash that was
  handed out can be asked for again;
- subscription of a delegated account: the handler listens where the account
  lives, and keeps the base chain, which tells it of the next move;
- channels: nobody waits for somebody who waits for him.

## Modules

| Module | Models |
|---|---|
| `DelegationsCache` | the delegation cache, with the base chain and the sync service as its environment |
| `DelegationView` | what the cache promises: per address nothing, or the record of some slot that only moves forward |
| `MCDelegationsCache` | its instances for TLC |
| `DelegationsCacheProofs` | type correctness, ownership of fills, faithfulness of entries, refinement of `DelegationView` |
| `WebsocketConnection` | a pool of connections and its subscribers (accounts that are not delegated), the upstream as environment |
| `MCWebsocketConnection` | its instances |
| `WebsocketConnectionProofs` | type correctness, notifications reach only their account |
| `WebsocketProtocolProofs` | what handlers and connections know of each other |
| `SubscriptionDispatcher` | the dispatcher, the pools it opens and the start of the router |
| `MCSubscriptionDispatcher` | its instances |
| `SubscriptionDispatcherProofs` | type correctness, online upstreams are routed to, requests reach their upstream |
| `RoutingTable` | the routing table, its registry feed and its pings |
| `RoutingTableProofs` | type correctness, removable routes, measured proximities, closed nodes |
| `HttpRouting` | the HTTP methods, `signatureSubscribe`, forwarded transactions, the round robin of `base_chain` |
| `MCHttpRouting` | its instances |
| `HttpRoutingProofs` | type correctness, choice of the upstream, positions, what is remembered |
| `AccountSubscription` | one `accountSubscribe` of an account that is delegated and undelegated, the upstreams and the delegation cache as environment |
| `MCAccountSubscription` | its instances |
| `AccountSubscriptionProofs` | type correctness, the base chain is kept, losses are explained |
| `Backpressure` | who waits for whom: handlers, dispatcher and connections composed over bounded channels |
| `MCBackpressure` | its instances |
| `BackpressureProofs` | type correctness, no circular wait with fewer requests than a circle takes |

Actions carry the name of the function they model where one function is one
atomic step; a function with awaits becomes one action per segment between two
awaits (`get_record` is `ReadEntry`, `AwaitFill`, `InsertPlaceholder`,
`subscribe`, `ClaimPlaceholder`, ...). Definitions named `X_something` next to a
definition `X` are mutants of it: plausible bugs that the properties are tested
against. `PROJECT.json` maps each definition to its source lines.

### DelegationsCache

`db` is the cache, `fills` the oneshot channels behind `PendingDelegationFill`
(the identity of a handle is `ptr_eq`; a handle that nothing points to may be
reused), `calls` the locals and program counters of the `get_record` calls.
`chain` is the history of the base chain; `subs`, `cursor`, `alive` and `stream`
are the sync service: a subscription replays the last `ReplayWindow` slots,
then changes arrive in slot order per address; an interruption loses what has
not been sent and says so; a termination is the last message. An RPC node may
answer from any slot that satisfies `min_context_slot`. The option `None` of a
slot is 0. Faults (evictions, cancelled requests, interruptions, terminations,
fetches that fail for good) happen as often as `Budget` allows.
`clear_async` clears one entry per step, and a waiting owner may miss or catch
`notify_waiters` exactly as `Notify` allows (a future counts from its creation).

### WebsocketConnection

Connections share `requests` and have their own tables. A subscriber generates
its request id and subscriber id once, so the client stands for both; its
account is chosen when it subscribes, so that clients share one or not.
`task[c].pc` says whether the connection is in its `select!` loop (`run`), in the
middle of a fan-out (`notify`) or of a confirmation (`confirm`), in
`reestablish` (`lost`), or has ended (`dead`); sends to a full mailbox wait.
When the socket breaks, frames on their way are lost, a prefix of what was
received is still delivered, and later writes fail or vanish. The upstream gives
equal subscriptions of a socket the same id (that is what the nested map of the
code is for) and may give ids again on a new socket. The channel for
unsubscriptions and the request queue hold 1024 messages and are never full with
fewer clients, so they are not bounded here. Answers to unsubscriptions change
nothing and are left out.

### SubscriptionDispatcher

`upstreams` maps a URL to its queue, `pool` describes the connections behind
each queue. The futures that open pools are polled by the dispatcher task, so
they stand still while it is blocked in its (blocking) send on a full queue.
The `else` branch of `WebsocketConnection::run` can never be taken, since the
ping timer is always there: connections of a removed upstream do not end. `last`
is a history variable.

### RoutingTable

Time is counted in ping periods; `age` is counted up to one past the stale
period. `U8_MAX` is where the failure counter saturates (255 in the code, one
past the failure limit in the runs). `insert_sync` does not replace a record.
A ping result is credited to the record of its node at that time. `missed` is a
history variable: nodes with a change that no subscription carried.

### HttpRouting

`calls` holds the locals of the calls; `authority` and `inner` are what the
delegation cache and the routing table answer at the moment, and change between
any two steps. Lookups of one method are steps of their own (`Resolve`, one
account after the other; `JoinResolve`, in any order), as are the reading of the
route (`Route`, `Split`), the answer of the upstream (`RpcAnswers`, `RpcFails`,
`Sent`, `HashAnswered`, `PartAnswered`, `PartFailed`) and the write to the caches
(`Remember`). `account_info` stands for the four methods that differ in the RPC
call only, `signature_statuses` with one signature for `transaction`. An account
in an answer is the pair of the upstream that gave it and the key, and a part of
`multiple_accounts` is the upstream with the indices its accounts came from. An
account that a transaction does not write is not looked up (`None` in `pubkeys`).
A failed
`sendTransaction` may have reached the upstream. `put_async` keeps a present
value and may evict another. Parameters that cannot be decoded are refused
before any state is read, and are left out; only `before` and `until` of
`signatures_for_address` are decoded after the upstream was chosen, which looks
like a failing answer (`RpcFails`). `told`, `evicted` and `received` are history.

### AccountSubscription

The handler's state is `pc`, `sink`, `handles`, `mailbox` and `generated`; each
upstream is one connection with the tables of `WebsocketConnection`, whose steps
are taken together (`Confirm`, `Deliver`, `unsubscribe`, `reestablish`). The first
two requests share their ids and the mark `Chain`; a subscription made on a
delegation has ids of its own and the mark `Ephem`; a revived one goes wherever
the account is now and keeps its mark. `cached` lags behind `authority` until
`CacheSync`. `excuses` is a history of the events after which the code does not
follow the account: the delegation cache was behind the notification, the account
was delegated before the base chain confirmed, its node was not in the table, a
connection was lost, an ER subscription was ended after the account had come
back to the node. `LossesExplained` says that these five are all; each of them is
needed (without it the property fails in the same run).

### Backpressure

A subscription request is an id that moves from the handler (`sending`, when its
send waits) through the dispatcher's channel (`channel`), the dispatcher (`blocked`
when its send waits), the queue and a connection (`live`), to which it may come
back after a lost socket (`told`). `task[c].sends` are the subscribers a connection
has yet to send to, `ending` the subscriptions whose handler is sending the
unsubscription (the account has left the ER node, or the sink is closed), and
`unsubs[c]` the unsubscriptions a connection has yet to read. Sends that find room
are part of the step that makes them. That an unsubscription may leave its
subscriber in the table (its id is another one, see `AccountSubscription`) is not
repeated here.

A circular wait takes a full queue, a request held by the dispatcher, one at each
connection, and either a full channel with one more request being sent, or a full
unsubscription channel: `CircleSize`. `NoCircularWait` says that fewer requests
never close the circle, and `DispatcherGoesOn` that with fewer a blocked dispatcher
goes on. In the run one connection and the handler can block each other for good
(the connection waits for the mailbox, the handler for room in the unsubscription
channel of that connection) while the dispatcher is blocked; the other connection then
takes the requests. The bound is exact: with a fifth id, also of the handler and
in `Ephem`, `CircularWait` is reached. In the code every channel holds 1024 messages
(`lib.rs`:59, `dispatch.rs`:63, `connection.rs`:64, `websocket.rs`:69).

## Runs

| Run | Shows | Bounds |
|---|---|---|
| `cache_faults` | `TypeOK`, `FillsOwned`, `EntryFaithful`, refinement of `DelegationView` | 2 calls, 1 address, 2 slots, one of each fault but eviction, 2 fetch attempts |
| `cache_eviction` | `FillsOwned`, refinement, with evictions | 2 calls, 2 addresses, 2 slots, 1 eviction |
| `cache_coherence` | `Coherent`, `AnswersTrue` | 2 calls, 1 address, 3 slots, 1 cancellation, 1 interruption |
| `cache_liveness` | `CallsReturn`, `Converges`, `StreamServes` | 2 calls, 1 address, 2 slots, 1 cancellation, 1 interruption |
| `connection_pool` | `TypeOK`, `TopicIsolation`, `MailboxProtocol`, `NoSilentLoss` | 2 connections, 2 clients of 2 accounts (also both of one), 2 breaks, 2 refused reconnections (2 end a connection), 1 rejection, channels of 2 |
| `connection_liveness` | `LossReported`, `Revived` | 2 connections, 2 clients of one account, 1 break, 1 refused reconnection (which ends the connection), channels of 1 |
| `dispatcher_pools` | `TypeOK`, `OnlineRouted`, `RouterStarts`, `DispatcherUnblocked` | 2 upstreams, 2 connections each, 2 later announcements, 2 requests besides the registry's own, 2 deaths, queues of 1 |
| `routes_table` | `TypeOK`, `ProximityMeasured`, `RouteRemovable`, `ClosedUnrouted`, `SilentNodeDropped` | 1 node, 2 addresses, 2 latencies, 2 registry changes, 1 lost subscription |
| `http_routing` | `TypeOK`, `RoutedByAnswers`, `PositionsMatch`, `Remembered` | 2 calls at once, 2 accounts (one asked for twice), 2 ER nodes, 2 base chain endpoints, 2 transactions, 2 blockhashes, 2 changes of delegations or routes, no static identity |
| `account_sources` | `TypeOK`, `LossesExplained`, `ChainKept` | 2 ER nodes, 3 changes of the delegation, 1 fault (lost connection, lost route or unrelated update), 2 further subscriptions |
| `backpressure` | `TypeOK`, `NoCircularWait`, `DispatcherGoesOn` | 1 handler with 4 requests (one on the chain, three on ER nodes), 2 connections, 1 lost socket, all channels of 1 message (the unsubscription channels, too), which is one request short of a circle |

The bounds let each race happen: two calls are an owner and a waiter (a third
would be another waiter), three slots are a state before, between and after
fetch and subscription, two breaks let a message cross a reconnection, and a
channel of one or two messages is full when it matters; three changes are a
delegation, the way back and a second delegation; two connections of one handler
are enough for one of them to be blocked for good and the other to go on (two
handlers with two requests each were checked for `NoCircularWait`, too). The runs of the dispatcher and of the three modules of requests
do not check for deadlock: with no announcement, no request and no change left
they wait.

One run shows that the code does something else than its documentation says (a
finding in `PROJECT.json`, with the line quoted): `account_delegation`
(`SourcesAdjusted`). The delegation is read, from a cache that may be behind,
before the subscription is confirmed, and an account delegated in between is
never followed.

More of the kind are kept as formulas and configurations, outside the list of
runs:

| Formula | Does not hold because | To see it |
|---|---|---|
| `Coherent` | an eviction's late unsubscription ends the new subscription of the address (delegations.rs:338, against the comments at 98 and 163) | `CacheEvictionRace.cfg` |
| `Coherent` | entries survive `SyncTerminated` (delegations.rs:409, against the comment at 411) | `CacheCoherence.cfg` with `Terminations = 1` |
| `Coherent` | a fetch from before an interruption lands in a younger, failed placeholder (delegations.rs:367) | `CacheCoherence.cfg` with `Exhaustions = 1`, `Cancels = 0` |
| `Revived` | a resubscription in flight is lost with the socket (connection.rs:248, against notification.rs:36) | `ConnectionResubscribe.cfg` |
| `StreamContinuous` | one subscriber's unsubscription silences the others of the account (connection.rs:194) | `ConnectionPool.cfg` |
| `NoOrphanSubscription` | a subscription confirmed too late is never closed upstream (connection.rs:163) | `ConnectionPool.cfg` |
| `OfflineUnrouted` | an upstream that goes offline while its pool is being opened is routed to (dispatch.rs:113, against the comment at 88) | `DispatcherOffline.cfg` |
| `ConnectionLimit` | an upstream announced twice gets two pools (dispatch.rs:93) | `DispatcherOffline.cfg` |
| `ReadyMeansEstablished` | `ready` is notified when the first pool is open (dispatch.rs:117) | `DispatcherOffline.cfg` |
| `AddressesPropagate` | a changed FQDN never reaches the table (routes.rs:219, against the repository's README.md:33) | `RoutesAddress.cfg` |
| `ClosuresPropagate` | a change without a subscription in place is never noticed (routes.rs:277) | `RoutesTable.cfg` |
| `StatusesRouted` | the first signature chooses the upstream for all of a call (http.rs:225, against the repository's README.md:55) | `HttpStatuses.cfg` |

`Coherent` therefore holds without evictions and terminations, and with either
interruptions or failed fetches (`CacheCoherence.cfg` with `Interrupts = 0` and
`Exhaustions = 1` passes for `Coherent`); `Revived` holds for one loss;
`AnswersTrue` holds while fetches do not fail for good (a failed fetch is
answered as "not delegated").

## Fairness

The Tokio runtime polls every task that can go on: weak fairness of the steps of
a call, of the updater, of a connection and of a handler. `tokio::select!` picks
at random among its ready branches: strong fairness of the request and
unsubscription branches of a connection, which notifications must not starve.
From outside, an RPC request ends (`fetch` gives up after its attempts), the
sync service sends what it has, a ping on a dead socket fails in the end, a
connection attempt ends, an upstream does not let notifications starve its
answers, and connected clients read. The assumption on RPC is `RpcEnds`, which only
`CallsReturn` makes; `StreamServes` and `Converges` do without it.
`DispatcherGoesOn` assumes strong fairness only of the request branch, of
whichever connection; sends that wait for room need weak fairness, and nothing is
assumed of the unsubscription branch.
Nothing is assumed of faults, registry changes, evictions or client departures.

## Proofs

Each theorem holds for every value of the constants: any sets of addresses,
calls, nodes, connections and clients, all capacities and any number of faults.
The invariants named below were checked by TLC on the instances of the runs
before they were proved.

Delegation cache (`SentinelAssumption`, `BoundAssumption`):

- `TypeCorrect` (`Spec => []TypeOK`). The invariant `TypeInv` adds `LocalsOK`:
  a call that is not idle has an address, and one at a place that uses a fill
  handle has one; without this, the accesses `fills[calls[t].fill]` are untyped.
- `FillsAlwaysOwned` (`Spec => []FillsOwned`). `FillsOwned` alone is not
  inductive: an owner ends its fill only if the fill is its own. `FillInv` adds
  that two calls never own one handle, that an owned fill is pending, that an
  entry's fill belongs to an owner of that address, and that a fill is out of the cache
  before it is resolved. One lemma per kind of step (drop, detach, resolve,
  insert, wait, and the frame for all others).
- `EntriesFaithful` (`Spec => []EntryFaithful`) and `CacheImplementsView`
  (`Spec => ImplementsView`). `SourceInv` adds that every message in the channel
  and every fetched record that is still to be merged is the record of its slot;
  then an installed entry is, too. Each step of the cache is `Produce`, `Learn`,
  `Forget` or a stutter of `DelegationView`.
- `AnswersAlwaysTrue` (`Spec => [](NoneExhausted => AnswersTrue)`). A waiter
  answers with what the owner of its fill resolved, so `AnswerInv` says that the
  fill of a waiter belongs to its own address (`WaitersMatched`), that a resolved
  one holds a record the chain had (`WaitersSound`), and the same of what every
  call has at hand (`Sound`). `NoneExhausted` (no fetch has given up so far) is
  needed: a fetch that gives up is answered with `None`.
- `CoherenceKept` (`Spec => [](Spared => Coherent)`, assuming `Rollback <=
  ReplayWindow`). `Spared` says that so far no entry was evicted, no fetch gave up
  and the service has not ended; interruptions, cancellations and slow fetches
  are unrestricted. `Coherent` is about filled entries only, but what will fill
  them is elsewhere: `CoherenceInv` adds that the changes after every message in
  the channel are still to be sent or behind it (`MessageCoherent`), that an
  entry is filled, or the placeholder of a fill, never both or neither
  (`EntryCoherent`), and that the owner of a placeholder is covered from the
  `min_context_slot` of its fetch on as long as the placeholder is there
  (`CallCoherent`): a fetch older than an interruption finds its placeholder
  gone, and changes a later entry only if it is filled and older. `CoherenceFrame`
  reduces a step to what it does to one entry (`Continued`) and to its own call.
  The hypotheses are needed: TLC finds violations with `ReplayWindow = 0`, and
  for each of the three faults (see the table above).

Websocket connections and their handlers (`WsSentinelAssumption`,
`WsBoundAssumption`):

- `ConnectionTypeCorrect` (`TypeOK`). `TypeInv` adds that the message at hand is
  of the kind the task handles, that a handler has an account from its start
  on, that only handlers that have started are asked for, and that a lost socket
  carries nothing.
- `AccountsStayApart` (`TopicIsolation`). `TopicInv` says that everything a
  connection holds agrees with the ids of its present socket: unread messages,
  the message at hand with its listeners, and the table of subscribers. It is
  kept because ids are given again only after `reestablish` has emptied the
  table and replaced the channel; one lemma (`TopicKept`) shows that a step which
  forgets no account and adds only what is served keeps all of it.
- `MailboxesKeepProtocol` (`MailboxProtocol`) and `NoLossUnreported`
  (`NoSilentLoss`). Neither is inductive. `ProtocolInv` follows the subscription of
  one client through the system: its request is in the queue once, or sent by
  one connection, or being confirmed by one (`OneRequest`); meanwhile it is
  registered nowhere, holds no handle and has an empty mailbox (`AskingWaits`);
  it is registered under one id of one connection (`OneRegistration`); a
  confirmation is unread until the handle is taken, and the disconnection is in
  the mailbox from the moment the connection forgets the handler (`MailKnown`);
  handlers that have not started or have ended are empty (`StateKnown`). Two
  parts are about connections: the listeners of a notification under way are
  registered (so a closed one can be removed), and only handlers that have ended
  unsubscribe (so an unsubscription never takes a live handler off the table).
  Most steps leave a client where it is (`ClientKept`) or forget one that has
  ended (`ClientFaded`), and each lemma argues about the one client it moves.

Dispatcher (`DispatcherAssumption`):

- `DispatcherTypeCorrect` (`TypeOK`), `OnlineAlwaysRouted` (`OnlineRouted`) and
  `RequestsReachTheirUpstream`, by the one invariant `DispatcherInv`: a pool under
  way has an upstream, the dispatcher is blocked only on the queue of an upstream
  in its map, and a queue in the map is the open pool of that upstream.

Routing table (`RoutesAssumption`):

- `TypeCorrect`, `RoutesRemovable` (`RouteRemovable`) and `ProximitiesMeasured`
  (`ProximityMeasured`), the last by the bounds of the weighted average with
  integer division.
- `ClosedNodesUnrouted` (`ClosedUnrouted`). `ClosedInv` adds what the unread feed
  says: the last message about a node that missed no change is its present
  record.

Channels (`BackpressureAssumption`):

- `BackpressureTypeCorrect` (`TypeOK`).
- `CirclesNeedRequests` (`NoCircularWait`). `BackpressureInv` adds that what a
  connection sends is about subscriptions of its own and that a lost one is
  told once. In a circle over the dispatcher's channel the requests in the channel,
  in the queue, at the dispatcher and at the sending handler are at different
  places, and each connection is blocked on a subscription of its own, so that the
  connections are mapped one to one into the live or told ones; the cardinalities
  of these disjoint sets add up. For a circle over an unsubscription channel,
  `HandleInv` adds that a subscription which is held or being ended belongs to a
  connection (`HandlesTaken`), and that an unsubscription is about a subscription
  of that connection which is neither (`UnsubsTaken`): the full channel, the
  subscription being ended and one of every other connection are then different
  requests. These two need that a confirmation is unread at most once, is
  read before the loss of its subscription, and is about one nobody has done
  anything with (`ConfirmedOnce`, `ConfirmsSent`), and that a mailbox belongs to its
  handler (`MailOwned`).

HTTP methods (`HttpAssumption`):

- `HttpTypeCorrect` (`TypeOK`), `CallsRoutedByAnswers` (`RoutedByAnswers`),
  `PositionsAlwaysMatch` (`PositionsMatch`) and `ToldIsRemembered` (`Remembered`), by
  the one invariant `HttpInv`. A call shares nothing with the others but the
  caches and what upstreams have received, so most of `HttpInv` is a predicate
  of the locals of one call (`CallInv`), and `CallStep` shows once that a step of one call
  keeps it for all. `RoutedByAnswers` needs that the choice made so far is the one node
  answered so far (`Resolved`), which is why a change of the delegation between two
  lookups ends in a conflict or not at all. `PositionsMatch` needs that a part still to
  be answered asks the upstream of its positions, and that every position is
  answered or in such a part (`Parts`). `Remembered` needs that the upstream of a
  call that is about to remember has what it will be remembered for (`Known`), and
  that nothing received is taken back.

Account subscriptions (`AccountAssumption`):

- `AccountTypeCorrect` (`TypeOK`), `ChainAlwaysKept` (`ChainKept`) and
  `LossesAlwaysExplained` (`LossesExplained`), by the one invariant `AccountInv`.
  `ChainKept` needs `Marked`: without a lost connection, whatever the handler made
  on a delegation (requests, subscribers, handles, unread messages,
  unsubscriptions) has an id of its own, the mark `Ephem`, and is about an ER node,
  so that an unsubscription never goes to the base chain. (A revived
  subscription keeps its mark and goes elsewhere, which is why a lost connection is an
  exception.) `LossesExplained` needs `Followed`: a handler whose account is
  delegated listens to its node, or has asked to, or has the announcement of
  the delegation in front of it, in the feed of the base chain or in the mailbox.
  That the announcement reaches the mailbox uses that an order of the
  listeners is a permutation of them (`OrderRange`, by the pigeonhole principle).

TLC evaluates the assumptions in every run.

Every invariant of the passing runs, and the refinement, is a theorem. Model-checked only:

- liveness (`CallsReturn`, `Converges`, `StreamServes`, `LossReported`,
  `Revived`, `RouterStarts`, `DispatcherUnblocked`, `SilentNodeDropped`,
  `DispatcherGoesOn`): temporal reasoning under fairness is out of the prover's reach.

## Not modelled

- `all_routes` and the constant answers of `rpc/http.rs`: they change nothing
  and wait for nothing. Slots, commitments and encodings of HTTP answers.
- A dispatcher that drops requests of an unknown upstream is modelled in
  `SubscriptionDispatcher`, but not composed with `AccountSubscription`.
- A static identity (`static_er_identity`) is in `HttpRouting` but not in its run;
  `closest_node` of `RoutingTable` is the one that measures.
- Metrics, configuration, error conversions, trait declarations, and the
  encodings of keys and ids: they hold no state that the router reads back.

## Plan

1. An abstract specification of a subscription (asking, registered, told) that
   `WebsocketConnection` implements; `ProtocolInv` is most of its refinement.
