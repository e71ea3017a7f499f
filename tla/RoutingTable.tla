----------------------------- MODULE RoutingTable -----------------------------
(***************************************************************************)
(* The routing table (src/src/cache/routes.rs): the router's copy of the   *)
(* on-chain registry of ER nodes, kept by one updater task from a          *)
(* subscription to the registry, and the proximity of every node, measured *)
(* by periodic pings.                                                      *)
(*                                                                         *)
(* Time is counted in ping periods (proximity_ping_frequency).  The age of *)
(* a measurement is its distance from now, counted no further than one     *)
(* past the period after which it is stale.  The registry account of a     *)
(* node is a PDA of its identity, so that a node stands for both.          *)
(***************************************************************************)
EXTENDS Integers, Sequences, FiniteSets

CONSTANTS
  Nodes,           \* identities of ER nodes, and their registry accounts
  Urls,            \* addresses a registry record may name
  Absent,          \* no record in the table
  NoNode,          \* Pubkey::default(): the base chain answers
  Closed, Garbage, \* registry account: without lamports, undecodable
  StaticIdentity,  \* static_er_identity, or NoNode
  Latencies,       \* round trips in microseconds
  MAX,             \* u64::MAX
  StaleAfter,      \* STALE_PROXIMITY_MULTIPLIER, in ping periods
  MaxPingFailures, \* MAX_PROXIMITY_PING_FAILURES
  U8_MAX,          \* u8::MAX, where the count of failures saturates
  MaxLag,          \* bound: periods a ping may be under way
  FeedCapacity,    \* bound: unread messages of the registry subscription
  MaxChanges,      \* bound: changes of the registry
  MaxLosses        \* bound: losses of the registry subscription

ErRecord == [url : Urls, active : BOOLEAN]
Account == ErRecord \cup {Closed, Garbage}
UpstreamRecord == [url : Urls, proximity : Nat, age : 0 .. StaleAfter + 1,
                   measured : BOOLEAN, failures : 0 .. U8_MAX]
Ping == [node : Nodes, url : Urls, lag : 0 .. MaxLag]
Message == [type : {"Notification"}, node : Nodes, account : Account]
             \cup [type : {"Disconnected"}]

ASSUME RoutesAssumption ==
  /\ Absent \notin UpstreamRecord
  /\ NoNode \notin Nodes /\ StaticIdentity \in Nodes \cup {NoNode}
  /\ Closed \notin ErRecord /\ Garbage \notin ErRecord /\ Closed # Garbage
  /\ MAX \in Nat /\ Latencies \subseteq 0 .. MAX - 1
  /\ StaleAfter \in Nat /\ MaxLag \in Nat
  /\ MaxChanges \in Nat /\ MaxLosses \in Nat
  /\ U8_MAX \in Nat /\ MaxPingFailures \in 1 .. U8_MAX

VARIABLES
  registry,         \* external: the accounts of the registry program
  reachable,        \* external: URLs whose node answers
  feed,             \* unread messages of the registry subscription
  mdp,              \* external: state of that subscription
  inner,            \* the table
  pda_to_identity,  \* registry accounts that were inserted
  announced,        \* last WsUpstreamState sent for a URL
  pings,            \* pings under way
  missed,           \* history: nodes with a change that was not sent
  left              \* what is left of the bounds

outside == <<registry, reachable, left>>
vars == <<outside, feed, mdp, inner, pda_to_identity, announced, pings,
          missed>>

-----------------------------------------------------------------------------
Present(n) == inner[n] # Absent
Decodable(a) == a \in ErRecord

\* UpstreamRecord::new_from_url
NewRecord(url) == [url |-> url, proximity |-> MAX, age |-> 0,
                   measured |-> FALSE, failures |-> 0]

\* Mutant: weights that do not add up.
update_proximity_overweight(r, last) ==
  [r EXCEPT !.proximity = IF @ = MAX THEN last
                          ELSE (@ * 85 + last * 25) \div 100,
            !.age = 0, !.measured = TRUE, !.failures = 0]

\* The first measurement counts in full, later ones for 15 per cent.
update_proximity(r, last) ==
  [r EXCEPT !.proximity = IF @ = MAX THEN last
                          ELSE (@ * 85 + last * 15) \div 100,
            !.age = 0, !.measured = TRUE, !.failures = 0]

\* Mutants: an addition that neither saturates nor wraps, and wrapping_add.
register_ping_failure_unsaturated(r) ==
  [r EXCEPT !.failures = @ + 1,
            !.proximity = IF r.failures + 1 >= MaxPingFailures THEN MAX ELSE @]
register_ping_failure_wraps(r) ==
  LET f == (r.failures + 1) % (U8_MAX + 1)
  IN  [r EXCEPT !.failures = f,
                !.proximity = IF f >= MaxPingFailures THEN MAX ELSE @]

\* u8 saturating_add; at the limit the average is forgotten.
register_ping_failure(r) ==
  LET f == IF r.failures < U8_MAX THEN r.failures + 1 ELSE U8_MAX
  IN  [r EXCEPT !.failures = f,
                !.proximity = IF f >= MaxPingFailures THEN MAX ELSE @]

has_fresh_proximity(r) ==
  /\ r.failures < MaxPingFailures
  /\ r.measured
  /\ r.age <= StaleAfter

\* Mutant: the minimum of the whole table.
closest_node_of_all ==
  {n \in Nodes : Present(n) /\ \A m \in Nodes :
     Present(m) => inner[n].proximity <= inner[m].proximity}

\* closest_node: what it may answer; the iteration order decides between
\* equals.
closest_node ==
  LET fresh == {n \in Nodes : /\ Present(n) /\ has_fresh_proximity(inner[n])
                              /\ inner[n].proximity < MAX}
      best == {n \in fresh : \A m \in fresh :
                 inner[n].proximity <= inner[m].proximity}
  IN  IF StaticIdentity # NoNode THEN {StaticIdentity}
      ELSE IF best = {} THEN {NoNode} ELSE best

\* The constructor inserts what it reads from the registry; the subscription
\* is asked for only afterwards.
Init ==
  /\ registry \in [Nodes -> Account]
  /\ reachable = Urls
  /\ inner = [n \in Nodes |-> IF Decodable(registry[n])
                THEN NewRecord(registry[n].url) ELSE Absent]
  /\ pda_to_identity = {n \in Nodes : Decodable(registry[n])}
  /\ announced = [u \in Urls |->
       IF \E n \in Nodes : registry[n] \in [url : {u}, active : {TRUE}]
         THEN "online" ELSE "offline"]
  /\ feed = <<>>
  /\ mdp = "requested"
  /\ pings = {}
  /\ missed = {}
  /\ left = [changes |-> MaxChanges, losses |-> MaxLosses]

-----------------------------------------------------------------------------
(* The chain, the nodes and the subscription (external).                   *)

Spend(b) == left[b] > 0 /\ left' = [left EXCEPT ![b] = @ - 1]

RegistryChange(n, a) ==
  /\ a # registry[n]
  /\ Spend("changes")
  /\ registry' = [registry EXCEPT ![n] = a]
  /\ \/ /\ mdp = "on" /\ Len(feed) < FeedCapacity
        /\ feed' = Append(feed, [type |-> "Notification", node |-> n,
                                 account |-> a])
        /\ missed' = missed \ {n}
     \/ /\ mdp # "on"
        /\ missed' = missed \cup {n}
        /\ UNCHANGED feed
  /\ UNCHANGED <<reachable, mdp, inner, pda_to_identity, announced, pings>>

NodeChange(u) ==
  /\ reachable' = IF u \in reachable THEN reachable \ {u}
                  ELSE reachable \cup {u}
  /\ UNCHANGED <<registry, left, feed, mdp, inner, pda_to_identity, announced,
                 pings, missed>>

Subscribed ==
  /\ mdp = "requested"
  /\ mdp' = "on"
  /\ UNCHANGED <<outside, feed, inner, pda_to_identity, announced, pings,
                 missed>>

SubscriptionLost ==
  /\ mdp = "on" /\ Len(feed) < FeedCapacity
  /\ Spend("losses")
  /\ mdp' = "lost"
  /\ feed' = Append(feed, [type |-> "Disconnected"])
  /\ UNCHANGED <<registry, reachable, inner, pda_to_identity, announced,
                 pings, missed>>

-----------------------------------------------------------------------------
(* updater                                                                 *)

\* Mutant: the route goes, its registry account stays known.
remove_entry_keeps_pda(n) ==
  /\ inner' = [inner EXCEPT ![n] = Absent]
  /\ announced' = IF Present(n) THEN [announced EXCEPT ![inner[n].url] =
                                        "offline"] ELSE announced
  /\ UNCHANGED pda_to_identity

remove_entry(n) ==
  /\ pda_to_identity' = pda_to_identity \ {n}
  /\ IF n \in pda_to_identity /\ Present(n)
       THEN /\ inner' = [inner EXCEPT ![n] = Absent]
            /\ announced' = [announced EXCEPT ![inner[n].url] = "offline"]
       ELSE UNCHANGED <<inner, announced>>

\* Mutant: a closed account is taken for one that cannot be decoded.
insert_entry_ignores_closed(n, a) ==
  IF Decodable(a) /\ a.url \in reachable
    THEN /\ pda_to_identity' = pda_to_identity \cup {n}
         /\ announced' = [announced EXCEPT ![a.url] =
                            IF a.active THEN "online" ELSE "offline"]
         /\ inner' = [inner EXCEPT ![n] = IF Present(n) THEN @
                                          ELSE NewRecord(a.url)]
    ELSE UNCHANGED <<inner, pda_to_identity, announced>>

\* A record that decodes and whose node answers is announced to the
\* dispatcher and inserted, unless the table has a record of the node:
\* insert_sync does not replace it.
insert_entry(n, a) ==
  \/ /\ a = Closed
     /\ remove_entry(n)
  \/ /\ Decodable(a) /\ a.url \in reachable
     /\ pda_to_identity' = pda_to_identity \cup {n}
     /\ announced' = [announced EXCEPT ![a.url] =
                        IF a.active THEN "online" ELSE "offline"]
     /\ inner' = [inner EXCEPT ![n] = IF Present(n) THEN @
                                      ELSE NewRecord(a.url)]
  \/ /\ a = Garbage \/ (Decodable(a) /\ a.url \notin reachable)
     /\ UNCHANGED <<inner, pda_to_identity, announced>>

HandleNotification ==
  LET m == Head(feed) IN
  /\ feed # <<>> /\ m.type = "Notification"
  /\ feed' = Tail(feed)
  /\ insert_entry(m.node, m.account)
  /\ UNCHANGED <<outside, mdp, pings, missed>>

\* The same subscription is sent again; the registry is not read again.
HandleDisconnected ==
  /\ feed # <<>> /\ Head(feed).type = "Disconnected"
  /\ feed' = Tail(feed)
  /\ mdp' = "requested"
  /\ UNCHANGED <<outside, inner, pda_to_identity, announced, pings, missed>>

\* A period ends: every node of the table is pinged, at the address its
\* client was made for.
PingTick ==
  /\ \A q \in pings : q.lag < MaxLag
  /\ inner' = [n \in Nodes |->
       IF Present(n) /\ inner[n].age <= StaleAfter
         THEN [inner[n] EXCEPT !.age = @ + 1] ELSE inner[n]]
  /\ pings' = {[q EXCEPT !.lag = @ + 1] : q \in pings} \cup
       IF StaticIdentity # NoNode THEN {}
       ELSE {[node |-> n, url |-> inner[n].url, lag |-> 0] :
               n \in {m \in Nodes : Present(m)}}
  /\ UNCHANGED <<outside, feed, mdp, pda_to_identity, announced, missed>>

\* Mutant: the measurement brings the record into the table.
PingAnswered_inserts(q, last) ==
  /\ q \in pings /\ q.url \in reachable
  /\ pings' = pings \ {q}
  /\ inner' = [inner EXCEPT ![q.node] =
       update_proximity(IF @ = Absent THEN NewRecord(q.url) ELSE @, last)]
  /\ UNCHANGED <<outside, feed, mdp, pda_to_identity, announced, missed>>

\* The result is credited to the node's record of now, if there is one.
PingAnswered(q, last) ==
  /\ q \in pings /\ q.url \in reachable
  /\ pings' = pings \ {q}
  /\ inner' = IF Present(q.node)
                THEN [inner EXCEPT ![q.node] = update_proximity(@, last)]
                ELSE inner
  /\ UNCHANGED <<outside, feed, mdp, pda_to_identity, announced, missed>>

\* An error, or no answer within the timeout.
PingFailed(q) ==
  /\ q \in pings
  /\ pings' = pings \ {q}
  /\ inner' = IF Present(q.node)
                THEN [inner EXCEPT ![q.node] = register_ping_failure(@)]
                ELSE inner
  /\ UNCHANGED <<outside, feed, mdp, pda_to_identity, announced, missed>>

-----------------------------------------------------------------------------
EndPing == \E q \in pings :
             PingFailed(q) \/ \E last \in Latencies : PingAnswered(q, last)

Next ==
  \/ \E n \in Nodes, a \in Account : RegistryChange(n, a)
  \/ \E u \in Urls : NodeChange(u)
  \/ Subscribed \/ SubscriptionLost
  \/ HandleNotification \/ HandleDisconnected \/ PingTick \/ EndPing

Spec == Init /\ [][Next]_vars

(* Fairness: the updater is polled, time passes, and a ping ends.          *)
LiveSpec ==
  /\ Spec
  /\ WF_vars(HandleNotification \/ HandleDisconnected)
  /\ WF_vars(PingTick) /\ WF_vars(EndPing)

-----------------------------------------------------------------------------
(* Properties                                                              *)

\* The type of every variable.
TypeOK ==
  /\ registry \in [Nodes -> Account]
  /\ reachable \subseteq Urls
  /\ feed \in Seq(Message)
  /\ mdp \in {"requested", "on", "lost"}
  /\ inner \in [Nodes -> UpstreamRecord \cup {Absent}]
  /\ pda_to_identity \subseteq Nodes
  /\ announced \in [Urls -> {"online", "offline"}]
  /\ pings \subseteq Ping
  /\ missed \subseteq Nodes
  /\ left \in [{"changes", "losses"} -> Nat]

\* The average of a node lies between the shortest and the longest round trip
\* ever measured, whatever the order of answers, failures and resets, and it
\* is u64::MAX exactly when there is none to rely on: a fresh node is never
\* passed over by closest_node for want of a number.
ProximityMeasured ==
  \A n \in Nodes : Present(n) =>
    LET r == inner[n] IN
    /\ r.proximity # MAX =>
         \E a, b \in Latencies : a <= r.proximity /\ r.proximity <= b
    /\ r.proximity = MAX <=> ~ r.measured \/ r.failures >= MaxPingFailures

\* Every route can be removed: remove_entry finds a node only through
\* pda_to_identity.  No late ping brings back a node that was removed.
RouteRemovable == \A n \in Nodes : Present(n) <=> n \in pda_to_identity

Pending(n) == \E i \in DOMAIN feed :
                feed[i].type = "Notification" /\ feed[i].node = n

\* A node that closed its registry account gets no more requests, once the
\* updater has read the change.
ClosedUnrouted ==
  \A n \in Nodes : registry[n] = Closed /\ ~ Pending(n) /\ n \notin missed
                     => ~ Present(n)

\* "Updates to this database are propagated to the router via a WebSocket
\* subscription": a closed account is noticed, sooner or later, whatever
\* happened to the subscription when it was closed.
ClosuresPropagate ==
  \A n \in Nodes : (registry[n] = Closed) ~> (~ Present(n) \/ registry[n] # Closed)

\* "the router determines the fully qualified domain name (FQDN) of a
\* validator": the address of a route is the one in the registry, once every
\* change has been read.
AddressesPropagate ==
  \A n \in Nodes :
    Decodable(registry[n]) /\ ~ Pending(n) /\ n \notin missed /\ Present(n)
      => inner[n].url = registry[n].url

\* A node that stops answering is not the closest for good, whether its pings
\* fail, or time out, or their results are lost.
SilentNodeDropped ==
  \A n \in Nodes :
    (<>[](Present(n) => inner[n].url \notin reachable))
      => <>[](n \notin closest_node)

=============================================================================
