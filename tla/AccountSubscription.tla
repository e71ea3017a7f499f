-------------------------- MODULE AccountSubscription --------------------------
(***************************************************************************)
(* One accountSubscribe of an account that is delegated and undelegated    *)
(* while the subscription lives (src/src/server/websocket.rs): the handler *)
(* subscribes to the base chain and to the ER node of the account, and     *)
(* follows the owner of the account in the notifications.                  *)
(*                                                                         *)
(* Each upstream is seen through one connection, whose tables are those of *)
(* WebsocketConnection; that module has the steps of a connection and of   *)
(* its loss, which are taken together here.  A notification carries the    *)
(* owner of the account, "dlp" for the delegation program: on the base     *)
(* chain it means that the account was delegated, on an ER node that it is *)
(* being undelegated.  The ids generated together are one number, 0 for    *)
(* those of the handler itself.  Requests that the dispatcher drops are    *)
(* the matter of SubscriptionDispatcher.                                   *)
(***************************************************************************)
EXTENDS Naturals, Sequences, SequencesExt

CONSTANTS
  Ers, Chain, None,
  MaxIds,        \* bound: ids generated by the handler after the first
  MaxSubs,       \* bound: ids an upstream gives to subscriptions
  FeedCapacity,  \* bound: unread notifications of a connection
  Budget         \* bound: changes of the delegation, and other faults

Upstreams == Ers \cup {Chain}
Ids == 0 .. MaxIds
Kinds == {"Chain", "Ephem"}
Events == {"change", "fault"}
Subscription == [request_id : Ids, subscriber_id : Ids,
                 destination : Upstreams, upstream : Kinds]
SubscriberHandle == [sub : 1 .. MaxSubs, subscriber_id : Ids,
                     request_id : Ids, upstream : Kinds]
SubscriptionHandle == [unsub : Upstreams, upstream : Kinds]
Unsubscription == [to : Upstreams, request_id : Ids]
Excuses == {"cache behind", "change unobserved", "unknown ER",
            "connection lost", "late unsubscription"}
Message == [type : {"Subscribed"}, id : Ids, handle : SubscriptionHandle]
             \cup [type : {"Notification"}, id : Ids, upstream : Kinds,
                   owner : {"dlp", "own"}]
             \cup [type : {"Disconnected"}, id : Ids]

ASSUME AccountAssumption ==
  /\ Chain \notin Ers /\ None \notin Upstreams \cup SubscriptionHandle
  /\ MaxIds \in Nat /\ MaxSubs \in Nat /\ FeedCapacity \in Nat
  /\ Budget \in [Events -> Nat]

VARIABLES
  authority,        \* external: node the account is delegated to, or None
  cached,           \* what get_delegation_authority answers
  inner,            \* ER nodes in the routing table
  requests,         \* subscriptions on their way to a confirmation
  unsubs,           \* unsubscriptions on their way to a connection
  active,           \* external: id under which an upstream sends, or 0
  given,            \* external: ids an upstream has given
  request_to_subs,  \* tables of the connections: id of a request, or 0
  subscriptions,    \* and the subscribers of every id
  feed,             \* notifications that a connection has yet to read
  pc, sink, handles, mailbox, generated,  \* the handler
  excuses,          \* history: why updates may be missing
  left              \* what is left of Budget

chain == <<authority, cached, inner>>
tables == <<active, given, request_to_subs, subscriptions, feed>>
handler == <<pc, sink, handles, generated>>
vars == <<chain, requests, unsubs, tables, handler, mailbox, excuses, left>>

-----------------------------------------------------------------------------
Spend(b) == left[b] > 0 /\ left' = [left EXCEPT ![b] = @ - 1]
Excuse(e, happened) == excuses' = IF happened THEN excuses \cup {e} ELSE excuses
Open == pc \in {"confirm", "live"}
NoHandles == [i \in Ids |-> None]
Listening(u) == active[u] # 0 /\ \E s \in subscriptions[u] : s.sub = active[u]

Init ==
  /\ authority \in Ers \cup {None}
  /\ cached = authority
  /\ inner = Ers
  /\ requests = {} /\ unsubs = {}
  /\ active = [u \in Upstreams |-> 0]
  /\ given = [u \in Upstreams |-> 0]
  /\ request_to_subs = [u \in Upstreams |-> [i \in Ids |-> 0]]
  /\ subscriptions = [u \in Upstreams |-> {}]
  /\ feed = [u \in Upstreams |-> <<>>]
  /\ pc = "idle" /\ sink = "open"
  /\ handles = NoHandles
  /\ generated = 0
  /\ mailbox = <<>>
  /\ excuses = {}
  /\ left = Budget

-----------------------------------------------------------------------------
(* The account, the nodes and the delegation cache (external).             *)

\* The upstreams in owners notify of the new owner.
Notify(owners) ==
  /\ \A u \in DOMAIN owners : Len(feed[u]) < FeedCapacity
  /\ feed' = [u \in Upstreams |->
       IF u \in DOMAIN owners /\ active[u] # 0
         THEN Append(feed[u], [sub |-> active[u], owner |-> owners[u]])
         ELSE feed[u]]

Delegate(v) ==
  /\ authority = None
  /\ Spend("change")
  /\ authority' = v
  /\ Notify([u \in {Chain} |-> "dlp"])
  /\ Excuse("change unobserved", ~ Listening(Chain))
  /\ UNCHANGED <<cached, inner, requests, unsubs, active, given,
                 request_to_subs, subscriptions, handler, mailbox>>

Undelegate ==
  /\ authority # None
  /\ Spend("change")
  /\ authority' = None
  /\ Notify([u \in {Chain, authority} |-> IF u = Chain THEN "own" ELSE "dlp"])
  /\ UNCHANGED <<cached, inner, requests, unsubs, active, given,
                 request_to_subs, subscriptions, handler, mailbox, excuses>>

\* The account changes without changing its owner.
Touch(u) ==
  /\ Spend("fault")
  /\ Notify([w \in {u} |-> IF u = Chain /\ authority # None THEN "dlp"
                           ELSE "own"])
  /\ UNCHANGED <<chain, requests, unsubs, active, given, request_to_subs,
                 subscriptions, handler, mailbox, excuses>>

\* The delegation cache learns of a change (module DelegationsCache).
CacheSync ==
  /\ cached # authority
  /\ cached' = authority
  /\ UNCHANGED <<authority, inner, requests, unsubs, tables, handler, mailbox,
                 excuses, left>>

RouteLost(v) ==
  /\ v \in inner
  /\ Spend("fault")
  /\ inner' = inner \ {v}
  /\ UNCHANGED <<authority, cached, requests, unsubs, tables, handler, mailbox,
                 excuses>>

-----------------------------------------------------------------------------
(* The connections, in the terms of WebsocketConnection.                   *)

\* A request is sent and confirmed: equal subscriptions share an id, and the
\* subscriber of an id is replaced by one with the same subscriber id.
Confirm(q) ==
  LET u == q.destination
      sub == IF active[u] # 0 THEN active[u] ELSE given[u] + 1
  IN
  /\ q \in requests
  /\ sub \in 1 .. MaxSubs
  /\ requests' = requests \ {q}
  /\ active' = [active EXCEPT ![u] = sub]
  /\ given' = [given EXCEPT ![u] = IF sub > @ THEN sub ELSE @]
  /\ request_to_subs' = [request_to_subs EXCEPT ![u][q.request_id] = sub]
  /\ \/ /\ Open
        /\ mailbox' = Append(mailbox, [type |-> "Subscribed",
             id |-> q.request_id,
             handle |-> [unsub |-> u, upstream |-> q.upstream]])
        /\ subscriptions' = [subscriptions EXCEPT ![u] =
             {s \in @ : s.sub # sub \/ s.subscriber_id # q.subscriber_id}
               \cup {[sub |-> sub, subscriber_id |-> q.subscriber_id,
                      request_id |-> q.request_id, upstream |-> q.upstream]}]
     \/ /\ ~ Open
        /\ UNCHANGED <<mailbox, subscriptions>>
  /\ UNCHANGED <<chain, unsubs, feed, handler, excuses, left>>

\* A notification is sent to the subscribers of its id, in the order of a
\* hash map; they are removed if the handler is gone.
Deliver(u) ==
  LET n == Head(feed[u])
      listeners == {s \in subscriptions[u] : s.sub = n.sub}
  IN
  /\ feed[u] # <<>>
  /\ feed' = [feed EXCEPT ![u] = Tail(@)]
  /\ \/ /\ Open
        /\ \E order \in SetToSeqs(listeners) :
             mailbox' = mailbox \o
               [i \in DOMAIN order |->
                  [type |-> "Notification", id |-> order[i].request_id,
                   upstream |-> order[i].upstream, owner |-> n.owner]]
        /\ UNCHANGED subscriptions
     \/ /\ ~ Open
        /\ subscriptions' = [subscriptions EXCEPT ![u] = @ \ listeners]
        /\ UNCHANGED mailbox
  /\ UNCHANGED <<chain, requests, unsubs, active, given, request_to_subs,
                 handler, excuses, left>>

\* The subscriber is removed from the id of the request, if the subscriber
\* id is right, and the upstream ends the subscription, whoever shares it.
unsubscribe(q) ==
  LET u == q.to
      sub == request_to_subs[u][q.request_id]
      known == sub # 0 /\ \E s \in subscriptions[u] : s.sub = sub
  IN
  /\ q \in unsubs
  /\ unsubs' = unsubs \ {q}
  /\ \/ /\ known
        /\ subscriptions' = [subscriptions EXCEPT ![u] =
             {s \in @ : s.sub # sub \/ s.subscriber_id # 0}]
        /\ active' = [active EXCEPT ![u] = IF @ = sub THEN 0 ELSE @]
        /\ Excuse("late unsubscription", Open /\ authority = u)
     \/ /\ ~ known
        /\ UNCHANGED <<subscriptions, active, excuses>>
  /\ UNCHANGED <<chain, requests, given, request_to_subs, feed, handler,
                 mailbox, left>>

\* The connection is lost, its subscribers are told, and it is back.
reestablish(u) ==
  /\ Spend("fault")
  /\ request_to_subs' = [request_to_subs EXCEPT ![u] = [i \in Ids |-> 0]]
  /\ subscriptions' = [subscriptions EXCEPT ![u] = {}]
  /\ active' = [active EXCEPT ![u] = 0]
  /\ feed' = [feed EXCEPT ![u] = <<>>]
  /\ IF Open THEN \E order \in SetToSeqs(subscriptions[u]) :
       mailbox' = mailbox \o
         [i \in DOMAIN order |-> [type |-> "Disconnected",
                                  id |-> order[i].request_id]]
     ELSE UNCHANGED mailbox
  /\ Excuse("connection lost", TRUE)
  /\ UNCHANGED <<chain, requests, unsubs, given, handler>>

-----------------------------------------------------------------------------
(* account_subscribe                                                       *)

Request(id, subscriber, destination, kind) ==
  [request_id |-> id, subscriber_id |-> subscriber,
   destination |-> destination, upstream |-> kind]

\* Mutant: a delegated account is watched at its ER node only.
FirstRequests_single == {Request(0, 0, IF cached = None THEN Chain ELSE cached,
                                 "Chain")}

\* The same request goes to the base chain and, marked as the chain's, to
\* the ER node of the account.
FirstRequests == {Request(0, 0, u, "Chain") : u \in {Chain, cached} \ {None}}

account_subscribe ==
  /\ pc = "idle"
  /\ \/ /\ cached \in Ers \ inner
        /\ pc' = "gone"
        /\ UNCHANGED <<requests, excuses>>
     \/ /\ cached \notin Ers \ inner
        /\ pc' = "confirm"
        /\ requests' = FirstRequests
        /\ Excuse("cache behind", cached # authority)
  /\ UNCHANGED <<chain, unsubs, tables, sink, handles, generated, mailbox,
                 left>>

\* The handler ends; its channel goes with what is unread.
Gone == pc' = "gone" /\ handles' = NoHandles /\ mailbox' = <<>>

\* No confirmation in time.  (Another message cannot come first: see
\* MailboxProtocol in WebsocketConnection.)
ConfirmationTimeout ==
  /\ pc = "confirm"
  /\ Gone
  /\ UNCHANGED <<chain, requests, unsubs, tables, sink, generated, excuses,
                 left>>

Receive(type) ==
  /\ mailbox # <<>> /\ Head(mailbox).type = type
  /\ mailbox' = Tail(mailbox)

\* The first message makes the subscription live, later ones replace the
\* handle of their request.
HandleSubscribed ==
  LET m == Head(mailbox) IN
  /\ Open /\ Receive("Subscribed")
  /\ pc' = "live"
  /\ handles' = [handles EXCEPT ![m.id] = m.handle]
  /\ UNCHANGED <<chain, requests, unsubs, tables, sink, generated, excuses,
                 left>>

-----------------------------------------------------------------------------
(* AccountSubscriptionHandler::run                                         *)

\* A subscription of its own at the ER node of the account.
subscribe_to_ephem(v) ==
  /\ generated < MaxIds
  /\ generated' = generated + 1
  /\ requests' = requests \cup {Request(generated + 1, generated + 1, v, "Ephem")}

\* Mutant: the comparison of the owner is inverted.
OwnerChanged_inverted(m) == m.owner # "dlp"

OwnerChanged(m) == m.owner = "dlp"

handle_delegation_status_change(m) ==
  \/ /\ ~ OwnerChanged(m)
     /\ UNCHANGED <<generated, requests, unsubs, handles, excuses>>
  \/ /\ OwnerChanged(m) /\ m.upstream = "Chain"
     /\ \/ /\ cached \in inner
           /\ subscribe_to_ephem(cached)
           /\ Excuse("cache behind", cached # authority)
        \/ /\ cached \notin inner
           /\ Excuse(IF cached = None THEN "cache behind" ELSE "unknown ER",
                     authority # None)
           /\ UNCHANGED <<generated, requests>>
     /\ UNCHANGED <<unsubs, handles>>
  \/ /\ OwnerChanged(m) /\ m.upstream = "Ephem"
     /\ handles' = [handles EXCEPT ![m.id] = None]
     /\ unsubs' = IF handles[m.id] = None THEN unsubs
                  ELSE unsubs \cup {[to |-> handles[m.id].unsub,
                                     request_id |-> m.id]}
     /\ UNCHANGED <<generated, requests, excuses>>

\* The delegation is looked at first; if the sink refuses the message, the
\* handler ends without unsubscribing.
HandleNotification ==
  /\ pc = "live"
  /\ mailbox # <<>> /\ Head(mailbox).type = "Notification"
  /\ handle_delegation_status_change(Head(mailbox))
  /\ \/ sink = "open" /\ mailbox' = Tail(mailbox) /\ UNCHANGED pc
     \/ sink = "closed" /\ mailbox' = <<>> /\ pc' = "gone"
  /\ UNCHANGED <<chain, tables, sink, left>>

\* Mutant: without a case for accounts that are not delegated.
Resubscription_delegated(id, old) == Request(id, 0, cached, old.upstream)

\* At the upstream of the account as it is now, with the old request id, the
\* handler's subscriber id and the old mark.
Resubscription(id, old) ==
  Request(id, 0, IF cached = None THEN Chain ELSE cached, old.upstream)

HandleDisconnected ==
  LET id == Head(mailbox).id
      old == handles[id]
  IN
  /\ pc = "live" /\ Receive("Disconnected")
  /\ handles' = [handles EXCEPT ![id] = None]
  /\ requests' = IF old = None \/ cached \in Ers \ inner THEN requests
                 ELSE requests \cup {Resubscription(id, old)}
  /\ UNCHANGED <<chain, unsubs, tables, pc, sink, generated, excuses, left>>

ClientCloses ==
  /\ sink = "open" /\ pc = "live"
  /\ sink' = "closed"
  /\ UNCHANGED <<chain, requests, unsubs, tables, pc, handles, generated,
                 mailbox, excuses, left>>

\* Every handle of the map is used to unsubscribe.
SinkClosed ==
  /\ pc = "live" /\ sink = "closed"
  /\ unsubs' = unsubs \cup {[to |-> handles[i].unsub, request_id |-> i] :
                              i \in {j \in Ids : handles[j] # None}}
  /\ Gone
  /\ UNCHANGED <<chain, requests, tables, sink, generated, excuses, left>>

-----------------------------------------------------------------------------
Next ==
  \/ \E v \in Ers : Delegate(v) \/ RouteLost(v)
  \/ \E u \in Upstreams : Touch(u) \/ Deliver(u) \/ reestablish(u)
  \/ Undelegate \/ CacheSync
  \/ \E q \in requests : Confirm(q)
  \/ \E q \in unsubs : unsubscribe(q)
  \/ account_subscribe \/ ConfirmationTimeout
  \/ HandleSubscribed \/ HandleNotification
  \/ HandleDisconnected \/ ClientCloses \/ SinkClosed

Spec == Init /\ [][Next]_vars

-----------------------------------------------------------------------------
(* Properties                                                              *)

\* The type of every variable.
TypeOK ==
  /\ authority \in Ers \cup {None} /\ cached \in Ers \cup {None}
  /\ inner \subseteq Ers
  /\ requests \subseteq Subscription
  /\ unsubs \subseteq Unsubscription
  /\ active \in [Upstreams -> 0 .. MaxSubs]
  /\ given \in [Upstreams -> 0 .. MaxSubs]
  /\ request_to_subs \in [Upstreams -> [Ids -> 0 .. MaxSubs]]
  /\ subscriptions \in [Upstreams -> SUBSET SubscriberHandle]
  /\ feed \in [Upstreams -> Seq([sub : 1 .. MaxSubs, owner : {"dlp", "own"}])]
  /\ pc \in {"idle", "confirm", "live", "gone"}
  /\ sink \in {"open", "closed"}
  /\ handles \in [Ids -> SubscriptionHandle \cup {None}]
  /\ generated \in Ids
  /\ mailbox \in Seq(Message)
  /\ excuses \subseteq Excuses
  /\ left \in [Events -> Nat]

\* Nothing is on its way that would change the sources of the handler.
Quiet ==
  /\ pc = "live" /\ requests = {} /\ unsubs = {} /\ mailbox = <<>>
  /\ \A u \in Upstreams : feed[u] = <<>>

Source == IF authority = None THEN Chain ELSE authority

\* "Should the delegation status change, the router transparently adjusts
\* subscription sources, ensuring a continuous stream of updates": when
\* everything has been read, the handler listens where the account lives.
SourcesAdjusted == Quiet => Listening(Source)

\* The ways in which a subscription may lose track of its account are known:
\* the delegation cache learned of the change later than the handler, the
\* account changed before the base chain confirmed the subscription, its ER
\* node was not in the routing table, a connection was lost, or an ER
\* subscription was ended after the account came back to the same node.
\* Otherwise the handler listens where the account lives.
LossesExplained == Quiet /\ excuses = {} => Listening(Source)

\* Without a lost connection, nothing that happens at an ER node ends the
\* subscription to the base chain: every later delegation is seen.
ChainKept ==
  pc = "live" /\ "connection lost" \notin excuses =>
    Listening(Chain) \/ \E q \in requests : q.destination = Chain

=============================================================================
