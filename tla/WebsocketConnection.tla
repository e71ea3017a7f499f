-------------------------- MODULE WebsocketConnection --------------------------
(***************************************************************************)
(* The upstream websocket connections of the router                        *)
(* (src/src/pubsub/connection.rs) and their subscribers, the handlers of   *)
(* accountSubscribe for accounts that are not delegated                    *)
(* (src/src/server/websocket.rs).                                          *)
(*                                                                         *)
(* The connections share one queue of subscription requests (they steal    *)
(* work from it).  Each keeps its own tables, notices that its socket is   *)
(* gone only when it next writes to it, tells its subscribers and          *)
(* reconnects.  A subscriber reads one mailbox, into which every           *)
(* connection it subscribed through writes, and asks for its subscription  *)
(* again when it is told of a disconnection.                               *)
(*                                                                         *)
(* An action is a segment of a task between two awaits that can block or   *)
(* fail.  A subscriber generates its request id and its subscriber id once *)
(* and keeps both, so that the client itself stands for the two.           *)
(***************************************************************************)
EXTENDS Integers, Sequences

CONSTANTS
  Conns,                 \* connections of one upstream, with a shared queue
  Clients,               \* accountSubscribe calls: request and subscriber id
  Topics,                \* accounts (and parameters) to subscribe to
  Subids,                \* ids the upstream gives to subscriptions
  NoConn, NoSub, NoTopic,
  MailboxCapacity,       \* bound of a subscriber's channel
  InboxCapacity,         \* bound of the channel filled by receive
  MaxReconnectAttempts,  \* MAX_RECONNECT_ATTEMPTS
  Budget                 \* bound: how often each fault below may happen

Faults == {"break", "refuse", "reject"}

Frame == [type : {"subscribe"}, id : Clients]
           \cup [type : {"unsubscribe"}, sub : Subids]
WebsocketMessage == [type : {"Subscribed"}, id : Clients, sub : Subids]
                      \cup [type : {"Notification"}, sub : Subids,
                            payload : Topics]
PubsubMessage == [type : {"Subscribed", "Disconnected"}, conn : Conns]
                   \cup [type : {"Notification"}, payload : Topics]
Task == [pc : {"run", "confirm", "notify", "lost", "dead"},
         sends : SUBSET Clients, message : WebsocketMessage \cup {NoSub},
         attempt : Nat]
Subscriber == [pc : {"idle", "confirm", "live", "gone"},
               handle : Conns \cup {NoConn}, topic : Topics \cup {NoTopic}]

ASSUME WsSentinelAssumption ==
  /\ NoConn \notin Conns
  /\ NoSub \notin Subids \cup WebsocketMessage
  /\ NoTopic \notin Topics

ASSUME WsBoundAssumption ==
  /\ MailboxCapacity \in Nat \ {0}
  /\ InboxCapacity \in Nat \ {0}
  /\ MaxReconnectAttempts \in Nat
  /\ Budget \in [Faults -> Nat]

VARIABLES
  requests,         \* the queue of subscription requests
  task,             \* what the task of each connection is doing
  inflights,        \* requests sent and not yet confirmed
  request_to_subs,  \* subscription id of every confirmed request
  subscriptions,    \* subscribers of every subscription id
  unsubs,           \* the channel of unsubscription requests
  inbox,            \* what receive read from the socket
  link,             \* external: "up", or "broken" and not yet noticed
  outbox,           \* external: frames on their way to the upstream
  served,           \* external: topic given to each id on this socket
  active,           \* external: ids the upstream sends notifications for
  clients,          \* state of the accountSubscribe handlers
  mailbox,          \* their channels
  faults            \* what is left of Budget

tables == <<inflights, request_to_subs, subscriptions>>
socket == <<inbox, link, outbox, served, active>>
vars == <<requests, task, tables, unsubs, socket, clients, mailbox, faults>>

-----------------------------------------------------------------------------
Doing(pc, sends, message) ==
  [pc |-> pc, sends |-> sends, message |-> message, attempt |-> 0]
Running == Doing("run", {}, NoSub)
Handler(pc, handle, topic) == [pc |-> pc, handle |-> handle, topic |-> topic]
Unmapped == [k \in Clients |-> NoSub]
NoSubscribers == [s \in Subids |-> {}]

Is(c, pc) == task[c].pc = pc
Open(k) == clients[k].pc \in {"confirm", "live"}
Spend(f) == faults[f] > 0 /\ faults' = [faults EXCEPT ![f] = @ - 1]

\* The handler of k ends: its receiver goes, with what it has not read.
Close(k) ==
  /\ clients' = [clients EXCEPT ![k] = Handler("gone", NoConn, @.topic)]
  /\ mailbox' = [mailbox EXCEPT ![k] = <<>>]

\* sender.send(message).await on the channel of k: waits while it is full.
Post(k, message) ==
  /\ Len(mailbox[k]) < MailboxCapacity
  /\ mailbox' = [mailbox EXCEPT ![k] = Append(@, message)]

Init ==
  /\ requests = <<>>
  /\ task = [c \in Conns |-> Running]
  /\ inflights = [c \in Conns |-> {}]
  /\ request_to_subs = [c \in Conns |-> Unmapped]
  /\ subscriptions = [c \in Conns |-> NoSubscribers]
  /\ unsubs = [c \in Conns |-> <<>>]
  /\ inbox = [c \in Conns |-> <<>>]
  /\ link = [c \in Conns |-> "up"]
  /\ outbox = [c \in Conns |-> <<>>]
  /\ served = [c \in Conns |-> [s \in Subids |-> NoTopic]]
  /\ active = [c \in Conns |-> {}]
  /\ clients = [k \in Clients |-> Handler("idle", NoConn, NoTopic)]
  /\ mailbox = [k \in Clients |-> <<>>]
  /\ faults = Budget

-----------------------------------------------------------------------------
(* The upstream (external): identical subscriptions of one socket share an *)
(* id, and an id is not given again on the same socket.                    *)

UpstreamSubscribe(c, s) ==
  LET k == Head(outbox[c]).id
      topic == clients[k].topic
      known == {i \in active[c] : served[c][i] = topic}
  IN
  /\ outbox[c] # <<>> /\ Head(outbox[c]).type = "subscribe"
  /\ Len(inbox[c]) < InboxCapacity
  /\ s \in IF known # {} THEN known
             ELSE {i \in Subids : served[c][i] = NoTopic}
  /\ outbox' = [outbox EXCEPT ![c] = Tail(@)]
  /\ served' = [served EXCEPT ![c][s] = topic]
  /\ active' = [active EXCEPT ![c] = @ \cup {s}]
  /\ inbox' = [inbox EXCEPT ![c] =
                 Append(@, [type |-> "Subscribed", id |-> k, sub |-> s])]
  /\ UNCHANGED <<requests, task, tables, unsubs, link, clients, mailbox,
                 faults>>

\* An error answer, which the connection fails to deserialize and skips.
UpstreamReject(c) ==
  /\ outbox[c] # <<>> /\ Head(outbox[c]).type = "subscribe"
  /\ Spend("reject")
  /\ outbox' = [outbox EXCEPT ![c] = Tail(@)]
  /\ UNCHANGED <<requests, task, tables, unsubs, inbox, link, served, active,
                 clients, mailbox>>

UpstreamUnsubscribe(c) ==
  /\ outbox[c] # <<>> /\ Head(outbox[c]).type = "unsubscribe"
  /\ outbox' = [outbox EXCEPT ![c] = Tail(@)]
  /\ active' = [active EXCEPT ![c] = @ \ {Head(outbox[c]).sub}]
  /\ UNCHANGED <<requests, task, tables, unsubs, inbox, link, served, clients,
                 mailbox, faults>>

UpstreamNotify(c, s) ==
  /\ s \in active[c]
  /\ Len(inbox[c]) < InboxCapacity
  /\ inbox' = [inbox EXCEPT ![c] =
                 Append(@, [type |-> "Notification", sub |-> s,
                            payload |-> served[c][s]])]
  /\ UNCHANGED <<requests, task, tables, unsubs, link, outbox, served, active,
                 clients, mailbox, faults>>

\* The socket dies: receive ends after the first n messages.
LinkBreaks(c, n) ==
  /\ link[c] = "up"
  /\ n \in 0 .. Len(inbox[c])
  /\ Spend("break")
  /\ link' = [link EXCEPT ![c] = "broken"]
  /\ inbox' = [inbox EXCEPT ![c] = SubSeq(@, 1, n)]
  /\ outbox' = [outbox EXCEPT ![c] = <<>>]
  /\ active' = [active EXCEPT ![c] = {}]
  /\ UNCHANGED <<requests, task, tables, unsubs, served, clients, mailbox>>

-----------------------------------------------------------------------------
(* WebsocketConnection::run                                                *)

Received(c, type) ==
  /\ Is(c, "run")
  /\ inbox[c] # <<>> /\ Head(inbox[c]).type = type
  /\ inbox' = [inbox EXCEPT ![c] = Tail(@)]

\* A notification for an id with no listeners is skipped.
ReceiveNotification(c) ==
  LET m == Head(inbox[c])
      listeners == subscriptions[c][m.sub]
  IN
  /\ Received(c, "Notification")
  /\ task' = IF listeners = {} THEN task
             ELSE [task EXCEPT ![c] = Doing("notify", listeners, m)]
  /\ UNCHANGED <<requests, tables, unsubs, link, outbox, served, active,
                 clients, mailbox, faults>>

\* One listener after the other; one whose channel is closed is removed.
SendNotification(c, k) ==
  LET m == task[c].message IN
  /\ Is(c, "notify") /\ k \in task[c].sends
  /\ \/ /\ Open(k)
        /\ Post(k, [type |-> "Notification", payload |-> m.payload])
        /\ UNCHANGED subscriptions
     \/ /\ ~ Open(k)
        /\ subscriptions' = [subscriptions EXCEPT ![c][m.sub] = @ \ {k}]
        /\ UNCHANGED mailbox
  /\ task' = [task EXCEPT ![c] = IF @.sends = {k} THEN Running
                                 ELSE Doing("notify", @.sends \ {k}, m)]
  /\ UNCHANGED <<requests, inflights, request_to_subs, unsubs, socket,
                 clients, faults>>

\* A confirmation of an unknown request is skipped.
ReceiveSubscribed(c) ==
  LET m == Head(inbox[c]) IN
  /\ Received(c, "Subscribed")
  /\ \/ /\ m.id \in inflights[c]
        /\ inflights' = [inflights EXCEPT ![c] = @ \ {m.id}]
        /\ request_to_subs' = [request_to_subs EXCEPT ![c][m.id] = m.sub]
        /\ task' = [task EXCEPT ![c] = Doing("confirm", {m.id}, m)]
     \/ /\ m.id \notin inflights[c]
        /\ UNCHANGED <<inflights, request_to_subs, task>>
  /\ UNCHANGED <<requests, subscriptions, unsubs, link, outbox, served,
                 active, clients, mailbox, faults>>

\* The subscriber is registered once the handle is in its channel.
SendSubscribed(c) ==
  LET m == task[c].message IN
  /\ Is(c, "confirm")
  /\ \/ /\ Open(m.id)
        /\ Post(m.id, [type |-> "Subscribed", conn |-> c])
        /\ subscriptions' = [subscriptions EXCEPT ![c][m.sub] =
                               @ \cup {m.id}]
     \/ /\ ~ Open(m.id)
        /\ UNCHANGED <<mailbox, subscriptions>>
  /\ task' = [task EXCEPT ![c] = Running]
  /\ UNCHANGED <<requests, inflights, request_to_subs, unsubs, socket,
                 clients, faults>>

\* Mutant: the subscribers are forgotten without being told.
reestablish_silent(c, subs) ==
  /\ task' = [task EXCEPT ![c] = Doing("lost", {}, NoSub)]
  /\ request_to_subs' = [request_to_subs EXCEPT ![c] = Unmapped]
  /\ subscriptions' = [subscriptions EXCEPT ![c] = NoSubscribers]

\* reestablish starts with the tables: subs are the subscribers to tell.
reestablish(c, subs) ==
  /\ task' = [task EXCEPT ![c] = Doing("lost", {}, NoSub)]
  /\ request_to_subs' = [request_to_subs EXCEPT ![c] = Unmapped]
  /\ subscriptions' = [subscriptions EXCEPT ![c] = subs]

\* sender.send(frame).await with subs as the table of subscribers.  Writing
\* to a broken socket fails or disappears in a buffer.
SendFrame(c, frame, subs) ==
  \/ /\ link[c] = "up"
     /\ outbox' = [outbox EXCEPT ![c] = Append(@, frame)]
     /\ subscriptions' = [subscriptions EXCEPT ![c] = subs]
     /\ UNCHANGED <<task, request_to_subs>>
  \/ /\ link[c] = "broken"
     /\ subscriptions' = [subscriptions EXCEPT ![c] = subs]
     /\ UNCHANGED <<outbox, task, request_to_subs>>
  \/ /\ link[c] = "broken"
     /\ reestablish(c, subs)
     /\ UNCHANGED outbox

\* The id of the request is looked up, its subscriber removed, and the
\* upstream asked to end the subscription.
unsubscribe(c) ==
  LET k == Head(unsubs[c])
      s == request_to_subs[c][k]
      known == s # NoSub /\ subscriptions[c][s] # {}
  IN
  /\ Is(c, "run") /\ unsubs[c] # <<>>
  /\ unsubs' = [unsubs EXCEPT ![c] = Tail(@)]
  /\ \/ /\ ~ known
        /\ UNCHANGED <<task, request_to_subs, subscriptions, outbox>>
     \/ /\ known
        /\ SendFrame(c, [type |-> "unsubscribe", sub |-> s],
                     [subscriptions[c] EXCEPT ![s] = @ \ {k}])
  /\ UNCHANGED <<requests, inflights, inbox, link, served, active, clients,
                 mailbox, faults>>

TakeRequest(c) ==
  LET k == Head(requests) IN
  /\ Is(c, "run") /\ requests # <<>>
  /\ requests' = Tail(requests)
  /\ inflights' = [inflights EXCEPT ![c] = @ \cup {k}]
  /\ SendFrame(c, [type |-> "subscribe", id |-> k], subscriptions[c])
  /\ UNCHANGED <<unsubs, inbox, link, served, active, clients, mailbox,
                 faults>>

\* Mutant: a failed ping does not start a reconnection.
PingFailed_ignored(c) ==
  /\ Is(c, "run") /\ link[c] = "broken"
  /\ UNCHANGED vars

\* The periodic ping is how an otherwise idle connection notices the loss.
PingFailed(c) ==
  /\ Is(c, "run") /\ link[c] = "broken"
  /\ reestablish(c, subscriptions[c])
  /\ UNCHANGED <<requests, inflights, unsubs, socket, clients, mailbox,
                 faults>>

\* A ping that goes out (or seems to) changes nothing.
PingSent(c) == Is(c, "run") /\ UNCHANGED vars

-----------------------------------------------------------------------------
(* reestablish: the subscribers are told, then the socket is opened anew.  *)

\* Mutant: the table is iterated over instead of drained.
SendDisconnected_iter(c, s, k) ==
  /\ Is(c, "lost") /\ k \in subscriptions[c][s]
  /\ \/ Open(k) /\ Post(k, [type |-> "Disconnected", conn |-> c])
     \/ ~ Open(k) /\ UNCHANGED mailbox
  /\ UNCHANGED <<requests, task, tables, unsubs, socket, clients, faults>>

SendDisconnected(c, s, k) ==
  /\ Is(c, "lost") /\ k \in subscriptions[c][s]
  /\ \/ Open(k) /\ Post(k, [type |-> "Disconnected", conn |-> c])
     \/ ~ Open(k) /\ UNCHANGED mailbox
  /\ subscriptions' = [subscriptions EXCEPT ![c][s] = @ \ {k}]
  /\ UNCHANGED <<requests, task, inflights, request_to_subs, unsubs, socket,
                 clients, faults>>

Connecting(c) == Is(c, "lost") /\ subscriptions[c] = NoSubscribers

\* Mutant: the channel of the old socket stays in use.
Reconnected_keeps_receiver(c) ==
  /\ Connecting(c)
  /\ task' = [task EXCEPT ![c] = Running]
  /\ link' = [link EXCEPT ![c] = "up"]
  /\ served' = [served EXCEPT ![c] = [s \in Subids |-> NoTopic]]
  /\ UNCHANGED <<requests, tables, unsubs, inbox, outbox, active, clients,
                 mailbox, faults>>

Reconnected(c) ==
  /\ Connecting(c)
  /\ task' = [task EXCEPT ![c] = Running]
  /\ link' = [link EXCEPT ![c] = "up"]
  /\ inbox' = [inbox EXCEPT ![c] = <<>>]
  /\ served' = [served EXCEPT ![c] = [s \in Subids |-> NoTopic]]
  /\ UNCHANGED <<requests, tables, unsubs, outbox, active, clients, mailbox,
                 faults>>

\* Mutant: no limit on the attempts.
ReconnectFailed_forever(c) ==
  /\ Connecting(c)
  /\ Spend("refuse")
  /\ task' = [task EXCEPT ![c].attempt = @ + 1]
  /\ UNCHANGED <<requests, tables, unsubs, socket, clients, mailbox>>

\* After the last attempt the task ends and drops what it holds.
ReconnectFailed(c) ==
  /\ Connecting(c)
  /\ Spend("refuse")
  /\ \/ /\ task[c].attempt < MaxReconnectAttempts
        /\ task' = [task EXCEPT ![c].attempt = @ + 1]
        /\ UNCHANGED <<inflights, unsubs, inbox>>
     \/ /\ task[c].attempt = MaxReconnectAttempts
        /\ task' = [task EXCEPT ![c] = Doing("dead", {}, NoSub)]
        /\ inflights' = [inflights EXCEPT ![c] = {}]
        /\ unsubs' = [unsubs EXCEPT ![c] = <<>>]
        /\ inbox' = [inbox EXCEPT ![c] = <<>>]
  /\ UNCHANGED <<requests, request_to_subs, subscriptions, link, outbox,
                 served, active, clients, mailbox>>

-----------------------------------------------------------------------------
(* account_subscribe and AccountSubscriptionHandler::run                   *)

\* The dispatcher puts the request into the queue of the upstream, unless
\* every receiver of that queue is gone.
Submit(k) ==
  requests' = IF \A c \in Conns : Is(c, "dead") THEN requests
              ELSE Append(requests, k)

account_subscribe(k, topic) ==
  /\ clients[k].pc = "idle"
  /\ clients' = [clients EXCEPT ![k] = Handler("confirm", NoConn, topic)]
  /\ Submit(k)
  /\ UNCHANGED <<task, tables, unsubs, socket, mailbox, faults>>

ConfirmTimeout(k) ==
  /\ clients[k].pc = "confirm" /\ mailbox[k] = <<>>
  /\ Close(k)
  /\ UNCHANGED <<requests, task, tables, unsubs, socket, faults>>

\* The next message of the mailbox.
Take(k, pc) ==
  /\ clients[k].pc = pc /\ mailbox[k] # <<>>
Consume(k) == mailbox' = [mailbox EXCEPT ![k] = Tail(@)]

\* Anything but a confirmation, or a sink that is not accepted, is an error.
Confirmed(k, accepted) ==
  LET m == Head(mailbox[k]) IN
  /\ Take(k, "confirm")
  /\ IF m.type = "Subscribed" /\ accepted
       THEN /\ clients' = [clients EXCEPT ![k] =
                              Handler("live", m.conn, @.topic)]
            /\ Consume(k)
       ELSE Close(k)
  /\ UNCHANGED <<requests, task, tables, unsubs, socket, faults>>

HandleSubscribed(k) ==
  /\ Take(k, "live") /\ Head(mailbox[k]).type = "Subscribed"
  /\ clients' = [clients EXCEPT ![k].handle = Head(mailbox[k]).conn]
  /\ Consume(k)
  /\ UNCHANGED <<requests, task, tables, unsubs, socket, faults>>

\* When the sink fails the handler ends, without unsubscribing.
HandleNotification(k) ==
  /\ Take(k, "live") /\ Head(mailbox[k]).type = "Notification"
  /\ \/ Consume(k) /\ UNCHANGED clients
     \/ Close(k)
  /\ UNCHANGED <<requests, task, tables, unsubs, socket, faults>>

\* Mutant: the subscription is not asked for again.
HandleDisconnected_gives_up(k) ==
  /\ Take(k, "live") /\ Head(mailbox[k]).type = "Disconnected"
  /\ Consume(k)
  /\ clients' = [clients EXCEPT ![k].handle = NoConn]
  /\ UNCHANGED <<requests, task, tables, unsubs, socket, faults>>

\* The handle is given up and the same request made again.
HandleDisconnected(k) ==
  /\ Take(k, "live") /\ Head(mailbox[k]).type = "Disconnected"
  /\ Consume(k)
  /\ IF clients[k].handle = NoConn THEN UNCHANGED <<clients, requests>>
     ELSE /\ clients' = [clients EXCEPT ![k].handle = NoConn]
          /\ Submit(k)
  /\ UNCHANGED <<task, tables, unsubs, socket, faults>>

\* The client is gone: unsubscribe through the handle, if there is one.
SinkClosed(k) ==
  LET c == clients[k].handle IN
  /\ clients[k].pc = "live"
  /\ unsubs' = IF c = NoConn \/ Is(c, "dead") THEN unsubs
               ELSE [unsubs EXCEPT ![c] = Append(@, k)]
  /\ Close(k)
  /\ UNCHANGED <<requests, task, tables, socket, faults>>

-----------------------------------------------------------------------------
Upstream(c) ==
  (\E s \in Subids : UpstreamSubscribe(c, s)) \/ UpstreamUnsubscribe(c)

Receive(c) == ReceiveNotification(c) \/ ReceiveSubscribed(c)

Send(c) ==
  \/ (\E k \in Clients : SendNotification(c, k)) \/ SendSubscribed(c)
  \/ (\E s \in Subids, k \in Clients : SendDisconnected(c, s, k))

Reconnect(c) == Reconnected(c) \/ ReconnectFailed(c)

Handle(k) ==
  \/ (\E accepted \in BOOLEAN : Confirmed(k, accepted))
  \/ HandleSubscribed(k) \/ HandleNotification(k) \/ HandleDisconnected(k)

Next ==
  \/ \E c \in Conns :
       \/ Upstream(c) \/ UpstreamReject(c)
       \/ (\E s \in Subids : UpstreamNotify(c, s))
       \/ (\E n \in 0 .. Len(inbox[c]) : LinkBreaks(c, n))
       \/ Receive(c) \/ Send(c) \/ unsubscribe(c) \/ TakeRequest(c)
       \/ PingFailed(c) \/ PingSent(c) \/ Reconnect(c)
  \/ \E k \in Clients :
       \/ (\E topic \in Topics : account_subscribe(k, topic))
       \/ ConfirmTimeout(k) \/ Handle(k) \/ SinkClosed(k)

Spec == Init /\ [][Next]_vars

(* Fairness: the runtime polls every task that can go on, tokio::select!   *)
(* chooses at random between its ready branches, a ping on a dead socket   *)
(* fails in the end, a connection attempt ends, the upstream does not let  *)
(* notifications starve its answers, and a client that is connected takes  *)
(* what it is sent.                                                        *)
LiveSpec ==
  /\ Spec
  /\ \A c \in Conns :
       /\ SF_vars(Upstream(c)) /\ SF_vars(unsubscribe(c) \/ TakeRequest(c))
       /\ WF_vars(Receive(c)) /\ WF_vars(Send(c))
       /\ WF_vars(PingFailed(c)) /\ WF_vars(Reconnect(c))
  /\ \A k \in Clients : WF_vars(Handle(k))

-----------------------------------------------------------------------------
(* Properties                                                              *)

\* The type of every variable.
TypeOK ==
  /\ requests \in Seq(Clients)
  /\ task \in [Conns -> Task]
  /\ \A c \in Conns : task[c].attempt <= MaxReconnectAttempts
  /\ inflights \in [Conns -> SUBSET Clients]
  /\ request_to_subs \in [Conns -> [Clients -> Subids \cup {NoSub}]]
  /\ subscriptions \in [Conns -> [Subids -> SUBSET Clients]]
  /\ unsubs \in [Conns -> Seq(Clients)]
  /\ inbox \in [Conns -> Seq(WebsocketMessage)]
  /\ link \in [Conns -> {"up", "broken"}]
  /\ outbox \in [Conns -> Seq(Frame)]
  /\ served \in [Conns -> [Subids -> Topics \cup {NoTopic}]]
  /\ active \in [Conns -> SUBSET Subids]
  /\ clients \in [Clients -> Subscriber]
  /\ mailbox \in [Clients -> Seq(PubsubMessage)]
  /\ faults \in [Faults -> Nat]

Registered(k, c) == \E s \in Subids : k \in subscriptions[c][s]
Told(k) == \E i \in DOMAIN mailbox[k] : mailbox[k][i].type = "Disconnected"

\* No subscriber is ever handed a notification of another account, although
\* the upstream gives the same ids again after a reconnection and messages
\* of the old socket may still be unread (run, Notification arm).
TopicIsolation ==
  \A k \in Clients : \A i \in DOMAIN mailbox[k] :
    mailbox[k][i].type = "Notification" =>
      mailbox[k][i].payload = clients[k].topic

\* What the handler relies on when it matches messages against its handles:
\* a confirmation comes only when it holds no handle, and nothing comes after
\* a Disconnected before it has asked again.  So no handle is overwritten and
\* no Disconnected is skipped, and a subscriber is never registered twice.
MailboxProtocol ==
  \A k \in Clients :
    /\ \A i \in DOMAIN mailbox[k] :
         /\ mailbox[k][i].type = "Subscribed" =>
              i = 1 /\ clients[k].handle = NoConn
         /\ mailbox[k][i].type = "Disconnected" =>
              i = Len(mailbox[k])
         /\ i = 1 /\ clients[k].handle = NoConn =>
              mailbox[k][i].type = "Subscribed"
    /\ \A c, d \in Conns, s, r \in Subids :
         k \in subscriptions[c][s] /\ k \in subscriptions[d][r]
           => c = d /\ s = r

\* A handler that holds a handle is known to the connection behind it, or has
\* the Disconnected in its mailbox: no loss goes unreported, however the
\* failing write, the reconnection and the end of the task interleave.
NoSilentLoss ==
  \A k \in Clients : clients[k].handle # NoConn =>
    Registered(k, clients[k].handle) \/ Told(k)

\* A registered subscriber is fed by the upstream under the id it is
\* registered with, unless the socket is gone: README, "ensuring a continuous
\* stream of updates".
StreamContinuous ==
  \A c \in Conns, s \in Subids : \A k \in subscriptions[c][s] :
    Open(k) /\ link[c] = "up" => s \in active[c]

\* subscriptions holds "All active subscriptions on this websocket
\* connection": an id the upstream serves has a subscriber, or its
\* confirmation is still being handled or its unsubscription is on its way.
NoOrphanSubscription ==
  \A c \in Conns : \A s \in active[c] :
    \/ subscriptions[c][s] # {}
    \/ Is(c, "confirm") /\ task[c].message.sub = s
    \/ \E i \in DOMAIN inbox[c] :
         inbox[c][i].type = "Subscribed" /\ inbox[c][i].sub = s
    \/ \E i \in DOMAIN outbox[c] : outbox[c][i] =
         [type |-> "unsubscribe", sub |-> s]
    \/ Is(c, "lost")

Waiting(k) == clients[k].pc = "live" /\ clients[k].handle = NoConn

\* A loss is reported: the subscriber of a broken connection gets rid of its
\* handle (reestablish reaches everyone, whoever closed in the meantime).
LossReported ==
  \A k \in Clients :
    clients[k].handle # NoConn /\ link[clients[k].handle] = "broken"
      ~> clients[k].handle = NoConn

\* "all subscribers should choose another connection to revive the given
\* subscription": a live subscriber without a handle gets one again, unless
\* all connections are dead.
Revived ==
  \A k \in Clients :
    Waiting(k) ~> (~ Waiting(k) \/ \A c \in Conns : Is(c, "dead"))

=============================================================================
