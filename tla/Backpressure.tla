----------------------------- MODULE Backpressure -----------------------------
(***************************************************************************)
(* Who waits for whom over the bounded channels of the subscription path:  *)
(* a handler of accountSubscribe (src/src/server/websocket.rs) waits for   *)
(* room in the dispatcher's channel, the dispatcher                        *)
(* (src/src/pubsub/dispatch.rs) for room in the queue of an upstream's     *)
(* connections, a connection (src/src/pubsub/connection.rs) for room in    *)
(* the mailbox of a handler, and a handler that ends a subscription or     *)
(* closes for room in the unsubscription channel of a connection.          *)
(*                                                                         *)
(* This composes the handlers of AccountSubscription, the dispatcher of    *)
(* SubscriptionDispatcher and the connections of WebsocketConnection, all  *)
(* of them reduced to what they wait for: a subscription request is an id  *)
(* in one place, whatever it asks for.  All requests go to one upstream,   *)
(* which is where they contend the most.                                   *)
(***************************************************************************)
EXTENDS Naturals, Sequences, FiniteSets

CONSTANTS
  Handlers,        \* accountSubscribe calls
  Ids,             \* their subscription requests
  Ephem,           \* the requests among them that go to an ER node
  Owner,           \* handler of a request
  Conns, NoConn,   \* connections of the upstream
  MailboxCapacity, \* channel of a handler
  ChannelCapacity, \* channel to the dispatcher
  QueueCapacity,   \* queue of the upstream
  UnsubCapacity,   \* unsubscription channel of a connection
  MaxLosses        \* bound: how often a connection loses its socket

Types == {"Subscribed", "Notification", "Disconnected"}
Places == {"fresh", "sending", "channel", "blocked", "queue", "live", "told",
           "closed"}
Task == [type : Types \cup {"run"}, sends : SUBSET Ids]

ASSUME BackpressureAssumption ==
  /\ IsFiniteSet(Ids) /\ Owner \in [Ids -> Handlers] /\ NoConn \notin Conns
  /\ MailboxCapacity \in Nat /\ ChannelCapacity \in Nat
  /\ QueueCapacity \in Nat /\ UnsubCapacity \in Nat /\ MaxLosses \in Nat

VARIABLES
  place,    \* where each subscription request is
  at,       \* connection that has taken it
  pc,       \* state of every handler
  handles,  \* confirmed subscriptions that their handler knows of
  ending,   \* subscriptions whose handler is sending the unsubscription
  mailbox,  \* the channels of the handlers
  task,     \* what each connection is sending to its subscribers
  unsubs,   \* the unsubscription channels
  losses    \* how often a socket was lost

vars == <<place, at, pc, handles, ending, mailbox, task, unsubs, losses>>

-----------------------------------------------------------------------------
In(p) == {id \in Ids : place[id] = p}
Own(h) == {id \in Ids : Owner[id] = h}
Waits(h) == \E id \in Own(h) : place[id] = "sending"
Busy(h) == Waits(h) \/ Own(h) \cap ending # {}
Running == [type |-> "run", sends |-> {}]
Subscribers(c) == {id \in In("live") : at[id] = c}
Move(S, p) == place' = [id \in Ids |-> IF id \in S THEN p ELSE place[id]]

\* dispatcher_tx.send: at once if there is room in the channel.
send(id) ==
  Move({id}, IF Cardinality(In("channel")) < ChannelCapacity
               THEN "channel" ELSE "sending")

\* RequestId::generate: ids are used in turn.
generate(S) == CHOOSE id \in S : TRUE

Init ==
  /\ place = [id \in Ids |-> "fresh"]
  /\ at = [id \in Ids |-> NoConn]
  /\ pc = [h \in Handlers |-> "open"]
  /\ handles = {}
  /\ ending = {}
  /\ mailbox = [h \in Handlers |-> <<>>]
  /\ task = [c \in Conns |-> Running]
  /\ unsubs = [c \in Conns |-> {}]
  /\ losses = 0

-----------------------------------------------------------------------------
(* The handlers                                                            *)

\* The first request of a handler; it waits for room in send.
account_subscribe(h) ==
  /\ pc[h] = "open" /\ Own(h) \subseteq In("fresh") /\ Own(h) \ Ephem # {}
  /\ send(generate(Own(h) \ Ephem))
  /\ UNCHANGED <<at, pc, handles, ending, mailbox, task, unsubs, losses>>

Received(h, type) ==
  /\ pc[h] = "open" /\ ~ Busy(h)
  /\ mailbox[h] # <<>> /\ Head(mailbox[h]).type = type
  /\ mailbox' = [mailbox EXCEPT ![h] = Tail(@)]

ReadSubscribed(h) ==
  /\ Received(h, "Subscribed")
  /\ handles' = handles \cup {Head(mailbox[h]).id}
  /\ UNCHANGED <<place, at, pc, ending, task, unsubs, losses>>

\* If the account was delegated, the handler asks for another subscription; if
\* it has left the ER node, the handler ends the subscription that says so.  Then
\* the notification is passed on, or the sink is closed and the loop ends.
ReadNotification(h) ==
  LET id == Head(mailbox[h]).id IN
  /\ Received(h, "Notification")
  /\ \/ UNCHANGED <<place, handles, ending>>
     \/ /\ id \notin Ephem /\ Own(h) \cap Ephem \cap In("fresh") # {}
        /\ send(generate(Own(h) \cap Ephem \cap In("fresh")))
        /\ UNCHANGED <<handles, ending>>
     \/ /\ id \in handles \cap Ephem
        /\ handles' = handles \ {id}
        /\ ending' = ending \cup {id}
        /\ UNCHANGED place
  /\ UNCHANGED pc \/ pc' = [pc EXCEPT ![h] = "closing"]
  /\ UNCHANGED <<at, task, unsubs, losses>>

\* A lost subscription is asked for again, unless its node is not known.
ReadDisconnected(h) ==
  LET id == Head(mailbox[h]).id IN
  /\ Received(h, "Disconnected")
  /\ handles' = handles \ {id}
  /\ \/ id \in handles /\ send(id)
     \/ Move({id}, "closed")
  /\ at' = [at EXCEPT ![id] = NoConn]
  /\ UNCHANGED <<pc, ending, task, unsubs, losses>>

\* Mutant: a channel without a bound.
Send_unbounded(id) ==
  /\ place[id] = "sending"
  /\ Move({id}, "channel")
  /\ UNCHANGED <<at, pc, handles, ending, mailbox, task, unsubs, losses>>

\* dispatcher_tx.send completes.
Send(id) ==
  /\ place[id] = "sending"
  /\ Cardinality(In("channel")) < ChannelCapacity
  /\ Move({id}, "channel")
  /\ UNCHANGED <<at, pc, handles, ending, mailbox, task, unsubs, losses>>

\* The sink is closed, which a waiting handler does not notice, and the handles
\* are drained; before the first confirmation, the call times out.
Close(h) ==
  /\ pc[h] = "open" /\ ~ Busy(h) /\ Own(h) \cap In("fresh") # Own(h)
  /\ pc' = [pc EXCEPT ![h] = "closing"]
  /\ handles' = handles \ Own(h)
  /\ ending' = ending \cup (handles \cap Own(h))
  /\ UNCHANGED <<place, at, mailbox, task, unsubs, losses>>

\* unsub.send completes, for one handle after the other.
SendUnsub(id) ==
  /\ id \in ending
  /\ Cardinality(unsubs[at[id]]) < UnsubCapacity
  /\ unsubs' = [unsubs EXCEPT ![at[id]] = @ \cup {id}]
  /\ ending' = ending \ {id}
  /\ UNCHANGED <<place, at, pc, handles, mailbox, task, losses>>

\* The receiver and the handles that are left are dropped with the handler.
Gone(h) ==
  /\ pc[h] = "closing" /\ ~ Busy(h)
  /\ pc' = [pc EXCEPT ![h] = "gone"]
  /\ handles' = handles \ Own(h)
  /\ mailbox' = [mailbox EXCEPT ![h] = <<>>]
  /\ UNCHANGED <<place, at, ending, task, unsubs, losses>>

-----------------------------------------------------------------------------
(* The dispatcher: a blocking send, during which it reads nothing.         *)

\* Mutant: a queue without room of its own, which hands a request over to a
\* connection that reads.
Room_direct == In("queue") = {} /\ \E c \in Conns : task[c] = Running

Room == Cardinality(In("queue")) < QueueCapacity

Forward(id) ==
  /\ place[id] = "channel" /\ In("blocked") = {}
  /\ Move({id}, IF Room THEN "queue" ELSE "blocked")
  /\ UNCHANGED <<at, pc, handles, ending, mailbox, task, unsubs, losses>>

Unblock(id) ==
  /\ place[id] = "blocked" /\ Room
  /\ Move({id}, "queue")
  /\ UNCHANGED <<at, pc, handles, ending, mailbox, task, unsubs, losses>>

-----------------------------------------------------------------------------
(* The connections                                                         *)

\* A request is taken, subscribed and confirmed.
Take(c, id) ==
  /\ task[c] = Running /\ place[id] = "queue"
  /\ Move({id}, "live")
  /\ at' = [at EXCEPT ![id] = c]
  /\ task' = [task EXCEPT ![c] = [type |-> "Subscribed", sends |-> {id}]]
  /\ UNCHANGED <<pc, handles, ending, mailbox, unsubs, losses>>

Notify(c) ==
  /\ task[c] = Running /\ Subscribers(c) # {}
  /\ task' = [task EXCEPT ![c] = [type |-> "Notification",
                                  sends |-> Subscribers(c)]]
  /\ UNCHANGED <<place, at, pc, handles, ending, mailbox, unsubs, losses>>

\* The socket is lost; the subscribers are told.
reestablish(c) ==
  /\ task[c] = Running /\ Subscribers(c) # {}
  /\ task' = [task EXCEPT ![c] = [type |-> "Disconnected",
                                  sends |-> Subscribers(c)]]
  /\ Move(Subscribers(c), "told")
  /\ losses < MaxLosses /\ losses' = losses + 1
  /\ UNCHANGED <<at, pc, handles, ending, mailbox, unsubs>>

\* sender.send(message).await: there is room in the mailbox.
CanPost(id) ==
  pc[Owner[id]] # "gone" /\ Len(mailbox[Owner[id]]) < MailboxCapacity

\* One subscriber is sent to, or found gone and removed.
Post(c, id) ==
  LET h == Owner[id] IN
  /\ id \in task[c].sends
  /\ \/ /\ CanPost(id)
        /\ mailbox' = [mailbox EXCEPT ![h] =
                         Append(@, [type |-> task[c].type, id |-> id])]
        /\ UNCHANGED <<place, at>>
     \/ /\ pc[h] = "gone"
        /\ Move({id}, "closed")
        /\ at' = [at EXCEPT ![id] = NoConn]
        /\ UNCHANGED mailbox
  /\ task' = [task EXCEPT ![c] =
                IF @.sends = {id} THEN Running
                ELSE [type |-> @.type, sends |-> @.sends \ {id}]]
  /\ UNCHANGED <<pc, handles, ending, unsubs, losses>>

\* An unsubscription takes its subscriber off the table.
TakeUnsub(c, id) ==
  /\ task[c] = Running /\ id \in unsubs[c]
  /\ unsubs' = [unsubs EXCEPT ![c] = @ \ {id}]
  /\ Move({id} \cap Subscribers(c), "closed")
  /\ at' = [at EXCEPT ![id] = IF id \in Subscribers(c) THEN NoConn ELSE @]
  /\ UNCHANGED <<pc, handles, ending, mailbox, task, losses>>

-----------------------------------------------------------------------------
HandlerStep(h) ==
  \/ ReadSubscribed(h) \/ ReadNotification(h) \/ ReadDisconnected(h) \/ Gone(h)
  \/ \E id \in Own(h) : Send(id) \/ SendUnsub(id)

Dispatch == \E id \in Ids : Forward(id) \/ Unblock(id)

Next ==
  \/ \E h \in Handlers : account_subscribe(h) \/ HandlerStep(h) \/ Close(h)
  \/ Dispatch
  \/ \E c \in Conns : \/ Notify(c) \/ reestablish(c)
                      \/ \E id \in Ids : Take(c, id) \/ Post(c, id)
                                           \/ TakeUnsub(c, id)

Spec == Init /\ [][Next]_vars

(* Fairness: every task that can go on is polled, clients read what they   *)
(* are sent, and the random choice of select! does not pass over requests  *)
(* for ever.                                                               *)
LiveSpec ==
  /\ Spec
  /\ WF_vars(Dispatch)
  /\ \A h \in Handlers : WF_vars(HandlerStep(h))
  /\ SF_vars(\E c \in Conns, id \in Ids : Take(c, id))
  /\ WF_vars(\E c \in Conns, id \in Ids : Post(c, id))

-----------------------------------------------------------------------------
(* Properties                                                              *)

\* The type of every variable, and the bound of every channel.
TypeOK ==
  /\ place \in [Ids -> Places]
  /\ at \in [Ids -> Conns \cup {NoConn}]
  /\ pc \in [Handlers -> {"open", "closing", "gone"}]
  /\ handles \subseteq Ids /\ ending \subseteq Ids
  /\ mailbox \in [Handlers -> Seq([type : Types, id : Ids])]
  /\ task \in [Conns -> Task]
  /\ unsubs \in [Conns -> SUBSET Ids]
  /\ losses \in 0 .. MaxLosses
  /\ \A h \in Handlers : Len(mailbox[h]) <= MailboxCapacity
  /\ Cardinality(In("channel")) <= ChannelCapacity
  /\ Cardinality(In("queue")) <= QueueCapacity
  /\ Cardinality(In("blocked")) <= 1
  /\ \A c \in Conns : Cardinality(unsubs[c]) <= UnsubCapacity

\* The dispatcher is blocked on the full queue of the upstream.
DispatcherStuck == In("blocked") # {} /\ ~ Room

\* A handler that waits for room in the channel of the dispatcher, or in the
\* unsubscription channel of a connection.
HandlerStuck(h) ==
  \/ Waits(h) /\ Cardinality(In("channel")) = ChannelCapacity
  \/ \E id \in Own(h) \cap ending :
       Cardinality(unsubs[at[id]]) = UnsubCapacity

\* A connection that waits for room in the mailbox of such a handler.
ConnStuck(c) ==
  \E id \in task[c].sends : /\ HandlerStuck(Owner[id])
                            /\ Len(mailbox[Owner[id]]) = MailboxCapacity

CircularWait ==
  Conns # {} /\ DispatcherStuck /\ \A c \in Conns : ConnStuck(c)

\* The requests a circle takes: a full queue, one that the dispatcher holds, one
\* at every connection, and either a full channel with one more that a handler
\* is sending, or a full unsubscription channel.
CircleSize ==
  QueueCapacity + 1 + Cardinality(Conns)
    + IF UnsubCapacity <= ChannelCapacity THEN UnsubCapacity
                                          ELSE ChannelCapacity + 1

\* Handlers, dispatcher and connections never wait for each other in a circle,
\* be it over the channel of the dispatcher or over the unsubscriptions, unless
\* there are as many requests as the circle takes.
NoCircularWait == Cardinality(Ids) < CircleSize => ~ CircularWait

\* With fewer requests than a circle takes, a dispatcher that is blocked on a
\* full queue goes on, although handlers may be waiting for it, and although
\* connections and handlers that end a subscription may block each other for
\* good: a connection is left that takes requests.
DispatcherGoesOn ==
  Cardinality(Ids) < CircleSize => []<>(In("blocked") = {})

=============================================================================
