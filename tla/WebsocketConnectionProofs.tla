----------------------- MODULE WebsocketConnectionProofs -----------------------
(***************************************************************************)
(* Proofs about WebsocketConnection, for any number of connections and     *)
(* clients, all capacities and any number of losses: the types, and the    *)
(* isolation of accounts (TopicIsolation).  What a handler and its         *)
(* connections know of each other is in WebsocketProtocolProofs.           *)
(***************************************************************************)
EXTENDS WebsocketConnection, TLAPS

Confirmation == [type : {"Subscribed"}, id : Clients, sub : Subids]
Update == [type : {"Notification"}, sub : Subids, payload : Topics]

\* The message at hand is of the kind that the connection is handling.
TaskMessage ==
  \A c \in Conns : /\ Is(c, "confirm") => task[c].message \in Confirmation
                   /\ Is(c, "notify") => task[c].message \in Update

\* A handler has an account from its start on.
TopicChosen ==
  \A k \in Clients : clients[k].topic = NoTopic <=> clients[k].pc = "idle"

\* Only handlers that have started are asked for.
AskedStarted ==
  /\ \A i \in DOMAIN requests : clients[requests[i]].pc # "idle"
  /\ \A c \in Conns : \A i \in DOMAIN outbox[c] :
       outbox[c][i].type = "subscribe" => clients[outbox[c][i].id].pc # "idle"

\* The upstream notifies of ids that it gave, and not through a lost socket.
ActiveServed ==
  \A c \in Conns : /\ \A s \in active[c] : served[c][s] # NoTopic
                   /\ link[c] = "broken" => active[c] = {} /\ outbox[c] = <<>>
                   /\ Is(c, "lost") => link[c] = "broken"

TypeInv == TypeOK /\ TaskMessage /\ TopicChosen /\ AskedStarted /\ ActiveServed

\* The rest of a sequence after its first element.
LEMMA TailOf ==
  ASSUME NEW S, NEW q \in Seq(S), q # <<>>
  PROVE  /\ Head(q) = q[1] /\ 1 \in DOMAIN q /\ Head(q) \in S
         /\ Tail(q) \in Seq(S)
         /\ Len(Tail(q)) = Len(q) - 1
         /\ \A i \in DOMAIN Tail(q) : i + 1 \in DOMAIN q /\ Tail(q)[i] = q[i + 1]
OBVIOUS

\* A sequence with an element added at its end.
LEMMA AppendOf ==
  ASSUME NEW S, NEW q \in Seq(S), NEW e \in S
  PROVE  /\ Append(q, e) \in Seq(S)
         /\ Len(Append(q, e)) = Len(q) + 1
         /\ Append(q, e)[Len(q) + 1] = e
         /\ \A i \in DOMAIN q : i \in DOMAIN Append(q, e) /\ Append(q, e)[i] = q[i]
         /\ \A i \in DOMAIN Append(q, e) :
              \/ i \in DOMAIN q /\ Append(q, e)[i] = q[i]
              \/ i = Len(q) + 1 /\ Append(q, e)[i] = e
OBVIOUS

\* The first messages of a sequence.
LEMMA PrefixOf ==
  ASSUME NEW S, NEW q \in Seq(S), NEW n \in 0 .. Len(q)
  PROVE  /\ SubSeq(q, 1, n) \in Seq(S)
         /\ \A i \in DOMAIN SubSeq(q, 1, n) :
              i \in DOMAIN q /\ SubSeq(q, 1, n)[i] = q[i]
OBVIOUS

\* What a task is doing, and its fields.
LEMMA DoingTask ==
  ASSUME NEW pc \in {"run", "confirm", "notify", "lost", "dead"},
         NEW sends \in SUBSET Clients, NEW message \in WebsocketMessage \cup {NoSub}
  PROVE  /\ Doing(pc, sends, message) \in Task
         /\ Doing(pc, sends, message).pc = pc
         /\ Doing(pc, sends, message).sends = sends
         /\ Doing(pc, sends, message).message = message
         /\ Doing(pc, sends, message).attempt = 0
BY DEF Doing, Task

\* The state of a handler, and its fields.
LEMMA HandlerSubscriber ==
  ASSUME NEW pc \in {"idle", "confirm", "live", "gone"},
         NEW handle \in Conns \cup {NoConn}, NEW topic \in Topics \cup {NoTopic}
  PROVE  /\ Handler(pc, handle, topic) \in Subscriber
         /\ Handler(pc, handle, topic).pc = pc
         /\ Handler(pc, handle, topic).handle = handle
         /\ Handler(pc, handle, topic).topic = topic
BY DEF Handler, Subscriber

\* The fields of a task.
LEMMA TaskFields ==
  ASSUME NEW t \in Task
  PROVE  /\ t.pc \in {"run", "confirm", "notify", "lost", "dead"}
         /\ t.sends \in SUBSET Clients /\ t.attempt \in Nat
         /\ t.message \in WebsocketMessage \cup {NoSub}
BY DEF Task

\* The fields of a handler.
LEMMA SubscriberFields ==
  ASSUME NEW h \in Subscriber
  PROVE  /\ h.pc \in {"idle", "confirm", "live", "gone"}
         /\ h.handle \in Conns \cup {NoConn} /\ h.topic \in Topics \cup {NoTopic}
BY DEF Subscriber

\* The messages, by their kind.
LEMMA MessageKinds ==
  /\ \A m \in WebsocketMessage : m.type \in {"Subscribed", "Notification"}
  /\ \A m \in WebsocketMessage : m.type = "Subscribed" => m \in Confirmation
  /\ \A m \in WebsocketMessage : m.type = "Notification" => m \in Update
  /\ \A m \in Confirmation : /\ m \in WebsocketMessage /\ m.type = "Subscribed"
                             /\ m.id \in Clients /\ m.sub \in Subids
  /\ \A m \in Update : /\ m \in WebsocketMessage /\ m.type = "Notification"
                       /\ m.sub \in Subids /\ m.payload \in Topics
BY DEF WebsocketMessage, Confirmation, Update

\* The messages the upstream makes.
LEMMA NewMessages ==
  /\ \A k \in Clients, s \in Subids :
       [type |-> "Subscribed", id |-> k, sub |-> s] \in Confirmation
  /\ \A s \in Subids, t \in Topics :
       [type |-> "Notification", sub |-> s, payload |-> t] \in Update
BY DEF Confirmation, Update

\* The frames, by their kind.
LEMMA FrameKinds ==
  /\ \A f \in Frame : /\ f.type = "subscribe" => f.id \in Clients
                      /\ f.type = "unsubscribe" => f.sub \in Subids
  /\ \A k \in Clients : [type |-> "subscribe", id |-> k] \in Frame
  /\ \A s \in Subids : [type |-> "unsubscribe", sub |-> s] \in Frame
BY DEF Frame

\* The messages of a mailbox, by their kind.
LEMMA MailKinds ==
  /\ \A m \in PubsubMessage :
       /\ m.type \in {"Subscribed", "Disconnected", "Notification"}
       /\ m.type \in {"Subscribed", "Disconnected"} => m.conn \in Conns
       /\ m.type = "Notification" => m.payload \in Topics
  /\ \A c \in Conns : /\ [type |-> "Subscribed", conn |-> c] \in PubsubMessage
                      /\ [type |-> "Disconnected", conn |-> c] \in PubsubMessage
  /\ \A t \in Topics : [type |-> "Notification", payload |-> t] \in PubsubMessage
BY DEF PubsubMessage

\* What is left of a bound is a natural number.
LEMMA SpendType ==
  ASSUME faults \in [Faults -> Nat], NEW f \in Faults, Spend(f)
  PROVE  faults' \in [Faults -> Nat]
BY DEF Spend

\* A task that waits for the next event.
LEMMA RunningTask ==
  /\ Running \in Task /\ Running.pc = "run" /\ Running.sends = {}
  /\ Running.message = NoSub /\ Running.attempt = 0
BY DoingTask DEF Running

\* The invariant holds at the start.
LEMMA TypeInit == Init => TypeInv
<1> SUFFICES ASSUME Init PROVE TypeInv
  OBVIOUS
<1>1. LET h == Handler("idle", NoConn, NoTopic) IN
      h \in Subscriber /\ h.pc = "idle" /\ h.topic = NoTopic
  BY HandlerSubscriber
<1>2. TypeOK
  BY <1>1, RunningTask, WsBoundAssumption
     DEF Init, TypeOK, Unmapped, NoSubscribers
<1>3. QED
  BY <1>1, <1>2, RunningTask
     DEF Init, TypeInv, TaskMessage, TopicChosen, AskedStarted, ActiveServed, Is

\* The types survive what the upstream and the socket do.
LEMMA TypeUpstream ==
  ASSUME TypeInv, NEW c \in Conns,
         \/ Upstream(c) \/ UpstreamReject(c)
         \/ \E s \in Subids : UpstreamNotify(c, s)
         \/ \E n \in 0 .. Len(inbox[c]) : LinkBreaks(c, n)
  PROVE  TypeInv'
<1> USE DEF TypeInv
<1>0. outbox[c] # <<>> => Tail(outbox[c]) \in Seq(Frame) /\ Head(outbox[c]) \in Frame
  BY TailOf DEF TypeOK
<1>1. ASSUME NEW s \in Subids, UpstreamSubscribe(c, s) PROVE TypeInv'
  <2> DEFINE k == Head(outbox[c]).id
             m == [type |-> "Subscribed", id |-> k, sub |-> s]
  <2>1. k \in Clients /\ clients[k].pc # "idle"
    BY <1>0, <1>1, FrameKinds, TailOf DEF UpstreamSubscribe, TypeOK, AskedStarted
  <2>2. clients[k].topic \in Topics
    BY <2>1, SubscriberFields DEF TypeOK, TopicChosen
  <2>3. m \in WebsocketMessage
    BY <2>1, NewMessages, MessageKinds
  <2> HIDE DEF m
  <2>4. inbox' \in [Conns -> Seq(WebsocketMessage)]
    BY <1>1, <2>3, AppendOf DEF UpstreamSubscribe, TypeOK, m
  <2> HIDE DEF k
  <2>5. outbox' = [outbox EXCEPT ![c] = Tail(@)] /\ outbox[c] # <<>>
    BY <1>1 DEF UpstreamSubscribe
  <2>6. served' = [served EXCEPT ![c][s] = clients[k].topic]
    BY <1>1 DEF UpstreamSubscribe, k
  <2>7. TypeOK'
    BY <1>0, <1>1, <2>2, <2>4, <2>5, <2>6, SMTT(30)
       DEF UpstreamSubscribe, TypeOK, tables
  <2>8. AskedStarted'
    BY <1>1, <2>5, TailOf DEF UpstreamSubscribe, TypeOK, AskedStarted
  <2>9. ActiveServed'
    BY <1>1, <2>2, <2>5, <2>6, WsSentinelAssumption, SMTT(30)
       DEF UpstreamSubscribe, TypeOK, ActiveServed, Is
  <2>10. QED
    BY <1>1, <2>7, <2>8, <2>9
       DEF UpstreamSubscribe, TaskMessage, TopicChosen, Is
<1>2. CASE UpstreamUnsubscribe(c)
  <2>1. outbox' = [outbox EXCEPT ![c] = Tail(@)] /\ outbox[c] # <<>>
    BY <1>2 DEF UpstreamUnsubscribe
  <2>2. TypeOK'
    BY <1>0, <1>2, <2>1 DEF UpstreamUnsubscribe, TypeOK, tables
  <2>3. AskedStarted'
    BY <1>2, <2>1, TailOf DEF UpstreamUnsubscribe, TypeOK, AskedStarted
  <2>4. ActiveServed'
    BY <1>2 DEF UpstreamUnsubscribe, TypeOK, ActiveServed, Is
  <2>5. QED
    BY <1>2, <2>2, <2>3, <2>4
       DEF UpstreamUnsubscribe, TaskMessage, TopicChosen, Is
<1>3. CASE UpstreamReject(c)
  <2>1. outbox' = [outbox EXCEPT ![c] = Tail(@)] /\ outbox[c] # <<>>
    BY <1>3 DEF UpstreamReject
  <2>2. TypeOK'
    BY <1>0, <1>3, <2>1, SpendType DEF UpstreamReject, TypeOK, tables, Faults
  <2>3. AskedStarted'
    BY <1>3, <2>1, TailOf DEF UpstreamReject, TypeOK, AskedStarted
  <2>4. QED
    BY <1>3, <2>2, <2>3
       DEF UpstreamReject, TaskMessage, TopicChosen, ActiveServed, Is
<1>4. ASSUME NEW s \in Subids, UpstreamNotify(c, s) PROVE TypeInv'
  <2> DEFINE m == [type |-> "Notification", sub |-> s, payload |-> served[c][s]]
  <2>1. served[c][s] \in Topics
    BY <1>4 DEF UpstreamNotify, TypeOK, ActiveServed
  <2>2. m \in WebsocketMessage
    BY <2>1, NewMessages, MessageKinds
  <2> HIDE DEF m
  <2>3. inbox' \in [Conns -> Seq(WebsocketMessage)]
    BY <1>4, <2>2, AppendOf DEF UpstreamNotify, TypeOK, m
  <2>4. QED
    BY <1>4, <2>3 DEF UpstreamNotify, TypeOK, tables, TaskMessage, TopicChosen,
                      AskedStarted, ActiveServed, Is
<1>5. ASSUME NEW n \in 0 .. Len(inbox[c]), LinkBreaks(c, n) PROVE TypeInv'
  <2>1. inbox' \in [Conns -> Seq(WebsocketMessage)]
    BY <1>5, PrefixOf DEF LinkBreaks, TypeOK
  <2>2. outbox' \in [Conns -> Seq(Frame)]
    BY <1>5 DEF LinkBreaks, TypeOK
  <2>3. TypeOK'
    BY <1>5, <2>1, <2>2, SpendType DEF LinkBreaks, TypeOK, tables, Faults
  <2>4. AskedStarted'
    BY <1>5 DEF LinkBreaks, TypeOK, AskedStarted
  <2>5. ActiveServed'
    BY <1>5 DEF LinkBreaks, TypeOK, ActiveServed, Is
  <2>6. QED
    BY <1>5, <2>3, <2>4, <2>5 DEF LinkBreaks, TaskMessage, TopicChosen, Is
<1>6. QED
  BY <1>1, <1>2, <1>3, <1>4, <1>5 DEF Upstream

\* One cell of a table of tables is changed.
LEMMA CellType ==
  ASSUME NEW A, NEW B, NEW S, NEW f \in [A -> [B -> S]],
         NEW x \in A, NEW y \in B, NEW v \in S
  PROVE  /\ [f EXCEPT ![x][y] = v] \in [A -> [B -> S]]
         /\ \A a \in A, b \in B : [f EXCEPT ![x][y] = v][a][b] =
                                    IF a = x /\ b = y THEN v ELSE f[a][b]
OBVIOUS

\* What is to be known of the tasks.
TasksOK ==
  /\ task \in [Conns -> Task] /\ TaskMessage
  /\ \A c \in Conns : /\ task[c].attempt <= MaxReconnectAttempts
                      /\ Is(c, "lost") => link[c] = "broken"

\* The task of c goes on with t.
Becomes(c, t) ==
  /\ task' = [task EXCEPT ![c] = t] /\ UNCHANGED link
  /\ t.attempt = 0
  /\ t.pc = "confirm" => t.message \in Confirmation
  /\ t.pc = "notify" => t.message \in Update
  /\ t.pc = "lost" => link[c] = "broken"

\* The tasks stay what they are but for that of c.
LEMMA TypeTask ==
  ASSUME TypeInv, NEW c \in Conns, NEW t \in Task, Becomes(c, t)
  PROVE  TasksOK'
BY WsBoundAssumption
   DEF TypeInv, TypeOK, TaskMessage, ActiveServed, Is, TasksOK, Becomes

\* The tasks stay what they are.
LEMMA SameTasks == TypeInv /\ UNCHANGED <<task, link>> => TasksOK'
BY DEF TypeInv, TypeOK, TaskMessage, ActiveServed, Is, TasksOK

\* The types survive what a connection reads from its socket.
LEMMA TypeReceive ==
  ASSUME TypeInv, NEW c \in Conns, Receive(c)
  PROVE  TypeInv'
<1> DEFINE m == Head(inbox[c])
<1>0. /\ m \in WebsocketMessage /\ inbox' \in [Conns -> Seq(WebsocketMessage)]
      /\ Is(c, "run")
  <2>1. /\ Is(c, "run") /\ inbox[c] # <<>>
        /\ inbox' = [inbox EXCEPT ![c] = Tail(@)]
    BY DEF Receive, ReceiveNotification, ReceiveSubscribed, Received
  <2>2. inbox[c] \in Seq(WebsocketMessage)
    BY DEF TypeInv, TypeOK
  <2>3. m \in WebsocketMessage /\ Tail(inbox[c]) \in Seq(WebsocketMessage)
    BY <2>1, <2>2, TailOf
  <2>4. QED
    BY <2>1, <2>3 DEF TypeInv, TypeOK
<1>1. CASE ReceiveNotification(c)
  <2>1. m \in Update
    BY <1>0, <1>1, MessageKinds DEF ReceiveNotification, Received
  <2> DEFINE listeners == subscriptions[c][m.sub]
             t == Doing("notify", listeners, m)
  <2>2. listeners \in SUBSET Clients
    BY <2>1, MessageKinds DEF TypeInv, TypeOK
  <2>3. task' = task \/ task' = [task EXCEPT ![c] = t]
    BY <1>1 DEF ReceiveNotification
  <2> HIDE DEF m, listeners
  <2>4. /\ t \in Task /\ t.attempt = 0 /\ t.pc = "notify" /\ t.message = m
    BY <2>1, <2>2, MessageKinds, DoingTask
  <2> HIDE DEF t
  <2>5. TasksOK'
    <3>1. CASE task' = task
      BY <1>1, <3>1, SameTasks DEF ReceiveNotification
    <3>2. CASE task' = [task EXCEPT ![c] = t]
      BY <1>1, <2>1, <2>4, <3>2, TypeTask DEF ReceiveNotification, Becomes
    <3>3. QED
      BY <2>3, <3>1, <3>2
  <2>6. QED
    BY <1>0, <1>1, <2>5
       DEF ReceiveNotification, TypeInv, TypeOK, tables, TopicChosen,
           AskedStarted, ActiveServed, TasksOK
<1>2. CASE ReceiveSubscribed(c)
  <2>1. m \in Confirmation
    BY <1>0, <1>2, MessageKinds DEF ReceiveSubscribed, Received
  <2> DEFINE t == Doing("confirm", {m.id}, m)
  <2>2. \/ /\ inflights' = [inflights EXCEPT ![c] = @ \ {m.id}]
           /\ request_to_subs' = [request_to_subs EXCEPT ![c][m.id] = m.sub]
           /\ task' = [task EXCEPT ![c] = t]
        \/ UNCHANGED <<inflights, request_to_subs, task>>
    BY <1>2 DEF ReceiveSubscribed
  <2> HIDE DEF m
  <2>3. m.id \in Clients /\ m.sub \in Subids
    BY <2>1, MessageKinds
  <2>4. t \in Task /\ t.attempt = 0 /\ t.pc = "confirm" /\ t.message = m
    BY <2>1, <2>3, MessageKinds, DoingTask
  <2> HIDE DEF t
  <2>5. TasksOK'
    <3>1. CASE task' = task
      BY <1>2, <3>1, SameTasks DEF ReceiveSubscribed
    <3>2. CASE task' = [task EXCEPT ![c] = t]
      BY <1>2, <2>1, <2>4, <3>2, TypeTask DEF ReceiveSubscribed, Becomes
    <3>3. QED
      BY <2>2, <3>1, <3>2
  <2>6. /\ inflights' \in [Conns -> SUBSET Clients]
        /\ request_to_subs' \in [Conns -> [Clients -> Subids \cup {NoSub}]]
    <3>1. /\ inflights \in [Conns -> SUBSET Clients]
          /\ request_to_subs \in [Conns -> [Clients -> Subids \cup {NoSub}]]
      BY DEF TypeInv, TypeOK
    <3>2. [request_to_subs EXCEPT ![c][m.id] = m.sub]
            \in [Conns -> [Clients -> Subids \cup {NoSub}]]
      BY <2>3, <3>1, CellType
    <3>3. QED
      BY <2>2, <3>1, <3>2
  <2>7. QED
    BY <1>0, <1>2, <2>5, <2>6
       DEF ReceiveSubscribed, TypeInv, TypeOK, TopicChosen, AskedStarted,
           ActiveServed, TasksOK
<1>3. QED
  BY <1>1, <1>2 DEF Receive

\* A message in the mailbox of k leaves mailboxes.
LEMMA TypePost ==
  ASSUME TypeInv, NEW k \in Clients, NEW m \in PubsubMessage, Post(k, m)
  PROVE  mailbox' \in [Clients -> Seq(PubsubMessage)]
BY AppendOf DEF TypeInv, TypeOK, Post

\* The types survive what a connection sends to its subscribers.
LEMMA TypeSend ==
  ASSUME TypeInv, NEW c \in Conns, Send(c)
  PROVE  TypeInv'
<1>1. ASSUME NEW k \in Clients, SendNotification(c, k) PROVE TypeInv'
  <2> DEFINE m == task[c].message
             n == [type |-> "Notification", payload |-> m.payload]
             t == Doing("notify", task[c].sends \ {k}, m)
  <2>1. m \in Update
    BY <1>1 DEF SendNotification, TypeInv, TaskMessage
  <2>2. n \in PubsubMessage
    BY <2>1, MessageKinds, MailKinds
  <2>3. \/ /\ Post(k, n) /\ UNCHANGED subscriptions
        \/ /\ subscriptions' = [subscriptions EXCEPT ![c][m.sub] = @ \ {k}]
           /\ UNCHANGED mailbox
    BY <1>1 DEF SendNotification
  <2>4. task' = [task EXCEPT ![c] = Running] \/ task' = [task EXCEPT ![c] = t]
    BY <1>1 DEF SendNotification
  <2>5. t \in Task /\ t.attempt = 0 /\ t.pc = "notify" /\ t.message = m
    BY <2>1, TaskFields, MessageKinds, DoingTask DEF TypeInv, TypeOK
  <2> HIDE DEF m, n, t
  <2>6. mailbox' \in [Clients -> Seq(PubsubMessage)]
    BY <2>2, <2>3, TypePost DEF TypeInv, TypeOK
  <2>7. subscriptions' \in [Conns -> [Subids -> SUBSET Clients]]
    <3>1. /\ subscriptions \in [Conns -> [Subids -> SUBSET Clients]]
          /\ m.sub \in Subids /\ subscriptions[c][m.sub] \ {k} \in SUBSET Clients
      BY <2>1, MessageKinds DEF TypeInv, TypeOK
    <3>2. QED
      BY <2>3, <3>1, CellType
  <2>8. TasksOK'
    <3>1. CASE task' = [task EXCEPT ![c] = Running]
      BY <1>1, <3>1, RunningTask, TypeTask DEF SendNotification, socket, Becomes
    <3>2. CASE task' = [task EXCEPT ![c] = t]
      BY <1>1, <2>1, <2>5, <3>2, TypeTask DEF SendNotification, socket, Becomes
    <3>3. QED
      BY <2>4, <3>1, <3>2
  <2>9. UNCHANGED <<requests, inflights, request_to_subs, unsubs, inbox, link,
                    outbox, served, active, clients, faults>>
    BY <1>1 DEF SendNotification, socket
  <2>10. QED
    BY <2>6, <2>7, <2>8, <2>9
       DEF TypeInv, TypeOK, TopicChosen, AskedStarted, ActiveServed, TasksOK
<1>2. CASE SendSubscribed(c)
  <2> DEFINE m == task[c].message
             n == [type |-> "Subscribed", conn |-> c]
  <2>1. m \in Confirmation
    BY <1>2 DEF SendSubscribed, TypeInv, TaskMessage
  <2>2. n \in PubsubMessage
    BY MailKinds
  <2>3. \/ /\ Post(m.id, n)
           /\ subscriptions' = [subscriptions EXCEPT ![c][m.sub] = @ \cup {m.id}]
        \/ UNCHANGED <<mailbox, subscriptions>>
    BY <1>2 DEF SendSubscribed
  <2> HIDE DEF m, n
  <2>4. m.id \in Clients /\ m.sub \in Subids
    BY <2>1, MessageKinds
  <2>5. mailbox' \in [Clients -> Seq(PubsubMessage)]
    BY <2>2, <2>3, <2>4, TypePost DEF TypeInv, TypeOK
  <2>6. subscriptions' \in [Conns -> [Subids -> SUBSET Clients]]
    <3>1. /\ subscriptions \in [Conns -> [Subids -> SUBSET Clients]]
          /\ subscriptions[c][m.sub] \cup {m.id} \in SUBSET Clients
      BY <2>4 DEF TypeInv, TypeOK
    <3>2. QED
      BY <2>3, <2>4, <3>1, CellType
  <2>7. TasksOK'
    BY <1>2, RunningTask, TypeTask DEF SendSubscribed, socket, Becomes
  <2>8. QED
    BY <1>2, <2>5, <2>6, <2>7
       DEF SendSubscribed, socket, TypeInv, TypeOK, TopicChosen, AskedStarted,
           ActiveServed, TasksOK
<1>3. ASSUME NEW s \in Subids, NEW k \in Clients, SendDisconnected(c, s, k)
      PROVE  TypeInv'
  <2>1. mailbox' \in [Clients -> Seq(PubsubMessage)]
    BY <1>3, TypePost, MailKinds DEF SendDisconnected, TypeInv, TypeOK
  <2>2. QED
    BY <1>3, <2>1, SMTT(30)
       DEF SendDisconnected, socket, TypeInv, TypeOK, TaskMessage, TopicChosen,
           AskedStarted, ActiveServed, Is
<1>4. QED
  BY <1>1, <1>2, <1>3 DEF Send

\* The types survive a frame that is sent, or not.
LEMMA TypeFrame ==
  ASSUME TypeInv, NEW c \in Conns, NEW f \in Frame,
         NEW subs \in [Subids -> SUBSET Clients], SendFrame(c, f, subs),
         UNCHANGED link
  PROVE  /\ TasksOK'
         /\ request_to_subs' \in [Conns -> [Clients -> Subids \cup {NoSub}]]
         /\ subscriptions' \in [Conns -> [Subids -> SUBSET Clients]]
         /\ \/ UNCHANGED outbox
            \/ outbox' = [outbox EXCEPT ![c] = Append(@, f)] /\ link[c] = "up"
<1> DEFINE t == Doing("lost", {}, NoSub)
<1>1. t \in Task /\ t.attempt = 0 /\ t.pc = "lost"
  BY DoingTask
<1>2. TasksOK'
  <2>1. CASE task' = task
    BY <2>1, SameTasks
  <2>2. CASE link[c] = "broken" /\ task' = [task EXCEPT ![c] = t]
    <3> HIDE DEF t
    <3> QED
      BY <1>1, <2>2, TypeTask DEF Becomes
  <2>3. QED
    BY <2>1, <2>2 DEF SendFrame, reestablish
<1>3. /\ subscriptions' = [subscriptions EXCEPT ![c] = subs]
      /\ \/ UNCHANGED request_to_subs
         \/ request_to_subs' = [request_to_subs EXCEPT ![c] = Unmapped]
      /\ \/ UNCHANGED outbox
         \/ outbox' = [outbox EXCEPT ![c] = Append(@, f)] /\ link[c] = "up"
  BY DEF SendFrame, reestablish
<1>4. Unmapped \in [Clients -> Subids \cup {NoSub}]
  BY DEF Unmapped
<1>5. QED
  BY <1>2, <1>3, <1>4, ZenonT(60) DEF TypeInv, TypeOK

\* The types survive the requests and unsubscriptions a connection takes, and
\* the pings.
LEMMA TypeFrames ==
  ASSUME TypeInv, NEW c \in Conns,
         unsubscribe(c) \/ TakeRequest(c) \/ PingFailed(c) \/ PingSent(c)
  PROVE  TypeInv'
<1>1. CASE unsubscribe(c)
  <2> DEFINE k == Head(unsubs[c])
             s == request_to_subs[c][k]
             f == [type |-> "unsubscribe", sub |-> s]
             subs == [subscriptions[c] EXCEPT ![s] = @ \ {k}]
  <2>1. /\ unsubs' = [unsubs EXCEPT ![c] = Tail(@)] /\ unsubs[c] # <<>>
        /\ UNCHANGED <<requests, inflights, inbox, link, served, active,
                       clients, mailbox, faults>>
        /\ \/ UNCHANGED <<task, request_to_subs, subscriptions, outbox>>
           \/ s # NoSub /\ SendFrame(c, f, subs)
    BY <1>1 DEF unsubscribe
  <2>2. k \in Clients /\ unsubs' \in [Conns -> Seq(Clients)]
    BY <2>1, TailOf DEF TypeInv, TypeOK
  <2> HIDE DEF k
  <2>3. CASE UNCHANGED <<task, request_to_subs, subscriptions, outbox>>
    BY <2>1, <2>2, <2>3 DEF TypeInv, TypeOK, TaskMessage, TopicChosen,
                            AskedStarted, ActiveServed, Is
  <2>4. CASE s # NoSub /\ SendFrame(c, f, subs)
    <3>1. s \in Subids
      BY <2>2, <2>4 DEF TypeInv, TypeOK
    <3> HIDE DEF s
    <3>2. f \in Frame /\ f.type = "unsubscribe"
      BY <3>1, FrameKinds
    <3>3. subs \in [Subids -> SUBSET Clients]
      BY <3>1 DEF TypeInv, TypeOK
    <3> HIDE DEF f, subs
    <3>4. /\ TasksOK'
          /\ request_to_subs' \in [Conns -> [Clients -> Subids \cup {NoSub}]]
          /\ subscriptions' \in [Conns -> [Subids -> SUBSET Clients]]
          /\ \/ UNCHANGED outbox
             \/ outbox' = [outbox EXCEPT ![c] = Append(@, f)] /\ link[c] = "up"
      BY <2>1, <2>4, <3>2, <3>3, TypeFrame
    <3>5. /\ outbox' \in [Conns -> Seq(Frame)] /\ AskedStarted'
          /\ \A d \in Conns : link[d] = "broken" => outbox'[d] = outbox[d]
      <4>1. CASE UNCHANGED outbox
        BY <2>1, <4>1 DEF TypeInv, TypeOK, AskedStarted
      <4>2. CASE outbox' = [outbox EXCEPT ![c] = Append(@, f)] /\ link[c] = "up"
        <5>1. outbox[c] \in Seq(Frame) /\ outbox \in [Conns -> Seq(Frame)]
          BY DEF TypeInv, TypeOK
        <5>2. \A i \in DOMAIN outbox'[c] : \/ i \in DOMAIN outbox[c]
                                              /\ outbox'[c][i] = outbox[c][i]
                                           \/ outbox'[c][i] = f
          BY <3>2, <4>2, <5>1, AppendOf
        <5>3. AskedStarted'
          BY <2>1, <3>2, <4>2, <5>1, <5>2 DEF TypeInv, AskedStarted
        <5>4. QED
          BY <3>2, <4>2, <5>1, <5>3, AppendOf
      <4>3. QED
        BY <3>4, <4>1, <4>2
    <3>6. QED
      BY <2>1, <2>2, <3>4, <3>5
         DEF TypeInv, TypeOK, TopicChosen, ActiveServed, TasksOK
  <2>5. QED
    BY <2>1, <2>3, <2>4
<1>2. CASE TakeRequest(c)
  <2> DEFINE k == Head(requests)
             f == [type |-> "subscribe", id |-> k]
  <2>1. /\ requests # <<>> /\ requests' = Tail(requests)
        /\ inflights' = [inflights EXCEPT ![c] = @ \cup {k}]
        /\ SendFrame(c, f, subscriptions[c])
        /\ UNCHANGED <<unsubs, inbox, link, served, active, clients, mailbox,
                       faults>>
    BY <1>2 DEF TakeRequest
  <2>2. k \in Clients /\ requests' \in Seq(Clients) /\ clients[k].pc # "idle"
    BY <2>1, TailOf DEF TypeInv, TypeOK, AskedStarted
  <2>3. \A i \in DOMAIN requests' : clients'[requests'[i]].pc # "idle"
    BY <2>1, TailOf DEF TypeInv, TypeOK, AskedStarted
  <2> HIDE DEF k
  <2>4. f \in Frame /\ f.id = k
    BY <2>2, FrameKinds
  <2>5. subscriptions[c] \in [Subids -> SUBSET Clients]
    BY DEF TypeInv, TypeOK
  <2> HIDE DEF f
  <2>6. /\ TasksOK'
        /\ request_to_subs' \in [Conns -> [Clients -> Subids \cup {NoSub}]]
        /\ subscriptions' \in [Conns -> [Subids -> SUBSET Clients]]
        /\ \/ UNCHANGED outbox
           \/ outbox' = [outbox EXCEPT ![c] = Append(@, f)] /\ link[c] = "up"
    BY <2>1, <2>4, <2>5, TypeFrame
  <2>7. /\ outbox' \in [Conns -> Seq(Frame)] /\ AskedStarted'
        /\ \A d \in Conns : link[d] = "broken" => outbox'[d] = outbox[d]
    <3>1. CASE UNCHANGED outbox
      BY <2>1, <2>3, <3>1 DEF TypeInv, TypeOK, AskedStarted
    <3>2. CASE outbox' = [outbox EXCEPT ![c] = Append(@, f)] /\ link[c] = "up"
      BY <2>1, <2>2, <2>3, <2>4, <3>2, AppendOf, SMTT(30)
         DEF TypeInv, TypeOK, AskedStarted
    <3>3. QED
      BY <2>6, <3>1, <3>2
  <2>8. inflights' \in [Conns -> SUBSET Clients]
    BY <2>1, <2>2 DEF TypeInv, TypeOK
  <2>9. QED
    BY <2>1, <2>2, <2>6, <2>7, <2>8
       DEF TypeInv, TypeOK, TopicChosen, ActiveServed, TasksOK
<1>3. CASE PingFailed(c)
  <2> DEFINE t == Doing("lost", {}, NoSub)
  <2>1. t \in Task /\ t.attempt = 0 /\ t.pc = "lost"
    BY DoingTask
  <2>2. /\ link[c] = "broken" /\ task' = [task EXCEPT ![c] = t]
        /\ request_to_subs' = [request_to_subs EXCEPT ![c] = Unmapped]
        /\ subscriptions' = [subscriptions EXCEPT ![c] = subscriptions[c]]
        /\ UNCHANGED <<requests, inflights, unsubs, inbox, link, outbox, served,
                       active, clients, mailbox, faults>>
    BY <1>3 DEF PingFailed, reestablish, socket
  <2> HIDE DEF t
  <2>3. TasksOK'
    BY <2>1, <2>2, TypeTask DEF Becomes
  <2>4. QED
    BY <2>2, <2>3 DEF TypeInv, TypeOK, TopicChosen, AskedStarted, ActiveServed,
                      TasksOK, Unmapped
<1>4. CASE PingSent(c)
  BY <1>4 DEF PingSent, vars, tables, socket, TypeInv, TypeOK, TaskMessage,
              TopicChosen, AskedStarted, ActiveServed, Is
<1>5. QED
  BY <1>1, <1>2, <1>3, <1>4

\* One more attempt leaves a task.
LEMMA TaskAttempt ==
  ASSUME NEW t \in Task, NEW n \in Nat
  PROVE  [t EXCEPT !.attempt = n] \in Task
<1>1. [t EXCEPT !.attempt = n] =
        [pc |-> t.pc, sends |-> t.sends, message |-> t.message, attempt |-> n]
  BY DEF Task
<1>2. QED
  BY <1>1, TaskFields DEF Task

\* The types survive a reconnection, and the attempts that fail.
LEMMA TypeReconnect ==
  ASSUME TypeInv, NEW c \in Conns, Reconnect(c)
  PROVE  TypeInv'
<1>1. CASE Reconnected(c)
  <2>1. /\ task' = [task EXCEPT ![c] = Running] /\ link' = [link EXCEPT ![c] = "up"]
        /\ inbox' = [inbox EXCEPT ![c] = <<>>]
        /\ served' = [served EXCEPT ![c] = [s \in Subids |-> NoTopic]]
        /\ UNCHANGED <<requests, inflights, request_to_subs, subscriptions,
                       unsubs, outbox, active, clients, mailbox, faults>>
    BY <1>1 DEF Reconnected, tables
  <2>2. TasksOK'
    BY <2>1, RunningTask, WsBoundAssumption
       DEF TypeInv, TypeOK, TaskMessage, ActiveServed, Is, TasksOK
  <2>3. active[c] = {}
    BY <1>1 DEF Reconnected, Connecting, TypeInv, ActiveServed
  <2>4. ActiveServed'
    BY <2>1, <2>2, <2>3 DEF TypeInv, TypeOK, ActiveServed, TasksOK
  <2>5. QED
    BY <2>1, <2>2, <2>4
       DEF TypeInv, TypeOK, TopicChosen, AskedStarted, TasksOK
<1>2. CASE ReconnectFailed(c)
  <2>1. /\ Is(c, "lost") /\ faults' \in [Faults -> Nat]
        /\ UNCHANGED <<requests, request_to_subs, subscriptions, link, outbox,
                       served, active, clients, mailbox>>
    BY <1>2, SpendType DEF ReconnectFailed, Connecting, Faults, TypeInv, TypeOK
  <2>2. CASE /\ task[c].attempt < MaxReconnectAttempts
             /\ task' = [task EXCEPT ![c].attempt = @ + 1]
             /\ UNCHANGED <<inflights, unsubs, inbox>>
    <3>1. task' \in [Conns -> Task]
      <4>1. [task[c] EXCEPT !.attempt = @ + 1] \in Task
        <5>1. task[c] \in Task /\ task[c].attempt + 1 \in Nat
          BY TaskFields DEF TypeInv, TypeOK
        <5>2. QED
          BY <5>1, TaskAttempt
      <4>2. QED
        BY <2>2, <4>1 DEF TypeInv, TypeOK
    <3>2. /\ task'[c].pc = "lost" /\ task'[c].attempt = task[c].attempt + 1
          /\ \A d \in Conns \ {c} : task'[d] = task[d]
      BY <2>1, <2>2 DEF TypeInv, TypeOK, Task, Is
    <3>3. TasksOK'
      BY <2>1, <2>2, <3>1, <3>2, TaskFields, WsBoundAssumption
         DEF TypeInv, TypeOK, TaskMessage, ActiveServed, Is, TasksOK
    <3>4. QED
      BY <2>1, <2>2, <3>3
         DEF TypeInv, TypeOK, TopicChosen, AskedStarted, ActiveServed, TasksOK
  <2>3. CASE /\ task' = [task EXCEPT ![c] = Doing("dead", {}, NoSub)]
             /\ inflights' = [inflights EXCEPT ![c] = {}]
             /\ unsubs' = [unsubs EXCEPT ![c] = <<>>]
             /\ inbox' = [inbox EXCEPT ![c] = <<>>]
    <3> DEFINE t == Doing("dead", {}, NoSub)
    <3>1. t \in Task /\ t.attempt = 0 /\ t.pc = "dead"
      BY DoingTask
    <3>2. task' = [task EXCEPT ![c] = t]
      BY <2>3
    <3> HIDE DEF t
    <3>3. TasksOK'
      BY <2>1, <3>1, <3>2, TypeTask DEF Becomes
    <3>4. QED
      BY <2>1, <2>3, <3>3
         DEF TypeInv, TypeOK, TopicChosen, AskedStarted, ActiveServed, TasksOK
  <2>4. QED
    BY <1>2, <2>2, <2>3 DEF ReconnectFailed
<1>3. QED
  BY <1>1, <1>2 DEF Reconnect

\* The handler of k goes on as h, and its request may be made again.
HandlerStep(k, h) ==
  /\ clients' = [clients EXCEPT ![k] = h]
  /\ h.pc # "idle" /\ h.topic \in Topics
  /\ requests' = requests \/ requests' = Append(requests, k)
  /\ UNCHANGED <<task, tables, socket, faults>>

\* The types survive such a step, if they survive in the channels.
LEMMA TypeHandler ==
  ASSUME TypeInv, NEW k \in Clients, NEW h \in Subscriber, HandlerStep(k, h),
         mailbox' \in [Clients -> Seq(PubsubMessage)],
         unsubs' \in [Conns -> Seq(Clients)]
  PROVE  TypeInv'
<1>1. /\ clients' \in [Clients -> Subscriber] /\ TopicChosen'
      /\ \A l \in Clients : clients[l].pc # "idle" => clients'[l].pc # "idle"
  BY WsSentinelAssumption DEF HandlerStep, TypeInv, TypeOK, TopicChosen
<1>2. /\ requests' \in Seq(Clients)
      /\ \A i \in DOMAIN requests' :
           \/ i \in DOMAIN requests /\ requests'[i] = requests[i]
           \/ requests'[i] = k
  <2>1. requests \in Seq(Clients)
    BY DEF TypeInv, TypeOK
  <2>2. CASE requests' = requests
    BY <2>1, <2>2
  <2>3. CASE requests' = Append(requests, k)
    BY <2>1, <2>3, AppendOf
  <2>4. QED
    BY <2>2, <2>3 DEF HandlerStep
<1>3. clients'[k].pc # "idle"
  BY DEF HandlerStep, TypeInv, TypeOK
<1>4. /\ \A i \in DOMAIN requests : requests[i] \in Clients
      /\ \A c \in Conns : \A i \in DOMAIN outbox[c] : outbox[c][i] \in Frame
  BY DEF TypeInv, TypeOK
<1>5. AskedStarted'
  BY <1>1, <1>2, <1>3, <1>4, FrameKinds
     DEF HandlerStep, TypeInv, AskedStarted, socket
<1>6. QED
  BY <1>1, <1>2, <1>5
     DEF HandlerStep, TypeInv, TypeOK, TaskMessage, ActiveServed, Is, tables, socket

\* Steps of k that only read its mailbox.
LEMMA TypeMail ==
  ASSUME TypeInv, NEW k \in Clients
  PROVE  /\ Consume(k) /\ mailbox[k] # <<>> =>
              mailbox' \in [Clients -> Seq(PubsubMessage)]
         /\ Close(k) => mailbox' \in [Clients -> Seq(PubsubMessage)]
         /\ mailbox[k] # <<>> => Head(mailbox[k]) \in PubsubMessage
<1>1. mailbox \in [Clients -> Seq(PubsubMessage)]
  BY DEF TypeInv, TypeOK
<1>2. ASSUME mailbox[k] # <<>>
      PROVE  /\ Head(mailbox[k]) \in PubsubMessage
             /\ Tail(mailbox[k]) \in Seq(PubsubMessage)
  BY <1>1, <1>2, TailOf
<1>3. <<>> \in Seq(PubsubMessage)
  OBVIOUS
<1>4. QED
  BY <1>1, <1>2, <1>3 DEF Consume, Close

\* The types survive the handlers.
LEMMA TypeHandlers ==
  ASSUME TypeInv, NEW k \in Clients,
         \/ \E topic \in Topics : account_subscribe(k, topic)
         \/ ConfirmTimeout(k) \/ Handle(k) \/ SinkClosed(k)
  PROVE  TypeInv'
<1> DEFINE topic0 == clients[k].topic
           gone == Handler("gone", NoConn, topic0)
<1>0. /\ clients[k].pc # "idle" => topic0 \in Topics
      /\ clients[k] \in Subscriber
  BY SubscriberFields DEF TypeInv, TypeOK, TopicChosen
<1>1. ASSUME NEW topic \in Topics, account_subscribe(k, topic) PROVE TypeInv'
  <2> DEFINE h == Handler("confirm", NoConn, topic)
  <2>1. h \in Subscriber /\ h.pc # "idle" /\ h.topic \in Topics
    BY HandlerSubscriber
  <2>2. HandlerStep(k, h)
    BY <1>1, <2>1 DEF account_subscribe, HandlerStep, Submit
  <2> HIDE DEF h
  <2>3. UNCHANGED <<mailbox, unsubs>>
    BY <1>1 DEF account_subscribe
  <2>4. QED
    BY <2>1, <2>2, <2>3, TypeHandler DEF TypeInv, TypeOK
<1>2. ASSUME clients[k].pc # "idle", Close(k), unsubs' \in [Conns -> Seq(Clients)],
             UNCHANGED <<requests, task, tables, socket, faults>>
      PROVE  TypeInv'
  <2>1. gone \in Subscriber /\ gone.pc # "idle" /\ gone.topic \in Topics
    <3>1. topic0 \in Topics
      BY <1>0, <1>2
    <3> HIDE DEF topic0
    <3>2. QED
      BY <3>1, HandlerSubscriber
  <2>2. HandlerStep(k, gone)
    BY <1>2, <2>1 DEF Close, HandlerStep
  <2> HIDE DEF gone
  <2>3. QED
    BY <1>2, <2>1, <2>2, TypeHandler, TypeMail
<1>3. CASE ConfirmTimeout(k)
  BY <1>2, <1>3 DEF ConfirmTimeout, TypeInv, TypeOK
<1>4. CASE SinkClosed(k)
  <2>1. unsubs' \in [Conns -> Seq(Clients)]
    BY <1>0, <1>4, SubscriberFields, AppendOf DEF SinkClosed, TypeInv, TypeOK
  <2>2. QED
    BY <1>2, <1>4, <2>1 DEF SinkClosed
<1>5. ASSUME NEW accepted \in BOOLEAN, Confirmed(k, accepted) PROVE TypeInv'
  <2> DEFINE m == Head(mailbox[k])
             h == Handler("live", m.conn, topic0)
  <2>1. CASE Close(k)
    BY <1>2, <1>5, <2>1 DEF Confirmed, Take, TypeInv, TypeOK
  <2>2. CASE /\ m.type = "Subscribed" /\ Consume(k)
             /\ clients' = [clients EXCEPT ![k] = h]
    <3>1. m.conn \in Conns /\ mailbox[k] # <<>>
      BY <1>5, <2>2, TypeMail, MailKinds DEF Confirmed, Take
    <3>2. topic0 \in Topics
      BY <1>0, <1>5 DEF Confirmed, Take
    <3>3. h \in Subscriber /\ h.pc # "idle" /\ h.topic \in Topics
      BY <3>1, <3>2, HandlerSubscriber
    <3> HIDE DEF h
    <3>4. HandlerStep(k, h)
      BY <1>5, <2>2, <3>3 DEF Confirmed, HandlerStep
    <3>5. QED
      BY <1>5, <2>2, <3>1, <3>3, <3>4, TypeHandler, TypeMail
         DEF Confirmed, TypeInv, TypeOK
  <2>3. QED
    BY <1>5, <2>1, <2>2 DEF Confirmed
<1>6. CASE HandleSubscribed(k) \/ HandleDisconnected(k) \/ HandleNotification(k)
  <2>1. /\ clients[k].pc = "live" /\ mailbox[k] # <<>>
        /\ UNCHANGED <<task, tables, unsubs, socket, faults>>
    BY <1>6 DEF HandleSubscribed, HandleDisconnected, HandleNotification, Take
  <2>2. CASE Close(k) /\ UNCHANGED requests
    BY <1>2, <2>1, <2>2 DEF TypeInv, TypeOK
  <2>3. ASSUME NEW h, Consume(k), h \in {clients[k]} \cup
                 {[clients[k] EXCEPT !.handle = d] : d \in Conns \cup {NoConn}},
               clients' = [clients EXCEPT ![k] = h],
               requests' = requests \/ requests' = Append(requests, k)
        PROVE  TypeInv'
    <3>1. h \in Subscriber /\ h.pc = "live" /\ h.topic \in Topics
      BY <1>0, <2>1, <2>3 DEF Subscriber
    <3>2. HandlerStep(k, h)
      BY <2>1, <2>3, <3>1 DEF HandlerStep
    <3>3. QED
      BY <2>1, <2>3, <3>1, <3>2, TypeHandler, TypeMail DEF TypeInv, TypeOK
  <2>4. CASE HandleSubscribed(k)
    <3> DEFINE d == Head(mailbox[k]).conn
    <3>1. d \in Conns
      BY <2>1, <2>4, TypeMail, MailKinds DEF HandleSubscribed
    <3>2. clients' = [clients EXCEPT ![k].handle = d]
      BY <2>4 DEF HandleSubscribed
    <3> HIDE DEF d
    <3>3. clients' = [clients EXCEPT ![k] = [clients[k] EXCEPT !.handle = d]]
      BY <3>2
    <3>4. QED
      BY <2>3, <2>4, <3>1, <3>3 DEF HandleSubscribed
  <2>5. CASE HandleNotification(k)
    <3>1. CASE Close(k)
      BY <2>2, <2>5, <3>1 DEF HandleNotification
    <3>2. CASE Consume(k) /\ UNCHANGED clients
      <4>1. clients' = [clients EXCEPT ![k] = clients[k]]
        BY <3>2 DEF TypeInv, TypeOK
      <4>2. QED
        BY <2>3, <2>5, <3>2, <4>1 DEF HandleNotification
    <3>3. QED
      BY <2>5, <3>1, <3>2 DEF HandleNotification
  <2>6. CASE HandleDisconnected(k)
    <3>1. CASE UNCHANGED <<clients, requests>>
      <4>1. clients' = [clients EXCEPT ![k] = clients[k]]
        BY <3>1 DEF TypeInv, TypeOK
      <4>2. QED
        BY <2>3, <2>6, <3>1, <4>1 DEF HandleDisconnected
    <3>2. CASE clients' = [clients EXCEPT ![k].handle = NoConn] /\ Submit(k)
      <4>1. clients' = [clients EXCEPT ![k] = [clients[k] EXCEPT !.handle = NoConn]]
        BY <3>2
      <4>2. QED
        BY <2>3, <2>6, <3>2, <4>1 DEF HandleDisconnected, Submit
    <3>3. QED
      BY <2>6, <3>1, <3>2 DEF HandleDisconnected
  <2>7. QED
    BY <1>6, <2>4, <2>5, <2>6
<1>7. QED
  BY <1>1, <1>3, <1>4, <1>5, <1>6 DEF Handle

\* The invariant survives every step.
LEMMA TypeNext == TypeInv /\ [Next]_vars => TypeInv'
<1> SUFFICES ASSUME TypeInv, [Next]_vars PROVE TypeInv'
  OBVIOUS
<1>1. CASE UNCHANGED vars
  BY <1>1 DEF vars, tables, socket, TypeInv, TypeOK, TaskMessage, TopicChosen,
              AskedStarted, ActiveServed, Is
<1>2. CASE Next
  BY <1>2, TypeUpstream, TypeReceive, TypeSend, TypeFrames, TypeReconnect,
     TypeHandlers DEF Next
<1>3. QED
  BY <1>1, <1>2

\* Every variable of the connections keeps its type, whatever the sockets do;
\* in particular a notification always carries an account and no connection
\* tries more often than MAX_RECONNECT_ATTEMPTS to reconnect (reestablish).
THEOREM ConnectionTypeCorrect == Spec => []TypeOK
<1>1. Spec => []TypeInv
  BY TypeInit, TypeNext, PTL DEF Spec
<1>2. TypeInv => TypeOK
  BY DEF TypeInv
<1>3. QED
  BY <1>1, <1>2, PTL

-----------------------------------------------------------------------------
\* The upstream serves the account of k under s, on this socket of c.
Serves(c, s, k) == served[c][s] # NoTopic /\ served[c][s] = clients[k].topic

\* What a connection reads is about the ids of its socket.
MessageServed(c, m) ==
  /\ m.type = "Subscribed" => Serves(c, m.sub, m.id)
  /\ m.type = "Notification" => served[c][m.sub] = m.payload

InboxServed ==
  \A c \in Conns : \A i \in DOMAIN inbox[c] : MessageServed(c, inbox[c][i])

\* So is what it is handling: a confirmation, or an update for its listeners.
TaskServed(c) ==
  LET m == task[c].message IN
  /\ Is(c, "confirm") => Serves(c, m.sub, m.id)
  /\ Is(c, "notify") => \A k \in task[c].sends : clients[k].topic = m.payload

\* So are its subscribers.
TableServed ==
  \A c \in Conns, s \in Subids : \A k \in subscriptions[c][s] : Serves(c, s, k)

TopicInv ==
  InboxServed /\ (\A c \in Conns : TaskServed(c)) /\ TableServed /\ TopicIsolation

\* A step that forgets no account and adds only what is served.
TopicStep ==
  /\ \A c \in Conns, s \in Subids :
       served[c][s] # NoTopic => served'[c][s] = served[c][s]
  /\ \A k \in Clients :
       clients[k].topic # NoTopic => clients'[k].topic = clients[k].topic
  /\ \A c \in Conns : \A i \in DOMAIN inbox'[c] :
       \/ \E j \in DOMAIN inbox[c] : inbox[c][j] = inbox'[c][i]
       \/ MessageServed(c, inbox[c][i])'
  /\ \A c \in Conns : task'[c] = task[c] \/ TaskServed(c)'
  /\ \A c \in Conns, s \in Subids : \A k \in subscriptions'[c][s] :
       k \in subscriptions[c][s] \/ Serves(c, s, k)'
  /\ \A k \in Clients : \A i \in DOMAIN mailbox'[k] :
       \/ \E j \in DOMAIN mailbox[k] : mailbox[k][j] = mailbox'[k][i]
       \/ mailbox'[k][i].type = "Notification" =>
            mailbox'[k][i].payload = clients'[k].topic

\* Such a step keeps the invariant.
LEMMA TopicKept ==
  ASSUME TypeInv, TopicInv, TopicStep
  PROVE  TopicInv'
<1>1. \A c \in Conns, s \in Subids, k \in Clients : Serves(c, s, k) => Serves(c, s, k)'
  BY DEF TopicStep, Serves
<1>2. InboxServed'
  <2> SUFFICES ASSUME NEW c \in Conns, NEW i \in DOMAIN inbox'[c],
                      NEW j \in DOMAIN inbox[c], inbox[c][j] = inbox'[c][i]
               PROVE  MessageServed(c, inbox[c][i])'
    BY DEF TopicStep, InboxServed
  <2> DEFINE m == inbox[c][j]
  <2>1. m \in WebsocketMessage /\ MessageServed(c, m)
    BY DEF TypeInv, TypeOK, TopicInv, InboxServed
  <2>2. inbox'[c][i] = m
    OBVIOUS
  <2> HIDE DEF m
  <2>3. CASE m.type = "Subscribed"
    BY <1>1, <2>1, <2>2, <2>3, MessageKinds DEF MessageServed
  <2>4. CASE m.type = "Notification"
    <3>1. m.sub \in Subids /\ m.payload \in Topics /\ served[c][m.sub] = m.payload
      BY <2>1, <2>4, MessageKinds DEF MessageServed
    <3>2. served'[c][m.sub] = m.payload
      BY <3>1, WsSentinelAssumption DEF TopicStep
    <3>3. QED
      BY <2>2, <2>4, <3>2 DEF MessageServed
  <2>5. QED
    BY <2>1, <2>3, <2>4, MessageKinds
<1>3. ASSUME NEW c \in Conns PROVE TaskServed(c)'
  <2> SUFFICES ASSUME task'[c] = task[c] PROVE TaskServed(c)'
    BY DEF TopicStep
  <2>1. TaskServed(c) /\ task[c] \in Task
    BY DEF TopicInv, TypeInv, TypeOK
  <2>2. Is(c, "confirm") => /\ task[c].message.id \in Clients
                            /\ task[c].message.sub \in Subids
    BY MessageKinds DEF TypeInv, TaskMessage
  <2>3. Is(c, "notify") => task[c].message.payload \in Topics
    BY MessageKinds DEF TypeInv, TaskMessage
  <2>4. task[c].sends \subseteq Clients
    BY <2>1, TaskFields
  <2>5. Is(c, "confirm")' => Serves(c, task[c].message.sub, task[c].message.id)'
    BY <1>1, <2>1, <2>2 DEF TaskServed, Is
  <2>6. ASSUME Is(c, "notify")', NEW k \in task'[c].sends
        PROVE  clients'[k].topic = task'[c].message.payload
    BY <2>1, <2>3, <2>4, <2>6, WsSentinelAssumption DEF TaskServed, Is, TopicStep
  <2>7. QED
    BY <2>5, <2>6 DEF TaskServed, Is
<1>4. TableServed'
  BY <1>1 DEF TopicStep, TopicInv, TableServed, TypeInv, TypeOK
<1>5. TopicIsolation'
  <2> SUFFICES ASSUME NEW k \in Clients, NEW i \in DOMAIN mailbox'[k],
                      NEW j \in DOMAIN mailbox[k], mailbox[k][j] = mailbox'[k][i],
                      mailbox'[k][i].type = "Notification"
               PROVE  mailbox'[k][i].payload = clients'[k].topic
    BY DEF TopicStep, TopicIsolation
  <2>1. mailbox[k][j] \in PubsubMessage
    BY DEF TypeInv, TypeOK
  <2>2. /\ mailbox[k][j].payload \in Topics
        /\ mailbox[k][j].payload = clients[k].topic
    BY <2>1, MailKinds DEF TopicInv, TopicIsolation
  <2>3. QED
    BY <2>2, WsSentinelAssumption DEF TopicStep
<1>6. QED
  BY <1>2, <1>3, <1>4, <1>5 DEF TopicInv

\* The invariant holds at the start.
LEMMA TopicInit == Init => TopicInv
<1> SUFFICES ASSUME Init PROVE TopicInv
  OBVIOUS
<1>1. \A c \in Conns : TaskServed(c)
  BY RunningTask DEF Init, TaskServed, Is
<1>2. QED
  BY <1>1 DEF Init, TopicInv, InboxServed, TableServed, TopicIsolation,
              NoSubscribers

\* What the parts of TopicStep need when nothing of theirs changes.
LEMMA TopicUnchanged ==
  /\ UNCHANGED served => \A c \in Conns, s \in Subids :
       served[c][s] # NoTopic => served'[c][s] = served[c][s]
  /\ UNCHANGED clients => \A k \in Clients :
       clients[k].topic # NoTopic => clients'[k].topic = clients[k].topic
  /\ UNCHANGED inbox => \A c \in Conns : \A i \in DOMAIN inbox'[c] :
       \E j \in DOMAIN inbox[c] : inbox[c][j] = inbox'[c][i]
  /\ UNCHANGED task => \A c \in Conns : task'[c] = task[c]
  /\ UNCHANGED subscriptions => \A c \in Conns, s \in Subids :
       \A k \in subscriptions'[c][s] : k \in subscriptions[c][s]
  /\ UNCHANGED mailbox => \A k \in Clients : \A i \in DOMAIN mailbox'[k] :
       \E j \in DOMAIN mailbox[k] : mailbox[k][j] = mailbox'[k][i]
OBVIOUS

\* A message is added to the inbox of c.
LEMMA InboxAppend ==
  ASSUME TypeInv, NEW c \in Conns, NEW m \in WebsocketMessage,
         inbox' = [inbox EXCEPT ![c] = Append(@, m)], MessageServed(c, m)'
  PROVE  \A d \in Conns : \A i \in DOMAIN inbox'[d] :
           \/ \E j \in DOMAIN inbox[d] : inbox[d][j] = inbox'[d][i]
           \/ MessageServed(d, inbox[d][i])'
<1> SUFFICES ASSUME NEW d \in Conns, NEW i \in DOMAIN inbox'[d],
                    ~ \E j \in DOMAIN inbox[d] : inbox[d][j] = inbox'[d][i]
             PROVE  MessageServed(d, inbox[d][i])'
  OBVIOUS
<1>1. d = c /\ inbox'[c][i] = m
  BY AppendOf DEF TypeInv, TypeOK
<1>2. QED
  BY <1>1 DEF MessageServed, Serves

\* Messages are taken from the inbox of c.
LEMMA InboxShrinks ==
  ASSUME TypeInv, NEW c \in Conns,
         \/ inbox' = [inbox EXCEPT ![c] = Tail(@)] /\ inbox[c] # <<>>
         \/ \E n \in 0 .. Len(inbox[c]) : inbox' = [inbox EXCEPT ![c] = SubSeq(@, 1, n)]
         \/ inbox' = [inbox EXCEPT ![c] = <<>>]
  PROVE  \A d \in Conns : \A i \in DOMAIN inbox'[d] :
           \E j \in DOMAIN inbox[d] : inbox[d][j] = inbox'[d][i]
<1>1. inbox[c] \in Seq(WebsocketMessage)
  BY DEF TypeInv, TypeOK
<1>2. CASE inbox' = [inbox EXCEPT ![c] = Tail(@)] /\ inbox[c] # <<>>
  BY <1>1, <1>2, TailOf DEF TypeInv, TypeOK
<1>3. ASSUME NEW n \in 0 .. Len(inbox[c]), inbox' = [inbox EXCEPT ![c] = SubSeq(@, 1, n)]
      PROVE  \A d \in Conns : \A i \in DOMAIN inbox'[d] :
               \E j \in DOMAIN inbox[d] : inbox[d][j] = inbox'[d][i]
  BY <1>1, <1>3, PrefixOf DEF TypeInv, TypeOK
<1>4. CASE inbox' = [inbox EXCEPT ![c] = <<>>]
  BY <1>1, <1>4 DEF TypeInv, TypeOK
<1>5. QED
  BY <1>2, <1>3, <1>4

\* Accounts stay apart whatever the upstream and the socket do: an id that is
\* given is of no account yet, or of the same.
LEMMA TopicUpstream ==
  ASSUME TypeInv, TopicInv, NEW c \in Conns,
         \/ Upstream(c) \/ UpstreamReject(c)
         \/ \E s \in Subids : UpstreamNotify(c, s)
         \/ \E n \in 0 .. Len(inbox[c]) : LinkBreaks(c, n)
  PROVE  TopicInv'
<1>1. ASSUME NEW s \in Subids, UpstreamSubscribe(c, s) PROVE TopicInv'
  <2>1. PICK k \in Clients : k = Head(outbox[c]).id /\ clients[k].pc # "idle"
    BY <1>1, FrameKinds, TailOf DEF UpstreamSubscribe, TypeInv, TypeOK, AskedStarted
  <2>2. PICK topic : topic = clients[k].topic /\ topic # NoTopic
    BY <2>1 DEF TypeInv, TopicChosen
  <2>3. PICK m \in Confirmation : m = [type |-> "Subscribed", id |-> k, sub |-> s]
    BY NewMessages
  <2>4. m \in WebsocketMessage /\ m.type = "Subscribed" /\ m.id = k /\ m.sub = s
    BY <2>3, MessageKinds
  <2>5. served[c][s] = topic \/ served[c][s] = NoTopic
    BY <1>1, <2>1, <2>2 DEF UpstreamSubscribe
  <2>6. /\ served' = [served EXCEPT ![c][s] = topic]
        /\ inbox' = [inbox EXCEPT ![c] = Append(@, m)]
        /\ UNCHANGED <<task, subscriptions, clients, mailbox>>
    BY <1>1, <2>1, <2>2, <2>3 DEF UpstreamSubscribe, tables
  <2>7. \A d \in Conns, r \in Subids :
          served[d][r] # NoTopic => served'[d][r] = served[d][r]
    BY <2>5, <2>6 DEF TypeInv, TypeOK
  <2>8. MessageServed(c, m)'
    <3>1. served'[c][s] = topic /\ clients'[k].topic = topic
      BY <2>2, <2>6 DEF TypeInv, TypeOK
    <3>2. QED
      BY <2>2, <2>4, <3>1 DEF MessageServed, Serves
  <2>9. TopicStep
    BY <2>4, <2>6, <2>7, <2>8, InboxAppend, TopicUnchanged DEF TopicStep
  <2>10. QED
    BY <2>9, TopicKept
<1>2. CASE UpstreamUnsubscribe(c) \/ UpstreamReject(c)
  <2>1. UNCHANGED <<served, inbox, task, subscriptions, clients, mailbox>>
    BY <1>2 DEF UpstreamUnsubscribe, UpstreamReject, tables
  <2>2. TopicStep
    BY <2>1, TopicUnchanged DEF TopicStep
  <2>3. QED
    BY <2>2, TopicKept
<1>3. ASSUME NEW s \in Subids, UpstreamNotify(c, s) PROVE TopicInv'
  <2>1. PICK topic \in Topics : topic = served[c][s]
    BY <1>3 DEF UpstreamNotify, TypeInv, TypeOK, ActiveServed
  <2>2. PICK m \in Update : m = [type |-> "Notification", sub |-> s, payload |-> topic]
    BY NewMessages
  <2>3. /\ m \in WebsocketMessage /\ m.type = "Notification"
        /\ m.sub = s /\ m.payload = topic
    BY <2>2, MessageKinds
  <2>4. /\ inbox' = [inbox EXCEPT ![c] = Append(@, m)]
        /\ UNCHANGED <<served, task, subscriptions, clients, mailbox>>
    BY <1>3, <2>1, <2>2 DEF UpstreamNotify, tables
  <2>5. MessageServed(c, m)'
    BY <2>1, <2>3, <2>4 DEF MessageServed
  <2>6. TopicStep
    BY <2>3, <2>4, <2>5, InboxAppend, TopicUnchanged DEF TopicStep
  <2>7. QED
    BY <2>6, TopicKept
<1>4. ASSUME NEW n \in 0 .. Len(inbox[c]), LinkBreaks(c, n) PROVE TopicInv'
  <2>1. /\ inbox' = [inbox EXCEPT ![c] = SubSeq(@, 1, n)]
        /\ UNCHANGED <<served, task, subscriptions, clients, mailbox>>
    BY <1>4 DEF LinkBreaks, tables
  <2>2. TopicStep
    BY <2>1, InboxShrinks, TopicUnchanged DEF TopicStep
  <2>3. QED
    BY <2>2, TopicKept
<1>5. QED
  BY <1>1, <1>2, <1>3, <1>4 DEF Upstream

\* Accounts stay apart when a connection reads: the listeners of an id are
\* those of the account that it is served for.
LEMMA TopicReceive ==
  ASSUME TypeInv, TopicInv, NEW c \in Conns, Receive(c)
  PROVE  TopicInv'
<1> DEFINE m == Head(inbox[c])
<1>1. /\ inbox[c] # <<>> /\ inbox' = [inbox EXCEPT ![c] = Tail(@)]
      /\ UNCHANGED <<served, subscriptions, clients, mailbox>>
  BY DEF Receive, ReceiveNotification, ReceiveSubscribed, Received, tables
<1>2. m \in WebsocketMessage /\ MessageServed(c, m)
  <2>1. inbox[c] \in Seq(WebsocketMessage)
    BY DEF TypeInv, TypeOK
  <2>2. m = inbox[c][1] /\ 1 \in DOMAIN inbox[c] /\ m \in WebsocketMessage
    BY <1>1, <2>1, TailOf
  <2>3. QED
    BY <2>2 DEF TopicInv, InboxServed
<1>3. \A d \in Conns : task'[d] = task[d] \/ TaskServed(d)'
  <2>1. CASE ReceiveNotification(c)
    <3> DEFINE listeners == subscriptions[c][m.sub]
               t == Doing("notify", listeners, m)
    <3>1. m.type = "Notification"
      BY <2>1 DEF ReceiveNotification, Received
    <3>2. /\ m \in Update /\ m.sub \in Subids /\ served[c][m.sub] = m.payload
      BY <1>2, <3>1, MessageKinds DEF MessageServed
    <3>3. task' = task \/ task' = [task EXCEPT ![c] = t]
      BY <2>1 DEF ReceiveNotification
    <3>4. /\ listeners \in SUBSET Clients
          /\ \A k \in listeners : clients[k].topic = m.payload
      BY <3>2 DEF TopicInv, TableServed, Serves, TypeInv, TypeOK
    <3> HIDE DEF m, listeners
    <3>5. t.pc = "notify" /\ t.sends = listeners /\ t.message = m
      BY <1>2, <3>4, DoingTask
    <3> HIDE DEF t
    <3>6. task' = [task EXCEPT ![c] = t] => task'[c] = t
      BY DEF TypeInv, TypeOK
    <3>7. task' = [task EXCEPT ![c] = t] => TaskServed(c)'
      BY <1>1, <3>4, <3>5, <3>6 DEF TaskServed, Is
    <3>8. QED
      BY <3>3, <3>7 DEF TypeInv, TypeOK
  <2>2. CASE ReceiveSubscribed(c)
    <3> DEFINE t == Doing("confirm", {m.id}, m)
    <3>1. m.type = "Subscribed"
      BY <2>2 DEF ReceiveSubscribed, Received
    <3>2. m.id \in Clients /\ Serves(c, m.sub, m.id)
      BY <1>2, <3>1, MessageKinds DEF MessageServed
    <3>3. task' = task \/ task' = [task EXCEPT ![c] = t]
      BY <2>2 DEF ReceiveSubscribed
    <3> HIDE DEF m
    <3>4. t.pc = "confirm" /\ t.message = m
      BY <1>2, <3>2, DoingTask
    <3> HIDE DEF t
    <3>5. task' = [task EXCEPT ![c] = t] => task'[c] = t
      BY DEF TypeInv, TypeOK
    <3>6. task' = [task EXCEPT ![c] = t] => TaskServed(c)'
      BY <1>1, <3>2, <3>4, <3>5 DEF TaskServed, Is, Serves
    <3>7. QED
      BY <3>3, <3>6 DEF TypeInv, TypeOK
  <2>3. QED
    BY <2>1, <2>2 DEF Receive
<1>4. TopicStep
  BY <1>1, <1>3, InboxShrinks, TopicUnchanged, SMTT(30) DEF TopicStep
<1>5. QED
  BY <1>4, TopicKept

\* A message is added to the mailbox of k.
LEMMA MailAppend ==
  ASSUME TypeInv, NEW k \in Clients, NEW m \in PubsubMessage, Post(k, m)
  PROVE  \A l \in Clients : \A i \in DOMAIN mailbox'[l] :
           \/ \E j \in DOMAIN mailbox[l] : mailbox[l][j] = mailbox'[l][i]
           \/ l = k /\ mailbox'[l][i] = m
BY AppendOf DEF TypeInv, TypeOK, Post

\* Messages are taken from the mailbox of k.
LEMMA MailShrinks ==
  ASSUME TypeInv, NEW k \in Clients,
         Close(k) \/ (Consume(k) /\ mailbox[k] # <<>>)
  PROVE  \A l \in Clients : \A i \in DOMAIN mailbox'[l] :
           \E j \in DOMAIN mailbox[l] : mailbox[l][j] = mailbox'[l][i]
<1>1. mailbox \in [Clients -> Seq(PubsubMessage)]
  BY DEF TypeInv, TypeOK
<1>2. CASE Close(k)
  BY <1>1, <1>2 DEF Close
<1>3. CASE Consume(k) /\ mailbox[k] # <<>>
  BY <1>1, <1>3, TailOf DEF Consume
<1>4. QED
  BY <1>2, <1>3

\* A task that neither confirms nor notifies has nothing to serve.
LEMMA TaskIdle ==
  ASSUME TypeInv, NEW c \in Conns, NEW t \in Task, t.pc \notin {"confirm", "notify"},
         task' = [task EXCEPT ![c] = t]
  PROVE  \A d \in Conns : task'[d] = task[d] \/ TaskServed(d)'
BY DEF TypeInv, TypeOK, TaskServed, Is

\* Accounts stay apart when a connection sends to its subscribers.
LEMMA TopicSend ==
  ASSUME TypeInv, TopicInv, NEW c \in Conns, Send(c)
  PROVE  TopicInv'
<1>1. ASSUME NEW k \in Clients, SendNotification(c, k) PROVE TopicInv'
  <2> DEFINE m == task[c].message
  <2>1. Is(c, "notify") /\ k \in task[c].sends /\ m \in Update
    BY <1>1 DEF SendNotification, TypeInv, TaskMessage
  <2>2. /\ \A l \in task[c].sends : clients[l].topic = m.payload
        /\ m.payload \in Topics /\ m.sub \in Subids
    BY <2>1, MessageKinds DEF TopicInv, TaskServed
  <2>3. PICK n \in PubsubMessage : /\ n = [type |-> "Notification", payload |-> m.payload]
                                   /\ n.payload = m.payload
    BY <2>2, MailKinds
  <2>4. UNCHANGED <<served, inbox, clients>>
    BY <1>1 DEF SendNotification, socket
  <2>5. \/ Post(k, n) /\ UNCHANGED subscriptions
        \/ /\ subscriptions' = [subscriptions EXCEPT ![c][m.sub] = @ \ {k}]
           /\ UNCHANGED mailbox
    BY <1>1, <2>3 DEF SendNotification
  <2>6. \A d \in Conns : task'[d] = task[d] \/ TaskServed(d)'
    <3> DEFINE t == Doing("notify", task[c].sends \ {k}, m)
    <3>1. task' = [task EXCEPT ![c] = Running] \/ task' = [task EXCEPT ![c] = t]
      BY <1>1 DEF SendNotification
    <3>2. t.pc = "notify" /\ t.sends = task[c].sends \ {k} /\ t.message = m
      <4>1. task[c].sends \ {k} \in SUBSET Clients
        BY TaskFields DEF TypeInv, TypeOK
      <4>2. m \in WebsocketMessage \cup {NoSub}
        BY <2>1, MessageKinds
      <4> HIDE DEF m
      <4>3. QED
        BY <4>1, <4>2, DoingTask
    <3>3. CASE task' = [task EXCEPT ![c] = Running]
      BY <3>3, RunningTask, TaskIdle
    <3>4. CASE task' = [task EXCEPT ![c] = t]
      <4> HIDE DEF t, m
      <4>1. task'[c] = t
        BY <3>4 DEF TypeInv, TypeOK
      <4>2. TaskServed(c)'
        BY <2>2, <2>4, <3>2, <4>1 DEF TaskServed, Is
      <4>3. QED
        BY <3>4, <4>2 DEF TypeInv, TypeOK
    <3>5. QED
      BY <3>1, <3>3, <3>4
  <2> HIDE DEF m
  <2>7. \A d \in Conns, s \in Subids : \A l \in subscriptions'[d][s] :
          l \in subscriptions[d][s]
    <3>1. /\ subscriptions \in [Conns -> [Subids -> SUBSET Clients]]
          /\ subscriptions[c][m.sub] \ {k} \in SUBSET Clients
      BY <2>2 DEF TypeInv, TypeOK
    <3>2. CASE subscriptions' = [subscriptions EXCEPT ![c][m.sub] = @ \ {k}]
      <4> DEFINE v == subscriptions[c][m.sub] \ {k}
      <4>1. subscriptions' = [subscriptions EXCEPT ![c][m.sub] = v]
        BY <3>2
      <4>2. v \in SUBSET Clients /\ v \subseteq subscriptions[c][m.sub]
        BY <3>1
      <4> HIDE DEF v
      <4>3. \A d \in Conns, s \in Subids : subscriptions'[d][s] =
              IF d = c /\ s = m.sub THEN v ELSE subscriptions[d][s]
        BY <2>2, <3>1, <4>1, <4>2, CellType
      <4>4. QED
        BY <4>2, <4>3
    <3>3. QED
      BY <2>5, <3>2
  <2>8. \A l \in Clients : \A i \in DOMAIN mailbox'[l] :
          \/ \E j \in DOMAIN mailbox[l] : mailbox[l][j] = mailbox'[l][i]
          \/ mailbox'[l][i].payload = clients'[l].topic
    <3>1. CASE UNCHANGED mailbox
      BY <3>1, TopicUnchanged
    <3>2. CASE Post(k, n)
      BY <2>1, <2>2, <2>3, <2>4, <3>2, MailAppend
    <3>3. QED
      BY <2>5, <3>1, <3>2
  <2>9. TopicStep
    BY <2>4, <2>6, <2>7, <2>8, TopicUnchanged DEF TopicStep
  <2>10. QED
    BY <2>9, TopicKept
<1>2. CASE SendSubscribed(c)
  <2>1. PICK m \in Confirmation : m = task[c].message
    BY <1>2 DEF SendSubscribed, TypeInv, TaskMessage
  <2>2. m.id \in Clients /\ m.sub \in Subids /\ Serves(c, m.sub, m.id)
    BY <1>2, <2>1, MessageKinds DEF SendSubscribed, TopicInv, TaskServed
  <2>3. PICK n \in PubsubMessage : /\ n = [type |-> "Subscribed", conn |-> c]
                                   /\ n.type = "Subscribed"
    BY MailKinds
  <2>4. /\ UNCHANGED <<served, inbox, clients>>
        /\ task' = [task EXCEPT ![c] = Running]
    BY <1>2 DEF SendSubscribed, socket
  <2>5. \/ /\ Post(m.id, n)
           /\ subscriptions' = [subscriptions EXCEPT ![c][m.sub] = @ \cup {m.id}]
        \/ UNCHANGED <<mailbox, subscriptions>>
    BY <1>2, <2>1, <2>3 DEF SendSubscribed
  <2>6. \A d \in Conns : task'[d] = task[d] \/ TaskServed(d)'
    BY <2>4, RunningTask, TaskIdle
  <2>7. \A d \in Conns, s \in Subids : \A l \in subscriptions'[d][s] :
          l \in subscriptions[d][s] \/ (d = c /\ s = m.sub /\ l = m.id)
    BY <2>2, <2>5 DEF TypeInv, TypeOK
  <2>8. Serves(c, m.sub, m.id)'
    BY <2>2, <2>4 DEF Serves
  <2>9. \A l \in Clients : \A i \in DOMAIN mailbox'[l] :
          \/ \E j \in DOMAIN mailbox[l] : mailbox[l][j] = mailbox'[l][i]
          \/ mailbox'[l][i].type # "Notification"
    <3>1. CASE UNCHANGED mailbox
      BY <3>1, TopicUnchanged
    <3>2. CASE Post(m.id, n)
      BY <2>2, <2>3, <3>2, MailAppend
    <3>3. QED
      BY <2>5, <3>1, <3>2
  <2>10. TopicStep
    BY <2>4, <2>6, <2>7, <2>8, <2>9, TopicUnchanged DEF TopicStep
  <2>11. QED
    BY <2>10, TopicKept
<1>3. ASSUME NEW s \in Subids, NEW k \in Clients, SendDisconnected(c, s, k)
      PROVE  TopicInv'
  <2>1. PICK n \in PubsubMessage : /\ n = [type |-> "Disconnected", conn |-> c]
                                   /\ n.type = "Disconnected"
    BY MailKinds
  <2>2. /\ UNCHANGED <<served, inbox, clients, task>>
        /\ subscriptions' = [subscriptions EXCEPT ![c][s] = @ \ {k}]
        /\ UNCHANGED mailbox \/ Post(k, n)
    BY <1>3, <2>1 DEF SendDisconnected, socket
  <2>3. \A d \in Conns, r \in Subids : \A l \in subscriptions'[d][r] :
          l \in subscriptions[d][r]
    BY <2>2 DEF TypeInv, TypeOK
  <2>4. \A l \in Clients : \A i \in DOMAIN mailbox'[l] :
          \/ \E j \in DOMAIN mailbox[l] : mailbox[l][j] = mailbox'[l][i]
          \/ mailbox'[l][i].type # "Notification"
    <3>1. CASE UNCHANGED mailbox
      BY <3>1, TopicUnchanged
    <3>2. CASE Post(k, n)
      BY <2>1, <3>2, MailAppend
    <3>3. QED
      BY <2>2, <3>1, <3>2
  <2>5. TopicStep
    BY <2>2, <2>3, <2>4, TopicUnchanged DEF TopicStep
  <2>6. QED
    BY <2>5, TopicKept
<1>4. QED
  BY <1>1, <1>2, <1>3 DEF Send

\* Accounts stay apart when a connection writes to its socket.
LEMMA TopicFrames ==
  ASSUME TypeInv, TopicInv, NEW c \in Conns,
         unsubscribe(c) \/ TakeRequest(c) \/ PingFailed(c) \/ PingSent(c)
  PROVE  TopicInv'
<1> DEFINE t == Doing("lost", {}, NoSub)
<1>1. t \in Task /\ t.pc = "lost"
  BY DoingTask
<1>2. /\ UNCHANGED <<served, inbox, clients, mailbox>>
      /\ UNCHANGED task \/ task' = [task EXCEPT ![c] = t]
  BY DEF unsubscribe, TakeRequest, PingFailed, PingSent, SendFrame, reestablish,
         socket, vars, tables
<1> HIDE DEF t
<1>3. \A d \in Conns : task'[d] = task[d] \/ TaskServed(d)'
  BY <1>1, <1>2, TaskIdle
<1>4. \A d \in Conns, s \in Subids : \A l \in subscriptions'[d][s] :
        l \in subscriptions[d][s]
  <2>1. CASE unsubscribe(c)
    <3> DEFINE k == Head(unsubs[c])
               r == request_to_subs[c][k]
    <3>1. \/ UNCHANGED subscriptions
          \/ subscriptions' = [subscriptions EXCEPT
               ![c] = [subscriptions[c] EXCEPT ![r] = @ \ {k}]]
      BY <2>1 DEF unsubscribe, SendFrame, reestablish
    <3> HIDE DEF k, r
    <3>2. subscriptions \in [Conns -> [Subids -> SUBSET Clients]]
      BY DEF TypeInv, TypeOK
    <3>3. \A s \in Subids : [subscriptions[c] EXCEPT ![r] = @ \ {k}][s]
                              \subseteq subscriptions[c][s]
      BY <3>2
    <3>4. QED
      BY <3>1, <3>2, <3>3
  <2>2. CASE TakeRequest(c) \/ PingFailed(c) \/ PingSent(c)
    <3>1. \/ UNCHANGED subscriptions
          \/ subscriptions' = [subscriptions EXCEPT ![c] = subscriptions[c]]
      BY <2>2 DEF TakeRequest, PingFailed, PingSent, SendFrame, reestablish,
                  vars, tables
    <3>2. QED
      BY <3>1 DEF TypeInv, TypeOK
  <2>3. QED
    BY <2>1, <2>2
<1>5. TopicStep
  BY <1>2, <1>3, <1>4, TopicUnchanged DEF TopicStep
<1>6. QED
  BY <1>5, TopicKept

\* Accounts stay apart through a reconnection, after which ids are given
\* anew: nothing is left that came with the old ones.
LEMMA TopicReconnect ==
  ASSUME TypeInv, TopicInv, NEW c \in Conns, Reconnect(c)
  PROVE  TopicInv'
<1>1. CASE Reconnected(c)
  <2>1. /\ task' = [task EXCEPT ![c] = Running]
        /\ inbox' = [inbox EXCEPT ![c] = <<>>]
        /\ served' = [served EXCEPT ![c] = [s \in Subids |-> NoTopic]]
        /\ UNCHANGED <<subscriptions, clients, mailbox>>
        /\ subscriptions[c] = NoSubscribers
    BY <1>1 DEF Reconnected, Connecting, tables
  <2>2. /\ task'[c] = Running /\ inbox'[c] = <<>>
        /\ \A d \in Conns \ {c} : /\ task'[d] = task[d] /\ inbox'[d] = inbox[d]
                                  /\ served'[d] = served[d]
    BY <2>1 DEF TypeInv, TypeOK
  <2>3. InboxServed'
    <3>1. ASSUME NEW d \in Conns \ {c}, NEW i \in DOMAIN inbox'[d]
          PROVE  MessageServed(d, inbox[d][i])'
      BY <2>1, <2>2 DEF TopicInv, InboxServed, MessageServed, Serves
    <3>2. QED
      BY <2>2, <3>1 DEF InboxServed
  <2>4. ASSUME NEW d \in Conns PROVE TaskServed(d)'
    <3>1. CASE d = c
      BY <2>2, <3>1, RunningTask DEF TaskServed, Is
    <3>2. CASE d # c
      BY <2>1, <2>2, <3>2 DEF TopicInv, TaskServed, Is, Serves
    <3>3. QED
      BY <3>1, <3>2
  <2>5. TableServed'
    <3>1. \A s \in Subids : subscriptions'[c][s] = {}
      BY <2>1 DEF NoSubscribers
    <3>2. QED
      BY <2>1, <2>2, <3>1 DEF TopicInv, TableServed, Serves
  <2>6. QED
    BY <2>1, <2>3, <2>4, <2>5 DEF TopicInv, TopicIsolation
<1>2. CASE ReconnectFailed(c)
  <2>1. /\ UNCHANGED <<served, clients, mailbox, subscriptions>> /\ Is(c, "lost")
        /\ \/ UNCHANGED inbox
           \/ inbox' = [inbox EXCEPT ![c] = <<>>]
        /\ \/ task' = [task EXCEPT ![c].attempt = @ + 1]
           \/ task' = [task EXCEPT ![c] = Doing("dead", {}, NoSub)]
    BY <1>2 DEF ReconnectFailed, Connecting
  <2>2. task'[c].pc \in {"lost", "dead"} /\ \A d \in Conns \ {c} : task'[d] = task[d]
    <3>1. CASE task' = [task EXCEPT ![c].attempt = @ + 1]
      BY <2>1, <3>1 DEF TypeInv, TypeOK, Task, Is
    <3>2. CASE task' = [task EXCEPT ![c] = Doing("dead", {}, NoSub)]
      BY <3>2, DoingTask DEF TypeInv, TypeOK
    <3>3. QED
      BY <2>1, <3>1, <3>2
  <2>3. \A d \in Conns : task'[d] = task[d] \/ TaskServed(d)'
    BY <2>2 DEF TaskServed, Is
  <2>4. \A d \in Conns : \A i \in DOMAIN inbox'[d] :
           \E j \in DOMAIN inbox[d] : inbox[d][j] = inbox'[d][i]
    BY <2>1, InboxShrinks, TopicUnchanged
  <2>5. TopicStep
    BY <2>1, <2>3, <2>4, TopicUnchanged DEF TopicStep
  <2>6. QED
    BY <2>5, TopicKept
<1>3. QED
  BY <1>1, <1>2 DEF Reconnect

\* A handler that has started keeps its account.
LEMMA KeepsTopic ==
  ASSUME TypeInv, NEW k \in Clients, clients[k].pc # "idle",
         \/ \E topic \in Topics : account_subscribe(k, topic)
         \/ ConfirmTimeout(k) \/ Handle(k) \/ SinkClosed(k)
  PROVE  clients'[k].topic = clients[k].topic
<1>0. clients[k] \in Subscriber /\ clients \in [Clients -> Subscriber]
  BY DEF TypeInv, TypeOK
<1>1. CASE Close(k)
  BY <1>0, <1>1 DEF Close, Handler
<1>2. ASSUME NEW h, clients' = [clients EXCEPT ![k] = Handler("live", h, @.topic)]
      PROVE  clients'[k].topic = clients[k].topic
  BY <1>0, <1>2 DEF Handler
<1>3. ASSUME NEW h, clients' = [clients EXCEPT ![k].handle = h]
      PROVE  clients'[k].topic = clients[k].topic
  BY <1>0, <1>3 DEF Subscriber
<1>4. \/ Close(k) \/ UNCHANGED clients
      \/ \E h : clients' = [clients EXCEPT ![k] = Handler("live", h, @.topic)]
      \/ \E h : clients' = [clients EXCEPT ![k].handle = h]
  BY DEF account_subscribe, ConfirmTimeout, SinkClosed, Handle, Confirmed,
         HandleSubscribed, HandleNotification, HandleDisconnected
<1>5. QED
  BY <1>1, <1>2, <1>3, <1>4

\* Accounts stay apart in the handlers, which keep their account.
LEMMA TopicHandlers ==
  ASSUME TypeInv, TopicInv, NEW k \in Clients,
         \/ \E topic \in Topics : account_subscribe(k, topic)
         \/ ConfirmTimeout(k) \/ Handle(k) \/ SinkClosed(k)
  PROVE  TopicInv'
<1>1. UNCHANGED <<served, inbox, task, subscriptions>>
  BY DEF account_subscribe, ConfirmTimeout, SinkClosed, Handle, Confirmed,
         HandleSubscribed, HandleNotification, HandleDisconnected, socket, tables
<1>2. \A l \in Clients : clients[l].topic # NoTopic => clients'[l].topic = clients[l].topic
  <2>1. clients[k].pc # "idle" => clients'[k].topic = clients[k].topic
    BY KeepsTopic
  <2>2. \A l \in Clients \ {k} : clients'[l] = clients[l]
    BY DEF account_subscribe, ConfirmTimeout, SinkClosed, Handle, Confirmed, Close,
           HandleSubscribed, HandleNotification, HandleDisconnected, TypeInv, TypeOK
  <2>3. QED
    BY <2>1, <2>2 DEF TypeInv, TopicChosen
<1>3. \A l \in Clients : \A i \in DOMAIN mailbox'[l] :
        \E j \in DOMAIN mailbox[l] : mailbox[l][j] = mailbox'[l][i]
  <2>1. \/ UNCHANGED mailbox \/ Close(k)
        \/ Consume(k) /\ mailbox[k] # <<>>
    BY DEF account_subscribe, ConfirmTimeout, SinkClosed, Handle, Confirmed,
           HandleSubscribed, HandleNotification, HandleDisconnected, Take
  <2>2. QED
    BY <2>1, MailShrinks, TopicUnchanged
<1>4. TopicStep
  BY <1>1, <1>2, <1>3, TopicUnchanged DEF TopicStep
<1>5. QED
  BY <1>4, TopicKept

\* The invariant survives every step.
LEMMA TopicNext == TypeInv /\ TopicInv /\ [Next]_vars => TopicInv'
<1> SUFFICES ASSUME TypeInv, TopicInv, [Next]_vars PROVE TopicInv'
  OBVIOUS
<1>1. CASE UNCHANGED vars
  <2>1. UNCHANGED <<served, inbox, task, subscriptions, clients, mailbox>>
    BY <1>1 DEF vars, tables, socket
  <2>2. TopicStep
    BY <2>1, TopicUnchanged DEF TopicStep
  <2>3. QED
    BY <2>2, TopicKept
<1>2. CASE Next
  BY <1>2, TopicUpstream, TopicReceive, TopicSend, TopicFrames, TopicReconnect,
     TopicHandlers DEF Next
<1>3. QED
  BY <1>1, <1>2

\* No handler is ever handed a notification of another account, for any
\* number of connections, subscribers and lost sockets: the tables, the unread
\* messages and a fan-out under way always belong to the ids of one socket.
THEOREM AccountsStayApart == Spec => []TopicIsolation
<1>1. Spec => []TypeInv
  BY TypeInit, TypeNext, PTL DEF Spec
<1>2. Spec => []TopicInv
  BY <1>1, TopicInit, TopicNext, PTL DEF Spec
<1>3. TopicInv => TopicIsolation
  BY DEF TopicInv
<1>4. QED
  BY <1>2, <1>3, PTL

=============================================================================
