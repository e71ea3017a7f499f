------------------------ MODULE WebsocketProtocolProofs ------------------------
(***************************************************************************)
(* What a handler and its connections know of each other, proved for any   *)
(* number of connections, clients and losses: MailboxProtocol and          *)
(* NoSilentLoss of WebsocketConnection.                                    *)
(*                                                                         *)
(* The subscription of a client is in one place at a time: its request is  *)
(* in the queue, sent, or being confirmed, it is registered under one id,  *)
(* or its loss is in the mailbox.                                          *)
(***************************************************************************)
EXTENDS WebsocketConnectionProofs

Queued(k) == \E i \in DOMAIN requests : requests[i] = k
Confirming(k, c) == Is(c, "confirm") /\ task[c].message.id = k

\* The request of k is on its way.
Asking(k) == Queued(k) \/ \E c \in Conns : k \in inflights[c] \/ Confirming(k, c)

\* A client is in the queue once.
QueuedOnce == \A i, j \in DOMAIN requests : requests[i] = requests[j] => i = j

\* There is one request of k, in one place.
OneRequest(k) ==
  /\ \A c, d \in Conns : k \in inflights[c] /\ k \in inflights[d] => c = d
  /\ \A c, d \in Conns : Confirming(k, c) /\ Confirming(k, d) => c = d
  /\ \A c, d \in Conns : ~ (k \in inflights[c] /\ Confirming(k, d))
  /\ Queued(k) => \A c \in Conns : k \notin inflights[c] /\ ~ Confirming(k, c)

\* While it is on its way, k holds nothing and is told nothing.
AskingWaits(k) ==
  Asking(k) => /\ mailbox[k] = <<>> /\ clients[k].handle = NoConn
               /\ \A c \in Conns : ~ Registered(k, c)

\* There is one registration of k.
OneRegistration(k) ==
  \A c, d \in Conns, s, r \in Subids :
    k \in subscriptions[c][s] /\ k \in subscriptions[d][r] => c = d /\ s = r

\* A mailbox is a confirmation, updates and a disconnection, in this order and
\* of one subscription; the confirmation is there until it is taken, and the
\* disconnection as soon as the connection has forgotten the handler.
MailKnown(k) ==
  /\ \A i \in DOMAIN mailbox[k] : mailbox[k][i].type = "Subscribed" =>
       /\ i = 1 /\ clients[k].handle = NoConn
       /\ Registered(k, mailbox[k][i].conn) \/ Told(k)
  /\ \A i \in DOMAIN mailbox[k] : mailbox[k][i].type = "Disconnected" =>
       /\ i = Len(mailbox[k])
       /\ \A c \in Conns : ~ Registered(k, c)
  /\ clients[k].handle = NoConn /\ mailbox[k] # <<>> =>
       mailbox[k][1].type = "Subscribed"
  /\ clients[k].handle # NoConn => Registered(k, clients[k].handle) \/ Told(k)
  /\ Open(k) => \A c \in Conns : Registered(k, c) =>
                  mailbox[k] # <<>> \/ clients[k].handle # NoConn

\* Only a live handler holds a handle; one that has not started or has ended
\* has an empty mailbox; one that has not started is known to no one.
StateKnown(k) ==
  /\ clients[k].pc # "live" => clients[k].handle = NoConn
  /\ ~ Open(k) => mailbox[k] = <<>>
  /\ clients[k].pc = "idle" => /\ ~ Asking(k)
                               /\ \A c \in Conns : ~ Registered(k, c)

ClientInv(k) ==
  OneRequest(k) /\ AskingWaits(k) /\ OneRegistration(k) /\ MailKnown(k) /\ StateKnown(k)

\* The listeners that a notification is still to be sent to are registered.
SendsRegistered ==
  \A c \in Conns : Is(c, "notify") =>
    task[c].sends \subseteq subscriptions[c][task[c].message.sub]

\* Only handlers that have ended unsubscribe.
UnsubsGone ==
  \A c \in Conns : \A i \in DOMAIN unsubs[c] : clients[unsubs[c][i]].pc = "gone"

ProtocolInv ==
  /\ QueuedOnce /\ (\A k \in Clients : ClientInv(k))
  /\ SendsRegistered /\ UnsubsGone

-----------------------------------------------------------------------------
\* The invariant holds at the start.
LEMMA ProtocolInit == Init => ProtocolInv
<1> SUFFICES ASSUME Init PROVE ProtocolInv
  OBVIOUS
<1>1. /\ \A c \in Conns : ~ Is(c, "confirm") /\ ~ Is(c, "notify")
      /\ \A k \in Clients : clients[k].pc = "idle" /\ clients[k].handle = NoConn
  <2>1. LET h == Handler("idle", NoConn, NoTopic) IN
        h.pc = "idle" /\ h.handle = NoConn
    BY HandlerSubscriber
  <2>2. QED
    BY <2>1, RunningTask DEF Init, Is
<1>2. ASSUME NEW k \in Clients PROVE ClientInv(k)
  <2>1. ~ Asking(k) /\ \A c \in Conns : ~ Confirming(k, c) /\ k \notin inflights[c]
    BY <1>1 DEF Init, Asking, Queued, Confirming
  <2>2. \A c \in Conns, s \in Subids : k \notin subscriptions[c][s]
    BY DEF Init, NoSubscribers
  <2>3. mailbox[k] = <<>>
    BY DEF Init
  <2>4. QED
    BY <1>1, <2>1, <2>2, <2>3
       DEF ClientInv, OneRequest, AskingWaits, OneRegistration, MailKnown,
           StateKnown, Registered, Asking, Open
<1>3. QED
  BY <1>1, <1>2 DEF Init, ProtocolInv, QueuedOnce, SendsRegistered, UnsubsGone

\* A step that leaves k where it is; a request may be lost.
Keeps(k) ==
  /\ mailbox'[k] = mailbox[k] /\ clients'[k] = clients[k]
  /\ Queued(k)' => Queued(k)
  /\ \A c \in Conns : /\ k \in inflights'[c] => k \in inflights[c]
                      /\ Confirming(k, c)' => Confirming(k, c)
                      /\ \A s \in Subids : k \in subscriptions'[c][s] <=>
                                             k \in subscriptions[c][s]

\* Such a step keeps what is known of k.
LEMMA ClientKept ==
  ASSUME TypeInv, NEW k \in Clients, ClientInv(k), Keeps(k)
  PROVE  ClientInv(k)'
<1>1. /\ Asking(k)' => Asking(k)
      /\ \A c \in Conns : Registered(k, c)' <=> Registered(k, c)
      /\ Told(k)' <=> Told(k)
      /\ Open(k)' <=> Open(k)
  BY DEF Keeps, Asking, Registered, Told, Open
<1>2. OneRequest(k)'
  BY DEF Keeps, ClientInv, OneRequest
<1>3. AskingWaits(k)'
  BY <1>1 DEF Keeps, ClientInv, AskingWaits
<1>4. OneRegistration(k)'
  BY DEF Keeps, ClientInv, OneRegistration
<1>5. MailKnown(k)'
  <2>1. /\ clients[k].handle \in Conns \cup {NoConn}
        /\ \A i \in DOMAIN mailbox[k] :
             mailbox[k][i].type = "Subscribed" => mailbox[k][i].conn \in Conns
    BY SubscriberFields, MailKinds DEF TypeInv, TypeOK
  <2>2. QED
    BY <1>1, <2>1 DEF Keeps, ClientInv, MailKnown
<1>6. StateKnown(k)'
  BY <1>1 DEF Keeps, ClientInv, StateKnown
<1>7. QED
  BY <1>2, <1>3, <1>4, <1>5, <1>6 DEF ClientInv

\* A step in which a handler that has ended may be forgotten.
Fades(k) ==
  /\ ~ Open(k) /\ mailbox'[k] = mailbox[k] /\ clients'[k] = clients[k]
  /\ Queued(k)' => Queued(k)
  /\ \A c \in Conns : /\ k \in inflights'[c] => k \in inflights[c]
                      /\ Confirming(k, c)' => Confirming(k, c)
                      /\ \A s \in Subids : k \in subscriptions'[c][s] =>
                                             k \in subscriptions[c][s]

\* Nothing more needs to be known of it.
LEMMA ClientFaded ==
  ASSUME NEW k \in Clients, ClientInv(k), Fades(k)
  PROVE  ClientInv(k)'
<1>1. /\ ~ Open(k)' /\ (Asking(k)' => Asking(k))
      /\ \A c \in Conns : Registered(k, c)' => Registered(k, c)
      /\ mailbox'[k] = <<>> /\ clients'[k].handle = NoConn
  BY DEF Fades, Asking, Registered, Open, ClientInv, StateKnown
<1>2. OneRequest(k)'
  BY DEF Fades, ClientInv, OneRequest
<1>3. AskingWaits(k)' /\ OneRegistration(k)'
  BY <1>1 DEF Fades, ClientInv, AskingWaits, OneRegistration
<1>4. MailKnown(k)'
  BY <1>1 DEF MailKnown
<1>5. StateKnown(k)'
  BY <1>1 DEF Fades, ClientInv, StateKnown
<1>6. QED
  BY <1>2, <1>3, <1>4, <1>5 DEF ClientInv

\* A subscriber is removed from the table of c, or added to it.
Drops(c, s, k) == subscriptions' = [subscriptions EXCEPT ![c][s] = @ \ {k}]
Adds(c, s, k) == subscriptions' = [subscriptions EXCEPT ![c][s] = @ \cup {k}]

\* The table without it.
LEMMA TableLess ==
  ASSUME TypeInv, NEW c \in Conns, NEW s \in Subids, NEW k \in Clients,
         Drops(c, s, k)
  PROVE  \A d \in Conns, r \in Subids, l \in Clients :
           l \in subscriptions'[d][r] <=>
             l \in subscriptions[d][r] /\ ~ (d = c /\ r = s /\ l = k)
<1>1. subscriptions \in [Conns -> [Subids -> SUBSET Clients]]
  BY DEF TypeInv, TypeOK
<1>2. /\ subscriptions'[c][s] = subscriptions[c][s] \ {k}
      /\ \A r \in Subids \ {s} : subscriptions'[c][r] = subscriptions[c][r]
  BY <1>1 DEF Drops
<1>3. \A d \in Conns \ {c} : subscriptions'[d] = subscriptions[d]
  BY <1>1 DEF Drops
<1>4. QED
  BY <1>2, <1>3

\* The table with it.
LEMMA TableMore ==
  ASSUME TypeInv, NEW c \in Conns, NEW s \in Subids, NEW k \in Clients,
         Adds(c, s, k)
  PROVE  \A d \in Conns, r \in Subids, l \in Clients :
           l \in subscriptions'[d][r] <=>
             l \in subscriptions[d][r] \/ (d = c /\ r = s /\ l = k)
<1>1. subscriptions \in [Conns -> [Subids -> SUBSET Clients]]
  BY DEF TypeInv, TypeOK
<1>2. /\ subscriptions'[c][s] = subscriptions[c][s] \cup {k}
      /\ \A r \in Subids \ {s} : subscriptions'[c][r] = subscriptions[c][r]
  BY <1>1 DEF Adds
<1>3. \A d \in Conns \ {c} : subscriptions'[d] = subscriptions[d]
  BY <1>1 DEF Adds
<1>4. QED
  BY <1>2, <1>3

\* A task that does not begin to confirm.
LEMMA NoNewConfirm ==
  ASSUME TypeInv, NEW c \in Conns, NEW t, t.pc # "confirm",
         task' = [task EXCEPT ![c] = t]
  PROVE  \A k \in Clients, d \in Conns : Confirming(k, d)' => Confirming(k, d)
BY DEF TypeInv, TypeOK, Confirming, Is

\* The upstream and the socket change nothing of this.
LEMMA ProtocolUpstream ==
  ASSUME TypeInv, ProtocolInv,
         UNCHANGED <<requests, task, inflights, subscriptions, unsubs, clients,
                     mailbox>>
  PROVE  ProtocolInv'
<1>1. \A k \in Clients : Keeps(k)
  BY DEF Keeps, Queued, Confirming, Is
<1>2. \A k \in Clients : ClientInv(k)'
  BY <1>1, ClientKept DEF ProtocolInv
<1>3. QED
  BY <1>2 DEF ProtocolInv, QueuedOnce, SendsRegistered, UnsubsGone, Is

\* A connection reads: the confirmed request moves on, or a notification is
\* for the subscribers of its id.
LEMMA ProtocolReceive ==
  ASSUME TypeInv, ProtocolInv, NEW c \in Conns, Receive(c)
  PROVE  ProtocolInv'
<1>0. /\ Is(c, "run") /\ inbox[c] # <<>>
      /\ UNCHANGED <<requests, subscriptions, unsubs, clients, mailbox>>
  BY DEF Receive, ReceiveNotification, ReceiveSubscribed, Received, tables
<1>1. QueuedOnce' /\ UnsubsGone' /\ \A k \in Clients : Queued(k)' <=> Queued(k)
  BY <1>0 DEF ProtocolInv, QueuedOnce, UnsubsGone, Queued
<1>2. Head(inbox[c]) \in WebsocketMessage
  BY <1>0, TailOf DEF TypeInv, TypeOK
<1>3. CASE ReceiveNotification(c)
  <2>1. PICK m \in Update : m = Head(inbox[c])
    BY <1>2, <1>3, MessageKinds DEF ReceiveNotification, Received
  <2>2. PICK listeners \in SUBSET Clients : listeners = subscriptions[c][m.sub]
    BY <2>1, MessageKinds DEF TypeInv, TypeOK
  <2>3. PICK t \in Task : /\ t = Doing("notify", listeners, m)
                          /\ t.pc = "notify" /\ t.sends = listeners /\ t.message = m
    BY MessageKinds, DoingTask
  <2>4. /\ UNCHANGED inflights
        /\ task' = task \/ task' = [task EXCEPT ![c] = t]
    BY <1>3, <2>1, <2>2, <2>3 DEF ReceiveNotification, tables
  <2>5. \A k \in Clients, d \in Conns : Confirming(k, d)' => Confirming(k, d)
    BY <2>3, <2>4, NoNewConfirm DEF Confirming, Is
  <2>6. \A k \in Clients : Keeps(k)
    BY <1>0, <1>1, <2>4, <2>5 DEF Keeps
  <2>7. SendsRegistered'
    <3>1. CASE task' = task
      BY <1>0, <3>1 DEF ProtocolInv, SendsRegistered, Is
    <3>2. CASE task' = [task EXCEPT ![c] = t]
      BY <1>0, <2>2, <2>3, <3>2 DEF ProtocolInv, SendsRegistered, Is, TypeInv, TypeOK
    <3>3. QED
      BY <2>4, <3>1, <3>2
  <2>8. \A k \in Clients : ClientInv(k)'
    BY <2>6, ClientKept DEF ProtocolInv
  <2>9. QED
    BY <1>1, <2>7, <2>8 DEF ProtocolInv
<1>4. CASE ReceiveSubscribed(c)
  <2>1. PICK m \in Confirmation : m = Head(inbox[c])
    BY <1>2, <1>4, MessageKinds DEF ReceiveSubscribed, Received
  <2>2. PICK k \in Clients : k = m.id
    BY MessageKinds
  <2>3. PICK t \in Task : /\ t = Doing("confirm", {k}, m)
                          /\ t.pc = "confirm" /\ t.message = m
    BY MessageKinds, DoingTask
  <2>4. CASE UNCHANGED <<inflights, task>>
    BY <1>0, <2>4, ProtocolUpstream
  <2>5. CASE /\ k \in inflights[c] /\ task' = [task EXCEPT ![c] = t]
             /\ inflights' = [inflights EXCEPT ![c] = @ \ {k}]
    <3>1. /\ task'[c] = t /\ \A d \in Conns \ {c} : task'[d] = task[d]
          /\ inflights'[c] = inflights[c] \ {k}
          /\ \A d \in Conns \ {c} : inflights'[d] = inflights[d]
      BY <2>5 DEF TypeInv, TypeOK
    <3>2. SendsRegistered'
      BY <1>0, <2>3, <3>1 DEF ProtocolInv, SendsRegistered, Is
    <3>3. /\ \A d \in Conns : Confirming(k, d)' => d = c
          /\ \A l \in Clients \ {k}, d \in Conns : Confirming(l, d)' => Confirming(l, d)
      <4>1. \A d \in Conns : ~ Confirming(k, d)
        BY <2>5 DEF ProtocolInv, ClientInv, OneRequest
      <4>2. QED
        BY <2>2, <2>3, <3>1, <4>1 DEF Confirming, Is
    <3>4. \A l \in Clients \ {k} : ClientInv(l)'
      <4>1. \A l \in Clients \ {k} : Keeps(l)
        BY <1>0, <1>1, <3>1, <3>3 DEF Keeps
      <4>2. QED
        BY <4>1, ClientKept DEF ProtocolInv
    <3>5. ClientInv(k)'
      <4>0. ClientInv(k)
        BY DEF ProtocolInv
      <4>1. Asking(k) /\ ~ Queued(k) /\ \A d \in Conns : k \notin inflights'[d]
        BY <2>5, <3>1, <4>0 DEF Asking, ClientInv, OneRequest
      <4>2. OneRequest(k)'
        BY <1>1, <3>3, <4>1 DEF OneRequest
      <4>3. \A d \in Conns : Registered(k, d)' <=> Registered(k, d)
        BY <1>0 DEF Registered
      <4>4. AskingWaits(k)' /\ OneRegistration(k)'
        BY <1>0, <4>0, <4>1, <4>3 DEF ClientInv, AskingWaits, OneRegistration
      <4>5. mailbox'[k] = <<>> /\ clients'[k].handle = NoConn /\ clients[k].pc # "idle"
        BY <1>0, <4>0, <4>1 DEF ClientInv, AskingWaits, StateKnown
      <4>6. MailKnown(k)' /\ StateKnown(k)'
        BY <1>0, <4>0, <4>1, <4>3, <4>5
           DEF ClientInv, AskingWaits, MailKnown, StateKnown, Open
      <4>7. QED
        BY <4>2, <4>4, <4>6 DEF ClientInv
    <3>6. QED
      BY <1>1, <3>2, <3>4, <3>5 DEF ProtocolInv
  <2>6. QED
    BY <1>4, <2>1, <2>2, <2>3, <2>4, <2>5 DEF ReceiveSubscribed
<1>5. QED
  BY <1>3, <1>4 DEF Receive

\* The mailbox of k with one more message, and the others.
LEMMA MailPosted ==
  ASSUME TypeInv, NEW k \in Clients, NEW m \in PubsubMessage, Post(k, m)
  PROVE  /\ \A l \in Clients \ {k} : mailbox'[l] = mailbox[l]
         /\ Len(mailbox[k]) \in Nat /\ Len(mailbox'[k]) = Len(mailbox[k]) + 1
         /\ DOMAIN mailbox[k] = 1 .. Len(mailbox[k])
         /\ DOMAIN mailbox'[k] = 1 .. Len(mailbox[k]) + 1
         /\ mailbox'[k][Len(mailbox[k]) + 1] = m
         /\ \A i \in DOMAIN mailbox[k] : mailbox'[k][i] = mailbox[k][i]
         /\ mailbox'[k] # <<>> /\ (mailbox[k] = <<>> <=> Len(mailbox[k]) = 0)
<1>1. /\ mailbox'[k] = Append(mailbox[k], m) /\ mailbox[k] \in Seq(PubsubMessage)
      /\ \A l \in Clients \ {k} : mailbox'[l] = mailbox[l]
  BY DEF TypeInv, TypeOK, Post
<1> DEFINE q == mailbox[k]
<1> HIDE DEF q
<1>2. /\ Len(q) \in Nat /\ Len(Append(q, m)) = Len(q) + 1 /\ DOMAIN q = 1 .. Len(q)
      /\ DOMAIN Append(q, m) = 1 .. Len(q) + 1 /\ Append(q, m)[Len(q) + 1] = m
      /\ \A i \in DOMAIN q : Append(q, m)[i] = q[i]
      /\ Append(q, m) # <<>> /\ (q = <<>> <=> Len(q) = 0)
  BY <1>1 DEF q
<1>3. QED
  BY <1>1, <1>2 DEF q

\* An update is sent to one of its listeners, who is registered; one that has
\* ended is forgotten.
LEMMA ProtocolNotification ==
  ASSUME TypeInv, ProtocolInv, NEW c \in Conns, NEW k \in Clients,
         SendNotification(c, k)
  PROVE  ProtocolInv'
<1>0. PICK m \in Update : m = task[c].message
  BY DEF SendNotification, TypeInv, TaskMessage
<1>1. /\ k \in task[c].sends /\ m.sub \in Subids /\ m.payload \in Topics
      /\ task[c].sends \subseteq subscriptions[c][m.sub]
      /\ UNCHANGED <<requests, inflights, unsubs, clients>>
  BY <1>0, MessageKinds DEF SendNotification, ProtocolInv, SendsRegistered
<1>2. QueuedOnce' /\ UnsubsGone' /\ \A l \in Clients : Queued(l)' <=> Queued(l)
  BY <1>1 DEF ProtocolInv, QueuedOnce, UnsubsGone, Queued
<1>3. PICK t \in Task : /\ task' = [task EXCEPT ![c] = t]
                        /\ \/ t.pc = "run"
                           \/ /\ t.pc = "notify" /\ t.message = m
                              /\ t.sends = task[c].sends \ {k}
  <2>1. m \in WebsocketMessage /\ task[c].sends \ {k} \in SUBSET Clients
    BY MessageKinds, TaskFields DEF TypeInv, TypeOK
  <2>2. \/ task' = [task EXCEPT ![c] = Running]
        \/ task' = [task EXCEPT ![c] = Doing("notify", task[c].sends \ {k}, m)]
    BY <1>0 DEF SendNotification
  <2>3. QED
    BY <2>1, <2>2, RunningTask, DoingTask
<1>4. /\ task'[c] = t /\ \A d \in Conns \ {c} : task'[d] = task[d]
      /\ \A l \in Clients, d \in Conns : Confirming(l, d)' => Confirming(l, d)
  BY <1>3, NoNewConfirm DEF TypeInv, TypeOK
<1>5. Registered(k, c) /\ ClientInv(k)
  BY <1>1 DEF Registered, ProtocolInv
<1>6. CASE Open(k) /\ UNCHANGED subscriptions
  <2>1. PICK n \in PubsubMessage : Post(k, n) /\ n.type = "Notification"
    <3>1. Post(k, [type |-> "Notification", payload |-> m.payload])
      BY <1>0, <1>6 DEF SendNotification
    <3>2. QED
      BY <1>1, <3>1, MailKinds
  <2>2. SendsRegistered'
    BY <1>1, <1>3, <1>4, <1>6 DEF ProtocolInv, SendsRegistered, Is
  <2>3. \A l \in Clients \ {k} : ClientInv(l)'
    <3>1. \A l \in Clients \ {k} : Keeps(l)
      BY <1>1, <1>2, <1>4, <1>6, <2>1, MailPosted DEF Keeps
    <3>2. QED
      BY <3>1, ClientKept DEF ProtocolInv
  <2>4. /\ \A d \in Conns : Registered(k, d)' <=> Registered(k, d)
        /\ ~ Asking(k) /\ ~ Asking(k)' /\ Open(k)'
    BY <1>1, <1>2, <1>4, <1>5, <1>6 DEF Registered, ClientInv, AskingWaits, Asking, Open
  <2>5. OneRequest(k)' /\ AskingWaits(k)' /\ OneRegistration(k)'
    BY <1>1, <1>2, <1>4, <1>5, <1>6, <2>4
       DEF ClientInv, OneRequest, AskingWaits, OneRegistration
  <2>6. \A i \in DOMAIN mailbox[k] : mailbox[k][i].type # "Disconnected"
    BY <1>5 DEF ClientInv, MailKnown
  <2>7. \A i \in DOMAIN mailbox'[k] : /\ mailbox'[k][i].type # "Disconnected"
                                      /\ mailbox'[k][i].type = "Subscribed" =>
                                           /\ i \in DOMAIN mailbox[k]
                                           /\ mailbox'[k][i] = mailbox[k][i]
    BY <2>1, <2>6, MailPosted
  <2>8. ~ Told(k)
    BY <2>6 DEF Told
  <2>9. MailKnown(k)'
    <3>1. \A i \in DOMAIN mailbox[k] :
            mailbox[k][i].type = "Subscribed" => mailbox[k][i].conn \in Conns
      BY MailKinds DEF TypeInv, TypeOK
    <3>2. \A i \in DOMAIN mailbox'[k] : mailbox'[k][i].type = "Subscribed" =>
            /\ i = 1 /\ clients'[k].handle = NoConn
            /\ Registered(k, mailbox[k][i].conn)'
      BY <1>1, <1>5, <2>4, <2>7, <2>8, <3>1 DEF ClientInv, MailKnown, Registered
    <3>3. clients'[k].handle = NoConn => mailbox'[k][1].type = "Subscribed"
      BY <1>1, <1>5, <1>6, <2>1, MailPosted DEF ClientInv, MailKnown
    <3>4. clients'[k].handle # NoConn => Registered(k, clients[k].handle)'
      BY <1>1, <1>5, <1>6, <2>8 DEF ClientInv, MailKnown, Registered
    <3>5. mailbox'[k] # <<>>
      BY <2>1, MailPosted
    <3>6. QED
      BY <2>7, <3>2, <3>3, <3>4, <3>5 DEF MailKnown
  <2>10. StateKnown(k)'
    BY <1>1, <1>5, <1>6, <2>4 DEF ClientInv, StateKnown, Open
  <2>11. QED
    BY <1>2, <2>2, <2>3, <2>5, <2>9, <2>10 DEF ProtocolInv, ClientInv
<1>7. CASE /\ ~ Open(k) /\ UNCHANGED mailbox
           /\ subscriptions' = [subscriptions EXCEPT ![c][m.sub] = @ \ {k}]
  <2>1. \A d \in Conns, r \in Subids, l \in Clients :
          l \in subscriptions'[d][r] <=>
            l \in subscriptions[d][r] /\ ~ (d = c /\ r = m.sub /\ l = k)
    <3>1. Drops(c, m.sub, k)
      BY <1>7 DEF Drops
    <3>2. QED
      BY <1>1, <3>1, TableLess
  <2>2. SendsRegistered'
    <3> SUFFICES ASSUME NEW d \in Conns, Is(d, "notify")', NEW l \in task'[d].sends
                 PROVE  l \in subscriptions'[d][task'[d].message.sub]
      BY DEF SendsRegistered
    <3>1. l \in Clients
      BY <1>3, <1>4, TaskFields DEF TypeInv, TypeOK
    <3>2. CASE d = c
      BY <1>1, <1>3, <1>4, <2>1, <3>1, <3>2 DEF Is
    <3>3. CASE d # c
      <4>1. task[d].message \in Update /\ Is(d, "notify")
        BY <1>4, <3>3 DEF Is, TypeInv, TaskMessage
      <4>2. QED
        BY <1>4, <2>1, <3>1, <3>3, <4>1, MessageKinds DEF ProtocolInv, SendsRegistered
    <3>4. QED
      BY <3>2, <3>3
  <2>3. \A l \in Clients \ {k} : Keeps(l)
    BY <1>1, <1>2, <1>4, <1>7, <2>1 DEF Keeps
  <2>4. Fades(k)
    BY <1>1, <1>2, <1>4, <1>7, <2>1 DEF Fades
  <2>5. \A l \in Clients : ClientInv(l)'
    BY <2>3, <2>4, ClientKept, ClientFaded DEF ProtocolInv
  <2>6. QED
    BY <1>2, <2>2, <2>5 DEF ProtocolInv
<1>8. QED
  BY <1>0, <1>6, <1>7 DEF SendNotification

\* A confirmation is the first message of its mailbox, and its subscriber is
\* registered with it; one that has ended is not.
LEMMA ProtocolSubscribed ==
  ASSUME TypeInv, ProtocolInv, NEW c \in Conns, SendSubscribed(c)
  PROVE  ProtocolInv'
<1>0. PICK m \in Confirmation : m = task[c].message
  BY DEF SendSubscribed, TypeInv, TaskMessage
<1>1. PICK k \in Clients, s \in Subids : k = m.id /\ s = m.sub
  BY MessageKinds
<1>2. /\ Is(c, "confirm") /\ task' = [task EXCEPT ![c] = Running]
      /\ UNCHANGED <<requests, inflights, unsubs, clients>>
  BY DEF SendSubscribed
<1>3. QueuedOnce' /\ UnsubsGone' /\ \A l \in Clients : Queued(l)' <=> Queued(l)
  BY <1>2 DEF ProtocolInv, QueuedOnce, UnsubsGone, Queued
<1>4. /\ task'[c] = Running /\ \A d \in Conns \ {c} : task'[d] = task[d]
      /\ \A l \in Clients, d \in Conns : Confirming(l, d)' => Confirming(l, d)
      /\ ~ Confirming(k, c)'
  BY <1>2, RunningTask, NoNewConfirm DEF TypeInv, TypeOK, Confirming, Is
<1>5. Confirming(k, c) /\ ClientInv(k)
  BY <1>0, <1>1, <1>2 DEF Confirming, ProtocolInv
<1>6. /\ \A d \in Conns : /\ ~ Registered(k, d) /\ k \notin inflights'[d]
                          /\ ~ Confirming(k, d)'
      /\ ~ Asking(k)' /\ mailbox[k] = <<>> /\ clients[k].handle = NoConn
  <2>1. /\ Asking(k) /\ ~ Queued(k)
        /\ \A d \in Conns : k \notin inflights[d] /\ (Confirming(k, d) => d = c)
    BY <1>5 DEF Asking, ClientInv, OneRequest
  <2>2. /\ \A d \in Conns : ~ Registered(k, d)
        /\ mailbox[k] = <<>> /\ clients[k].handle = NoConn
    BY <1>5, <2>1 DEF ClientInv, AskingWaits
  <2>3. \A d \in Conns : k \notin inflights'[d] /\ ~ Confirming(k, d)'
    <3>1. inflights' = inflights
      BY <1>2
    <3>2. \A d \in Conns : Confirming(k, d)' => d = c
      BY <1>4, <2>1
    <3>3. ~ Confirming(k, c)'
      BY <1>4
    <3>4. QED
      BY <2>1, <3>1, <3>2, <3>3
  <2>4. ~ Asking(k)'
    BY <1>3, <2>1, <2>3 DEF Asking
  <2>5. QED
    BY <2>2, <2>3, <2>4
<1>7. CASE UNCHANGED <<mailbox, subscriptions>>
  <2>1. \A l \in Clients : ClientInv(l)'
    <3>1. \A l \in Clients : Keeps(l)
      BY <1>2, <1>3, <1>4, <1>7 DEF Keeps
    <3>2. QED
      BY <3>1, ClientKept DEF ProtocolInv
  <2>2. SendsRegistered'
    BY <1>4, <1>7, RunningTask DEF ProtocolInv, SendsRegistered, Is
  <2>3. QED
    BY <1>3, <2>1, <2>2 DEF ProtocolInv
<1>8. CASE /\ Open(k) /\ Post(k, [type |-> "Subscribed", conn |-> c])
           /\ Adds(c, s, k)
  <2>1. PICK n \in PubsubMessage : Post(k, n) /\ n.type = "Subscribed" /\ n.conn = c
    BY <1>8, MailKinds
  <2>2. \A d \in Conns, r \in Subids, l \in Clients :
          l \in subscriptions'[d][r] <=>
            l \in subscriptions[d][r] \/ (d = c /\ r = s /\ l = k)
    BY <1>8, TableMore
  <2>3. SendsRegistered'
    <3> SUFFICES ASSUME NEW d \in Conns, Is(d, "notify")', NEW l \in task'[d].sends
                 PROVE  l \in subscriptions'[d][task'[d].message.sub]
      BY DEF SendsRegistered
    <3>1. d # c /\ task'[d] = task[d] /\ Is(d, "notify")
      BY <1>4, RunningTask DEF Is
    <3>2. task[d].message.sub \in Subids /\ l \in Clients
      BY <3>1, MessageKinds, TaskFields DEF TypeInv, TypeOK, TaskMessage
    <3>3. QED
      BY <2>2, <3>1, <3>2 DEF ProtocolInv, SendsRegistered
  <2>4. \A l \in Clients \ {k} : ClientInv(l)'
    <3>1. \A l \in Clients \ {k} : Keeps(l)
      BY <1>2, <1>3, <1>4, <2>1, <2>2, MailPosted DEF Keeps
    <3>2. QED
      BY <3>1, ClientKept DEF ProtocolInv
  <2>5. OneRequest(k)' /\ AskingWaits(k)'
    BY <1>3, <1>6 DEF OneRequest, AskingWaits, Asking
  <2>6. \A d \in Conns, r \in Subids : k \in subscriptions'[d][r] <=> d = c /\ r = s
    BY <1>6, <2>2 DEF Registered
  <2>7. OneRegistration(k)'
    BY <2>6 DEF OneRegistration
  <2>8. MailKnown(k)'
    <3>1. /\ DOMAIN mailbox'[k] = {1} /\ mailbox'[k][1] = n /\ mailbox'[k] # <<>>
      BY <1>6, <2>1, MailPosted
    <3>2. Registered(k, c)'
      BY <2>6 DEF Registered
    <3>3. clients'[k].handle = NoConn
      BY <1>2, <1>6
    <3>4. QED
      BY <2>1, <3>1, <3>2, <3>3 DEF MailKnown, Registered
  <2>9. StateKnown(k)'
    BY <1>2, <1>5, <1>8 DEF ClientInv, StateKnown, Open
  <2>10. QED
    BY <1>3, <2>3, <2>4, <2>5, <2>7, <2>8, <2>9 DEF ProtocolInv, ClientInv
<1>9. QED
  BY <1>0, <1>1, <1>7, <1>8 DEF SendSubscribed, Adds

\* A loss is told to a subscriber as it is forgotten.
LEMMA ProtocolDisconnected ==
  ASSUME TypeInv, ProtocolInv, NEW c \in Conns, NEW s \in Subids, NEW k \in Clients,
         SendDisconnected(c, s, k)
  PROVE  ProtocolInv'
<1>1. /\ Is(c, "lost") /\ k \in subscriptions[c][s] /\ Drops(c, s, k)
      /\ UNCHANGED <<requests, task, inflights, unsubs, clients>>
  BY DEF SendDisconnected, Drops
<1>2. /\ QueuedOnce' /\ UnsubsGone'
      /\ \A l \in Clients : Queued(l)' <=> Queued(l)
      /\ \A l \in Clients, d \in Conns : Confirming(l, d)' <=> Confirming(l, d)
  BY <1>1 DEF ProtocolInv, QueuedOnce, UnsubsGone, Queued, Confirming, Is
<1>3. \A d \in Conns, r \in Subids, l \in Clients :
        l \in subscriptions'[d][r] <=>
          l \in subscriptions[d][r] /\ ~ (d = c /\ r = s /\ l = k)
  BY <1>1, TableLess
<1>4. SendsRegistered'
  <2> SUFFICES ASSUME NEW d \in Conns, Is(d, "notify")', NEW l \in task'[d].sends
               PROVE  l \in subscriptions'[d][task'[d].message.sub]
    BY DEF SendsRegistered
  <2>1. d # c /\ Is(d, "notify")
    BY <1>1 DEF Is
  <2>2. task[d].message.sub \in Subids /\ l \in Clients
    BY <1>1, <2>1, MessageKinds, TaskFields DEF TypeInv, TypeOK, TaskMessage
  <2>3. QED
    BY <1>1, <1>3, <2>1, <2>2 DEF ProtocolInv, SendsRegistered
<1>5. ClientInv(k) /\ Registered(k, c)
  BY <1>1 DEF ProtocolInv, Registered
<1>6. CASE ~ Open(k) /\ UNCHANGED mailbox
  <2>1. Fades(k) /\ \A l \in Clients \ {k} : Keeps(l)
    BY <1>1, <1>2, <1>3, <1>6 DEF Fades, Keeps
  <2>2. \A l \in Clients : ClientInv(l)'
    BY <2>1, ClientKept, ClientFaded DEF ProtocolInv
  <2>3. QED
    BY <1>2, <1>4, <2>2 DEF ProtocolInv
<1>7. CASE Open(k) /\ Post(k, [type |-> "Disconnected", conn |-> c])
  <2>1. PICK n \in PubsubMessage : Post(k, n) /\ n.type = "Disconnected"
    BY <1>7, MailKinds
  <2>2. \A l \in Clients \ {k} : ClientInv(l)'
    <3>1. \A l \in Clients \ {k} : Keeps(l)
      BY <1>1, <1>2, <1>3, <2>1, MailPosted DEF Keeps
    <3>2. QED
      BY <3>1, ClientKept DEF ProtocolInv
  <2>3. /\ \A d \in Conns, r \in Subids : k \notin subscriptions'[d][r]
        /\ \A d \in Conns : ~ Registered(k, d)'
    BY <1>1, <1>3, <1>5 DEF ClientInv, OneRegistration, Registered
  <2>4. ~ Asking(k) /\ ~ Asking(k)'
    BY <1>1, <1>2, <1>5 DEF ClientInv, AskingWaits, Asking
  <2>5. OneRequest(k)' /\ AskingWaits(k)' /\ OneRegistration(k)'
    BY <1>1, <1>2, <1>5, <2>3, <2>4
       DEF ClientInv, OneRequest, AskingWaits, OneRegistration
  <2>6. /\ Told(k)'
        /\ \A i \in DOMAIN mailbox[k] : mailbox[k][i].type # "Disconnected"
    <3>1. /\ Len(mailbox[k]) + 1 \in DOMAIN mailbox'[k]
          /\ mailbox'[k][Len(mailbox[k]) + 1] = n
      BY <2>1, MailPosted
    <3>2. QED
      BY <1>5, <2>1, <3>1 DEF Told, ClientInv, MailKnown
  <2>7. MailKnown(k)'
    <3>1. \A i \in DOMAIN mailbox'[k] :
            \/ i \in DOMAIN mailbox[k] /\ mailbox'[k][i] = mailbox[k][i]
            \/ i = Len(mailbox'[k]) /\ mailbox'[k][i].type = "Disconnected"
      BY <2>1, MailPosted
    <3>2. \A i \in DOMAIN mailbox'[k] : mailbox'[k][i].type = "Subscribed" =>
            i = 1 /\ clients'[k].handle = NoConn
      BY <1>1, <1>5, <3>1 DEF ClientInv, MailKnown
    <3>3. \A i \in DOMAIN mailbox'[k] : mailbox'[k][i].type = "Disconnected" =>
            i = Len(mailbox'[k])
      BY <2>6, <3>1
    <3>4. clients'[k].handle = NoConn => mailbox'[k][1].type = "Subscribed"
      BY <1>1, <1>5, <1>7, <2>1, MailPosted DEF ClientInv, MailKnown
    <3>5. QED
      BY <2>3, <2>6, <3>2, <3>3, <3>4 DEF MailKnown
  <2>8. StateKnown(k)'
    BY <1>1, <1>5, <1>7, <2>3, <2>4 DEF ClientInv, StateKnown, Open
  <2>9. QED
    BY <1>2, <1>4, <2>2, <2>5, <2>7, <2>8 DEF ProtocolInv, ClientInv
<1>8. QED
  BY <1>6, <1>7 DEF SendDisconnected

\* An unsubscription is of a handler that has ended, which is forgotten.
LEMMA ProtocolUnsubscribe ==
  ASSUME TypeInv, ProtocolInv, NEW c \in Conns, unsubscribe(c)
  PROVE  ProtocolInv'
<1>0. PICK t \in Task : t = Doing("lost", {}, NoSub) /\ t.pc = "lost"
  BY DoingTask
<1>1. /\ Is(c, "run") /\ unsubs[c] # <<>> /\ unsubs' = [unsubs EXCEPT ![c] = Tail(@)]
      /\ UNCHANGED <<requests, inflights, clients, mailbox>>
      /\ task' = task \/ task' = [task EXCEPT ![c] = t]
  BY <1>0 DEF unsubscribe, SendFrame, reestablish
<1>2. PICK k \in Clients : k = Head(unsubs[c]) /\ clients[k].pc = "gone"
  BY <1>1, TailOf DEF TypeInv, TypeOK, ProtocolInv, UnsubsGone
<1>3. \/ UNCHANGED subscriptions
      \/ \E s \in Subids : subscriptions' = [subscriptions EXCEPT ![c] =
                             [subscriptions[c] EXCEPT ![s] = @ \ {k}]]
  <2>1. request_to_subs[c][k] \in Subids \cup {NoSub}
    BY DEF TypeInv, TypeOK
  <2>2. QED
    BY <1>2, <2>1 DEF unsubscribe, SendFrame, reestablish
<1>4. /\ \A d \in Conns, r \in Subids, l \in Clients \ {k} :
           l \in subscriptions'[d][r] <=> l \in subscriptions[d][r]
      /\ \A d \in Conns, r \in Subids :
           k \in subscriptions'[d][r] => k \in subscriptions[d][r]
      /\ \A d \in Conns \ {c} : subscriptions'[d] = subscriptions[d]
  <2>1. CASE UNCHANGED subscriptions
    BY <2>1
  <2>2. ASSUME NEW s \in Subids,
               subscriptions' = [subscriptions EXCEPT ![c] =
                                   [subscriptions[c] EXCEPT ![s] = @ \ {k}]]
        PROVE  <1>4!:
    <3>1. subscriptions \in [Conns -> [Subids -> SUBSET Clients]]
      BY DEF TypeInv, TypeOK
    <3>2. /\ subscriptions'[c] = [subscriptions[c] EXCEPT ![s] = @ \ {k}]
          /\ \A d \in Conns \ {c} : subscriptions'[d] = subscriptions[d]
      BY <2>2, <3>1
    <3>3. /\ subscriptions'[c][s] = subscriptions[c][s] \ {k}
          /\ \A r \in Subids \ {s} : subscriptions'[c][r] = subscriptions[c][r]
      BY <3>1, <3>2
    <3>4. QED
      BY <3>2, <3>3
  <2>3. QED
    BY <1>3, <2>1, <2>2
<1>5. /\ QueuedOnce' /\ \A l \in Clients : Queued(l)' <=> Queued(l)
  BY <1>1 DEF ProtocolInv, QueuedOnce, Queued
<1>6. /\ \A d \in Conns \ {c} : task'[d] = task[d]
      /\ ~ Is(c, "notify")'
      /\ \A l \in Clients, d \in Conns : Confirming(l, d)' => Confirming(l, d)
  BY <1>0, <1>1, NoNewConfirm DEF TypeInv, TypeOK, Confirming, Is
<1>7. UnsubsGone'
  <2>1. unsubs[c] \in Seq(Clients) /\ unsubs \in [Conns -> Seq(Clients)]
    BY DEF TypeInv, TypeOK
  <2>2. \A i \in DOMAIN unsubs'[c] : \E j \in DOMAIN unsubs[c] :
          unsubs'[c][i] = unsubs[c][j]
    BY <1>1, <2>1, TailOf
  <2>3. QED
    BY <1>1, <2>1, <2>2 DEF ProtocolInv, UnsubsGone
<1>8. SendsRegistered'
  BY <1>4, <1>6 DEF ProtocolInv, SendsRegistered, Is
<1>9. \A l \in Clients : ClientInv(l)'
  <2>1. Fades(k) /\ \A l \in Clients \ {k} : Keeps(l)
    BY <1>1, <1>2, <1>4, <1>5, <1>6 DEF Fades, Keeps, Open
  <2>2. QED
    BY <2>1, ClientKept, ClientFaded DEF ProtocolInv
<1>10. QED
  BY <1>5, <1>7, <1>8, <1>9 DEF ProtocolInv

\* A request leaves the queue for the inflights of one connection.
LEMMA ProtocolTake ==
  ASSUME TypeInv, ProtocolInv, NEW c \in Conns, TakeRequest(c)
  PROVE  ProtocolInv'
<1>0. PICK t \in Task : t = Doing("lost", {}, NoSub) /\ t.pc = "lost"
  BY DoingTask
<1>1. PICK k \in Clients : k = Head(requests)
  BY TailOf DEF TakeRequest, TypeInv, TypeOK
<1>2. /\ Is(c, "run") /\ requests # <<>> /\ requests' = Tail(requests)
      /\ inflights' = [inflights EXCEPT ![c] = @ \cup {k}]
      /\ UNCHANGED <<unsubs, clients, mailbox>>
      /\ task' = task \/ task' = [task EXCEPT ![c] = t]
      /\ \/ UNCHANGED subscriptions
         \/ subscriptions' = [subscriptions EXCEPT ![c] = subscriptions[c]]
  BY <1>0, <1>1 DEF TakeRequest, SendFrame, reestablish
<1>3. UNCHANGED subscriptions
  BY <1>2 DEF TypeInv, TypeOK
<1>4. /\ \A d \in Conns \ {c} : task'[d] = task[d]
      /\ ~ Is(c, "notify")'
      /\ \A l \in Clients, d \in Conns : Confirming(l, d)' => Confirming(l, d)
  BY <1>0, <1>2, NoNewConfirm DEF TypeInv, TypeOK, Confirming, Is
<1>5. UnsubsGone' /\ SendsRegistered'
  BY <1>2, <1>3, <1>4 DEF ProtocolInv, UnsubsGone, SendsRegistered, Is
<1>6. /\ requests \in Seq(Clients) /\ requests[1] = k /\ 1 \in DOMAIN requests
      /\ \A i \in DOMAIN requests' : /\ i + 1 \in DOMAIN requests /\ i \in Nat \ {0}
                                     /\ requests'[i] = requests[i + 1]
  BY <1>1, <1>2, TailOf DEF TypeInv, TypeOK
<1>7. QueuedOnce' /\ Queued(k) /\ ~ Queued(k)'
  BY <1>6 DEF ProtocolInv, QueuedOnce, Queued
<1>8. \A l \in Clients \ {k} : ClientInv(l)'
  <2>1. \A l \in Clients : Queued(l)' => Queued(l)
    BY <1>6 DEF Queued
  <2>2. \A l \in Clients \ {k}, d \in Conns : l \in inflights'[d] => l \in inflights[d]
    BY <1>2 DEF TypeInv, TypeOK
  <2>3. \A l \in Clients \ {k} : Keeps(l)
    BY <1>2, <1>3, <1>4, <2>1, <2>2 DEF Keeps
  <2>4. QED
    BY <2>3, ClientKept DEF ProtocolInv
<1>9. ClientInv(k)'
  <2>0. ClientInv(k) /\ Asking(k)
    BY <1>7 DEF ProtocolInv, Asking
  <2>1. /\ \A d \in Conns : ~ Confirming(k, d)' /\ (k \in inflights'[d] => d = c)
    BY <1>2, <1>4, <1>7, <2>0 DEF ClientInv, OneRequest, TypeInv, TypeOK
  <2>2. OneRequest(k)'
    BY <1>7, <2>1 DEF OneRequest
  <2>3. \A d \in Conns : Registered(k, d)' <=> Registered(k, d)
    BY <1>3 DEF Registered
  <2>4. /\ mailbox'[k] = <<>> /\ clients'[k].handle = NoConn
        /\ clients'[k].pc # "idle" /\ \A d \in Conns : ~ Registered(k, d)'
    BY <1>2, <2>0, <2>3 DEF ClientInv, AskingWaits, StateKnown
  <2>5. AskingWaits(k)' /\ OneRegistration(k)'
    BY <1>3, <2>0, <2>4 DEF ClientInv, AskingWaits, OneRegistration
  <2>6. MailKnown(k)' /\ StateKnown(k)'
    BY <2>4 DEF MailKnown, StateKnown, Open
  <2>7. QED
    BY <2>2, <2>5, <2>6 DEF ClientInv
<1>10. QED
  BY <1>5, <1>7, <1>8, <1>9 DEF ProtocolInv

\* A connection that fails, comes back or ends: requests may be lost with it.
LEMMA ProtocolConnection ==
  ASSUME TypeInv, ProtocolInv, NEW c \in Conns,
         PingFailed(c) \/ Reconnect(c)
  PROVE  ProtocolInv'
<1>1. /\ Is(c, "run") \/ Is(c, "lost")
      /\ UNCHANGED <<requests, clients, mailbox>>
      /\ \/ UNCHANGED subscriptions
         \/ subscriptions' = [subscriptions EXCEPT ![c] = subscriptions[c]]
      /\ UNCHANGED inflights \/ inflights' = [inflights EXCEPT ![c] = {}]
      /\ UNCHANGED unsubs \/ unsubs' = [unsubs EXCEPT ![c] = <<>>]
  BY DEF PingFailed, Reconnect, Reconnected, ReconnectFailed, Connecting,
         reestablish, tables
<1>2. UNCHANGED subscriptions
  BY <1>1 DEF TypeInv, TypeOK
<1>3. /\ task'[c].pc \in {"run", "lost", "dead"}
      /\ \A d \in Conns \ {c} : task'[d] = task[d]
  <2>1. ASSUME NEW t, t.pc \in {"run", "lost", "dead"}, task' = [task EXCEPT ![c] = t]
        PROVE  /\ task'[c].pc \in {"run", "lost", "dead"}
               /\ \A d \in Conns \ {c} : task'[d] = task[d]
    BY <2>1 DEF TypeInv, TypeOK
  <2>2. CASE Is(c, "lost") /\ task' = [task EXCEPT ![c].attempt = @ + 1]
    BY <2>2 DEF TypeInv, TypeOK, Task, Is
  <2>3. \/ task' = [task EXCEPT ![c] = Running]
        \/ task' = [task EXCEPT ![c] = Doing("lost", {}, NoSub)]
        \/ task' = [task EXCEPT ![c] = Doing("dead", {}, NoSub)]
        \/ Is(c, "lost") /\ task' = [task EXCEPT ![c].attempt = @ + 1]
    BY DEF PingFailed, Reconnect, Reconnected, ReconnectFailed, Connecting,
           reestablish
  <2>4. /\ Running.pc = "run" /\ Doing("lost", {}, NoSub).pc = "lost"
        /\ Doing("dead", {}, NoSub).pc = "dead"
    BY RunningTask, DoingTask
  <2>5. QED
    BY <2>1, <2>2, <2>3, <2>4
<1>4. \A l \in Clients, d \in Conns : /\ Confirming(l, d)' => Confirming(l, d)
                                      /\ l \in inflights'[d] => l \in inflights[d]
  BY <1>1, <1>3 DEF Confirming, Is, TypeInv, TypeOK
<1>5. \A l \in Clients : ClientInv(l)'
  <2>1. \A l \in Clients : Keeps(l)
    BY <1>1, <1>2, <1>4 DEF Keeps, Queued
  <2>2. QED
    BY <2>1, ClientKept DEF ProtocolInv
<1>6. SendsRegistered'
  BY <1>2, <1>3 DEF ProtocolInv, SendsRegistered, Is
<1>7. UnsubsGone'
  <2>1. \A d \in Conns : unsubs'[d] = unsubs[d] \/ unsubs'[d] = <<>>
    BY <1>1 DEF TypeInv, TypeOK
  <2>2. UNCHANGED clients
    BY <1>1
  <2>3. QED
    BY <2>1, <2>2 DEF ProtocolInv, UnsubsGone
<1>8. QED
  BY <1>1, <1>5, <1>6, <1>7 DEF ProtocolInv, QueuedOnce

-----------------------------------------------------------------------------
\* A step of the handler of k, in which the connections take no part.
Acts(k) ==
  /\ task' = task /\ inflights' = inflights /\ subscriptions' = subscriptions
  /\ \A l \in Clients \ {k} : /\ mailbox'[l] = mailbox[l] /\ clients'[l] = clients[l]
                              /\ Queued(l)' => Queued(l)

\* The connections know k as before, and nothing changes for the others.
LEMMA ProtocolActs ==
  ASSUME TypeInv, ProtocolInv, NEW k \in Clients, Acts(k)
  PROVE  /\ \A c \in Conns : /\ k \in inflights'[c] <=> k \in inflights[c]
                             /\ Confirming(k, c)' <=> Confirming(k, c)
                             /\ Registered(k, c)' <=> Registered(k, c)
         /\ OneRegistration(k)'
         /\ QueuedOnce' /\ UnsubsGone' /\ ClientInv(k)' => ProtocolInv'
<1>1. \A l \in Clients, c \in Conns : Confirming(l, c)' <=> Confirming(l, c)
  BY DEF Acts, Confirming, Is
<1>2. \A c \in Conns : Registered(k, c)' <=> Registered(k, c)
  BY DEF Acts, Registered
<1>3. OneRegistration(k)'
  BY DEF Acts, ProtocolInv, ClientInv, OneRegistration
<1>4. \A l \in Clients \ {k} : ClientInv(l)'
  <2>1. \A l \in Clients \ {k} : Keeps(l)
    BY <1>1 DEF Acts, Keeps
  <2>2. QED
    BY <2>1, ClientKept DEF ProtocolInv
<1>5. SendsRegistered'
  BY DEF Acts, ProtocolInv, SendsRegistered, Is
<1>6. QED
  BY <1>1, <1>2, <1>3, <1>4, <1>5 DEF Acts, ProtocolInv

\* A handler ends: what it has not read goes, and it may unsubscribe.
LEMMA ProtocolClose ==
  ASSUME TypeInv, ProtocolInv, NEW k \in Clients, Open(k), Close(k),
         UNCHANGED <<requests, task, inflights, subscriptions>>,
         \A c \in Conns : \A i \in DOMAIN unsubs'[c] :
           \/ unsubs'[c][i] = k
           \/ \E j \in DOMAIN unsubs[c] : unsubs'[c][i] = unsubs[c][j]
  PROVE  ProtocolInv'
<1>0. PICK h \in Subscriber : /\ h = Handler("gone", NoConn, clients[k].topic)
                              /\ h.pc = "gone" /\ h.handle = NoConn
  <2>1. clients[k].topic \in Topics \cup {NoTopic}
    BY SubscriberFields DEF TypeInv, TypeOK
  <2>2. QED
    BY <2>1, HandlerSubscriber
<1>1. /\ clients'[k] = h /\ \A l \in Clients \ {k} : clients'[l] = clients[l]
      /\ mailbox'[k] = <<>> /\ \A l \in Clients \ {k} : mailbox'[l] = mailbox[l]
  BY <1>0 DEF Close, TypeInv, TypeOK
<1>2. \A l \in Clients : Queued(l)' <=> Queued(l)
  BY DEF Queued
<1>3. Acts(k)
  BY <1>1, <1>2 DEF Acts
<1>4. ClientInv(k)'
  <2>0. ClientInv(k)
    BY DEF ProtocolInv
  <2>1. Asking(k)' => Asking(k)
    BY <1>2, <1>3, ProtocolActs DEF Asking
  <2>2. OneRequest(k)'
    BY <1>2, <1>3, <2>0, ProtocolActs DEF ClientInv, OneRequest
  <2>3. AskingWaits(k)'
    BY <1>0, <1>1, <1>3, <2>0, <2>1, ProtocolActs DEF ClientInv, AskingWaits
  <2>4. MailKnown(k)' /\ StateKnown(k)'
    BY <1>0, <1>1 DEF MailKnown, StateKnown, Open
  <2>5. QED
    BY <1>3, <2>2, <2>3, <2>4, ProtocolActs DEF ClientInv
<1>5. UnsubsGone'
  <2>1. \A l \in Clients : clients[l].pc = "gone" => clients'[l].pc = "gone"
    BY <1>0, <1>1
  <2>2. \A c \in Conns : \A j \in DOMAIN unsubs[c] : unsubs[c][j] \in Clients
    BY DEF TypeInv, TypeOK
  <2>3. QED
    BY <1>0, <1>1, <2>1, <2>2 DEF ProtocolInv, UnsubsGone
<1>6. QED
  BY <1>3, <1>4, <1>5, ProtocolActs DEF ProtocolInv, QueuedOnce

\* What is left of a mailbox after its first message.
LEMMA MailTaken ==
  ASSUME TypeInv, NEW k \in Clients, mailbox[k] # <<>>, Consume(k)
  PROVE  /\ \A l \in Clients \ {k} : mailbox'[l] = mailbox[l]
         /\ Head(mailbox[k]) = mailbox[k][1] /\ Head(mailbox[k]) \in PubsubMessage
         /\ 1 \in DOMAIN mailbox[k]
         /\ Len(mailbox[k]) = 1 => mailbox'[k] = <<>>
         /\ Len(mailbox'[k]) = Len(mailbox[k]) - 1
         /\ \A i \in DOMAIN mailbox'[k] :
              /\ i + 1 \in DOMAIN mailbox[k] /\ i + 1 # 1
              /\ mailbox'[k][i] = mailbox[k][i + 1]
              /\ i + 1 = Len(mailbox[k]) => i = Len(mailbox'[k])
         /\ \A j \in DOMAIN mailbox[k] \ {1} :
              /\ j - 1 \in DOMAIN mailbox'[k]
              /\ mailbox'[k][j - 1] = mailbox[k][j]
<1>1. /\ mailbox[k] \in Seq(PubsubMessage) /\ mailbox'[k] = Tail(mailbox[k])
      /\ \A l \in Clients \ {k} : mailbox'[l] = mailbox[l]
  BY DEF TypeInv, TypeOK, Consume
<1>2. ASSUME NEW s \in Seq(PubsubMessage), s # <<>>
      PROVE  /\ Head(s) = s[1] /\ Head(s) \in PubsubMessage /\ 1 \in DOMAIN s
             /\ Len(s) = 1 => Tail(s) = <<>>
             /\ Len(Tail(s)) = Len(s) - 1
             /\ \A i \in DOMAIN Tail(s) :
                  /\ i + 1 \in DOMAIN s /\ i + 1 # 1
                  /\ Tail(s)[i] = s[i + 1]
                  /\ i + 1 = Len(s) => i = Len(Tail(s))
             /\ \A j \in DOMAIN s \ {1} : /\ j - 1 \in DOMAIN Tail(s)
                                          /\ Tail(s)[j - 1] = s[j]
  <2>1. /\ Head(s) = s[1] /\ Head(s) \in PubsubMessage /\ 1 \in DOMAIN s
        /\ Len(Tail(s)) = Len(s) - 1 /\ Tail(s) \in Seq(PubsubMessage)
        /\ Len(s) \in Nat /\ DOMAIN s = 1 .. Len(s)
        /\ DOMAIN Tail(s) = 1 .. Len(s) - 1
        /\ \A i \in DOMAIN Tail(s) : Tail(s)[i] = s[i + 1]
    BY <1>2, TailOf
  <2>2. Len(s) = 1 => Tail(s) = <<>>
    BY <2>1
  <2>3. \A i \in DOMAIN Tail(s) :
          /\ i + 1 \in DOMAIN s /\ i + 1 # 1
          /\ i + 1 = Len(s) => i = Len(Tail(s))
    BY <2>1
  <2>4. \A j \in DOMAIN s \ {1} :
          j - 1 \in DOMAIN Tail(s) /\ Tail(s)[j - 1] = s[j]
    <3> TAKE j \in DOMAIN s \ {1}
    <3>1. j - 1 \in DOMAIN Tail(s) /\ j = (j - 1) + 1
      BY <2>1
    <3>2. QED
      BY <2>1, <3>1
  <2>5. QED
    BY <2>1, <2>2, <2>3, <2>4
<1>3. QED
  BY <1>1, <1>2

\* A handler takes a message and holds the handle of a live subscription, or
\* of one whose loss is still to be read.
LEMMA ProtocolTaken ==
  ASSUME TypeInv, ProtocolInv, NEW k \in Clients, Open(k), mailbox[k] # <<>>,
         Head(mailbox[k]).type # "Disconnected", Consume(k),
         UNCHANGED <<requests, task, inflights, subscriptions, unsubs>>,
         NEW h \in Subscriber, clients' = [clients EXCEPT ![k] = h], h.pc = "live",
         h.handle # NoConn, Registered(k, h.handle) \/ Told(k)
  PROVE  ProtocolInv'
<1>1. /\ clients'[k] = h /\ \A l \in Clients \ {k} : clients'[l] = clients[l]
      /\ h.handle \in Conns
  BY SubscriberFields DEF TypeInv, TypeOK
<1>2. \A l \in Clients : Queued(l)' <=> Queued(l)
  BY DEF Queued
<1>3. Acts(k)
  BY <1>1, <1>2, MailTaken DEF Acts
<1>4. ClientInv(k) /\ ~ Asking(k) /\ ~ Asking(k)'
  <2>1. ClientInv(k) /\ ~ Asking(k)
    BY DEF ProtocolInv, ClientInv, AskingWaits
  <2>2. QED
    BY <1>2, <1>3, <2>1, ProtocolActs DEF Asking
<1>5. OneRequest(k)' /\ AskingWaits(k)'
  BY <1>4 DEF OneRequest, AskingWaits, Asking
<1>6. MailKnown(k)'
  <2>1. Told(k)' <=> Told(k)
    BY MailTaken DEF Told
  <2>2. \A i \in DOMAIN mailbox'[k] : mailbox'[k][i].type # "Subscribed"
    BY <1>4, MailTaken DEF ClientInv, MailKnown
  <2>3. \A i \in DOMAIN mailbox'[k] : mailbox'[k][i].type = "Disconnected" =>
          i = Len(mailbox'[k]) /\ \A c \in Conns : ~ Registered(k, c)'
    <3> SUFFICES ASSUME NEW i \in DOMAIN mailbox'[k],
                        mailbox'[k][i].type = "Disconnected"
                 PROVE  i = Len(mailbox'[k]) /\ \A c \in Conns : ~ Registered(k, c)'
      OBVIOUS
    <3>1. /\ i + 1 \in DOMAIN mailbox[k] /\ mailbox[k][i + 1].type = "Disconnected"
          /\ i + 1 = Len(mailbox[k]) => i = Len(mailbox'[k])
      BY MailTaken
    <3>2. QED
      BY <1>3, <1>4, <3>1, ProtocolActs DEF ClientInv, MailKnown
  <2>4. Registered(k, h.handle)' \/ Told(k)'
    BY <1>1, <1>3, <2>1, ProtocolActs
  <2>5. QED
    BY <1>1, <2>2, <2>3, <2>4 DEF MailKnown
<1>7. StateKnown(k)'
  BY <1>1 DEF StateKnown, Open
<1>8. QueuedOnce' /\ UnsubsGone'
  <2>1. \A l \in Clients : clients[l].pc = "gone" => clients'[l].pc = "gone"
    BY <1>1 DEF Open
  <2>2. \A c \in Conns : \A j \in DOMAIN unsubs[c] : unsubs[c][j] \in Clients
    BY DEF TypeInv, TypeOK
  <2>3. QED
    BY <2>1, <2>2 DEF ProtocolInv, QueuedOnce, UnsubsGone
<1>9. QED
  BY <1>3, <1>5, <1>6, <1>7, <1>8, ProtocolActs DEF ClientInv

\* A handler that nobody knows of, and that has nothing to read, asks for its
\* subscription.
LEMMA ProtocolSubmit ==
  ASSUME TypeInv, ProtocolInv, NEW k \in Clients, clients[k].pc # "gone",
         ~ Asking(k), \A c \in Conns : ~ Registered(k, c),
         Submit(k), UNCHANGED <<task, inflights, subscriptions, unsubs>>,
         \A l \in Clients \ {k} : mailbox'[l] = mailbox[l] /\ clients'[l] = clients[l],
         mailbox'[k] = <<>>, clients'[k].handle = NoConn, Open(k)'
  PROVE  ProtocolInv'
<1>1. requests \in Seq(Clients)
  BY DEF TypeInv, TypeOK
<1>2. /\ \A l \in Clients \ {k} : Queued(l)' => Queued(l)
      /\ QueuedOnce'
  <2>1. QueuedOnce /\ ~ Queued(k)
    BY DEF ProtocolInv, Asking
  <2>2. CASE requests' = requests
    BY <2>1, <2>2 DEF Queued, QueuedOnce
  <2>3. CASE requests' = Append(requests, k)
    <3>1. /\ DOMAIN requests' = DOMAIN requests \cup {Len(requests) + 1}
          /\ requests'[Len(requests) + 1] = k
          /\ \A i \in DOMAIN requests : requests'[i] = requests[i]
      BY <1>1, <2>3, AppendOf
    <3>2. QED
      BY <2>1, <3>1 DEF Queued, QueuedOnce
  <2>4. QED
    BY <2>2, <2>3 DEF Submit
<1>3. Acts(k)
  BY <1>2 DEF Acts
<1>4. \A c \in Conns : /\ k \notin inflights'[c] /\ ~ Confirming(k, c)'
                       /\ ~ Registered(k, c)'
  BY <1>3, ProtocolActs DEF Asking
<1>5. OneRequest(k)' /\ AskingWaits(k)'
  BY <1>4 DEF OneRequest, AskingWaits
<1>6. MailKnown(k)' /\ StateKnown(k)'
  BY <1>4 DEF MailKnown, StateKnown, Open
<1>7. UnsubsGone'
  <2>1. \A l \in Clients : clients[l].pc = "gone" => clients'[l].pc = "gone"
    OBVIOUS
  <2>2. \A c \in Conns : \A j \in DOMAIN unsubs[c] : unsubs[c][j] \in Clients
    BY DEF TypeInv, TypeOK
  <2>3. QED
    BY <2>1, <2>2 DEF ProtocolInv, UnsubsGone
<1>8. QED
  BY <1>2, <1>3, <1>5, <1>6, <1>7, ProtocolActs DEF ClientInv

\* A handler with another handle.
Holding(h, x) == [h EXCEPT !.handle = x]

\* It is a handler that has changed nothing else.
LEMMA HoldingFields ==
  ASSUME NEW h \in Subscriber, NEW x \in Conns \cup {NoConn}
  PROVE  /\ Holding(h, x) \in Subscriber
         /\ Holding(h, x).pc = h.pc /\ Holding(h, x).handle = x
BY DEF Holding, Subscriber

\* The handlers keep the protocol.
LEMMA ProtocolHandlers ==
  ASSUME TypeInv, ProtocolInv, NEW k \in Clients,
         \/ \E topic \in Topics : account_subscribe(k, topic)
         \/ ConfirmTimeout(k) \/ Handle(k) \/ SinkClosed(k)
  PROVE  ProtocolInv'
<1>0. /\ ClientInv(k) /\ clients[k] \in Subscriber
      /\ clients[k].topic \in Topics \cup {NoTopic}
      /\ clients[k].handle \in Conns \cup {NoConn}
  BY SubscriberFields DEF ProtocolInv, TypeInv, TypeOK
<1>1. ASSUME NEW topic \in Topics, account_subscribe(k, topic) PROVE ProtocolInv'
  <2>1. PICK h \in Subscriber : /\ h = Handler("confirm", NoConn, topic)
                                /\ h.pc = "confirm" /\ h.handle = NoConn
    BY HandlerSubscriber
  <2>2. /\ clients[k].pc = "idle" /\ clients' = [clients EXCEPT ![k] = h] /\ Submit(k)
        /\ UNCHANGED <<task, inflights, subscriptions, unsubs, mailbox>>
    BY <1>1, <2>1 DEF account_subscribe, tables
  <2>3. clients'[k] = h /\ \A l \in Clients \ {k} : clients'[l] = clients[l]
    BY <2>2 DEF TypeInv, TypeOK
  <2>4. ~ Asking(k) /\ mailbox[k] = <<>> /\ \A c \in Conns : ~ Registered(k, c)
    BY <1>0, <2>2 DEF ClientInv, StateKnown, Open
  <2>5. Open(k)'
    BY <2>1, <2>3 DEF Open
  <2>6. QED
    BY <2>1, <2>2, <2>3, <2>4, <2>5, ProtocolSubmit
<1>2. ASSUME UNCHANGED <<requests, task, inflights, subscriptions, unsubs>>,
             Close(k), Open(k)
      PROVE  ProtocolInv'
  <2>1. \A c \in Conns : \A i \in DOMAIN unsubs'[c] :
          \E j \in DOMAIN unsubs[c] : unsubs'[c][i] = unsubs[c][j]
    BY <1>2
  <2>2. QED
    BY <1>2, <2>1, ProtocolClose
<1>3. CASE ConfirmTimeout(k)
  BY <1>2, <1>3 DEF ConfirmTimeout, Open, tables
<1>4. CASE SinkClosed(k)
  <2>1. /\ Open(k) /\ Close(k)
        /\ UNCHANGED <<requests, task, inflights, subscriptions>>
    BY <1>4 DEF SinkClosed, Open, tables
  <2>2. CASE UNCHANGED unsubs
    BY <1>2, <2>1, <2>2
  <2>3. ASSUME NEW c \in Conns, unsubs' = [unsubs EXCEPT ![c] = Append(@, k)]
        PROVE  ProtocolInv'
    <3>1. unsubs \in [Conns -> Seq(Clients)]
      BY DEF TypeInv, TypeOK
    <3>2. /\ unsubs'[c] = Append(unsubs[c], k)
          /\ \A d \in Conns \ {c} : unsubs'[d] = unsubs[d]
      BY <2>3, <3>1
    <3>3. \A i \in DOMAIN unsubs'[c] :
            \/ unsubs'[c][i] = k
            \/ \E j \in DOMAIN unsubs[c] : unsubs'[c][i] = unsubs[c][j]
      BY <3>1, <3>2, AppendOf
    <3>4. \A d \in Conns : \A i \in DOMAIN unsubs'[d] :
            \/ unsubs'[d][i] = k
            \/ \E j \in DOMAIN unsubs[d] : unsubs'[d][i] = unsubs[d][j]
      BY <3>2, <3>3
    <3>5. QED
      BY <2>1, <3>4, ProtocolClose
  <2>4. QED
    BY <1>0, <1>4, <2>2, <2>3 DEF SinkClosed
<1>5. ASSUME NEW accepted \in BOOLEAN, Confirmed(k, accepted) PROVE ProtocolInv'
  <2>1. PICK m : m = Head(mailbox[k])
    OBVIOUS
  <2>2. /\ Open(k) /\ mailbox[k] # <<>>
        /\ UNCHANGED <<requests, task, inflights, subscriptions, unsubs>>
    BY <1>5 DEF Confirmed, Take, Open, tables
  <2>3. CASE Close(k)
    BY <1>2, <2>2, <2>3
  <2>4. CASE /\ m.type = "Subscribed" /\ Consume(k)
             /\ clients' = [clients EXCEPT ![k] = Handler("live", m.conn, @.topic)]
    <3>1. m = mailbox[k][1] /\ 1 \in DOMAIN mailbox[k] /\ m.conn \in Conns
      BY <2>1, <2>2, <2>4, MailTaken, MailKinds
    <3>2. Registered(k, m.conn) \/ Told(k)
      BY <1>0, <2>4, <3>1 DEF ClientInv, MailKnown
    <3>3. PICK h \in Subscriber : /\ h = Handler("live", m.conn, clients[k].topic)
                                  /\ h.pc = "live" /\ h.handle = m.conn
      BY <1>0, <3>1, HandlerSubscriber
    <3>4. clients' = [clients EXCEPT ![k] = h] /\ h.handle # NoConn
      BY <2>4, <3>1, <3>3, WsSentinelAssumption
    <3>5. QED
      BY <2>1, <2>2, <2>4, <3>2, <3>3, <3>4, ProtocolTaken
  <2>5. QED
    BY <1>5, <2>1, <2>3, <2>4 DEF Confirmed
<1>6. CASE HandleSubscribed(k)
  <2>1. PICK m : m = Head(mailbox[k])
    OBVIOUS
  <2>2. /\ Open(k) /\ mailbox[k] # <<>> /\ m.type = "Subscribed" /\ Consume(k)
        /\ clients[k].pc = "live" /\ clients' = [clients EXCEPT ![k].handle = m.conn]
        /\ UNCHANGED <<requests, task, inflights, subscriptions, unsubs>>
    BY <1>6, <2>1 DEF HandleSubscribed, Take, Open, tables
  <2>3. m = mailbox[k][1] /\ 1 \in DOMAIN mailbox[k] /\ m.conn \in Conns
    BY <2>1, <2>2, MailTaken, MailKinds
  <2>4. Registered(k, m.conn) \/ Told(k)
    BY <1>0, <2>2, <2>3 DEF ClientInv, MailKnown
  <2>5. PICK h \in Subscriber : /\ h = Holding(clients[k], m.conn)
                                /\ h.pc = "live" /\ h.handle = m.conn
    BY <1>0, <2>2, <2>3, HoldingFields
  <2>6. clients' = [clients EXCEPT ![k] = h] /\ h.handle # NoConn
    BY <2>2, <2>3, <2>5, WsSentinelAssumption DEF Holding
  <2>7. QED
    BY <2>1, <2>2, <2>4, <2>5, <2>6, ProtocolTaken
<1>7. CASE HandleNotification(k)
  <2>1. /\ Open(k) /\ mailbox[k] # <<>> /\ Head(mailbox[k]).type = "Notification"
        /\ clients[k].pc = "live"
        /\ UNCHANGED <<requests, task, inflights, subscriptions, unsubs>>
    BY <1>7 DEF HandleNotification, Take, Open, tables
  <2>2. CASE Close(k)
    BY <1>2, <2>1, <2>2
  <2>3. CASE Consume(k) /\ UNCHANGED clients
    <3>1. mailbox[k][1].type = "Notification"
      BY <2>1, <2>3, MailTaken
    <3>2. clients[k].handle # NoConn
      BY <1>0, <2>1, <3>1 DEF ClientInv, MailKnown
    <3>3. Registered(k, clients[k].handle) \/ Told(k)
      BY <1>0, <3>2 DEF ClientInv, MailKnown
    <3>4. PICK h \in Subscriber : h = clients[k]
      BY <1>0
    <3>5. clients' = [clients EXCEPT ![k] = h]
      BY <2>3, <3>4 DEF TypeInv, TypeOK
    <3>6. QED
      BY <2>1, <2>3, <3>2, <3>3, <3>4, <3>5, ProtocolTaken
  <2>4. QED
    BY <1>7, <2>2, <2>3 DEF HandleNotification
<1>8. CASE HandleDisconnected(k)
  <2>1. /\ Open(k) /\ mailbox[k] # <<>> /\ Head(mailbox[k]).type = "Disconnected"
        /\ clients[k].pc = "live" /\ Consume(k)
        /\ UNCHANGED <<task, inflights, subscriptions, unsubs>>
    BY <1>8 DEF HandleDisconnected, Take, Open, tables
  <2>2. 1 \in DOMAIN mailbox[k] /\ mailbox[k][1].type = "Disconnected"
    BY <2>1, MailTaken
  <2>3. /\ Len(mailbox[k]) = 1 /\ clients[k].handle # NoConn /\ ~ Asking(k)
        /\ \A c \in Conns : ~ Registered(k, c)
    BY <1>0, <2>1, <2>2 DEF ClientInv, MailKnown, AskingWaits
  <2>4. PICK h \in Subscriber : /\ h = Holding(clients[k], NoConn)
                                /\ h.pc = "live" /\ h.handle = NoConn
    BY <1>0, <2>1, HoldingFields
  <2>5. clients' = [clients EXCEPT ![k] = h] /\ Submit(k)
    BY <1>8, <2>3, <2>4 DEF HandleDisconnected, Holding
  <2>6. /\ clients'[k] = h /\ \A l \in Clients \ {k} : clients'[l] = clients[l]
    BY <2>5 DEF TypeInv, TypeOK
  <2>7. mailbox'[k] = <<>> /\ \A l \in Clients \ {k} : mailbox'[l] = mailbox[l]
    BY <2>1, <2>3, MailTaken
  <2>8. Open(k)'
    BY <2>4, <2>6 DEF Open
  <2>9. QED
    BY <2>1, <2>3, <2>4, <2>5, <2>6, <2>7, <2>8, ProtocolSubmit
<1>9. QED
  BY <1>1, <1>3, <1>4, <1>5, <1>6, <1>7, <1>8 DEF Handle

\* Every step keeps the protocol.
LEMMA ProtocolNext == TypeInv /\ ProtocolInv /\ [Next]_vars => ProtocolInv'
<1> SUFFICES ASSUME TypeInv, ProtocolInv, [Next]_vars PROVE ProtocolInv'
  OBVIOUS
<1>1. CASE UNCHANGED vars
  <2>1. UNCHANGED <<requests, task, inflights, subscriptions, unsubs, clients, mailbox>>
    BY <1>1 DEF vars, tables
  <2>2. QED
    BY <2>1, ProtocolUpstream
<1>2. ASSUME NEW c \in Conns,
             \/ Upstream(c) \/ UpstreamReject(c)
             \/ (\E s \in Subids : UpstreamNotify(c, s))
             \/ (\E n \in 0 .. Len(inbox[c]) : LinkBreaks(c, n))
      PROVE  ProtocolInv'
  <2>1. UNCHANGED <<requests, task, inflights, subscriptions, unsubs, clients, mailbox>>
    BY <1>2 DEF Upstream, UpstreamSubscribe, UpstreamUnsubscribe, UpstreamReject,
                UpstreamNotify, LinkBreaks, tables
  <2>2. QED
    BY <2>1, ProtocolUpstream
<1>3. ASSUME NEW c \in Conns, Send(c) PROVE ProtocolInv'
  BY <1>3, ProtocolNotification, ProtocolSubscribed, ProtocolDisconnected DEF Send
<1>4. ASSUME NEW c \in Conns, PingSent(c) PROVE ProtocolInv'
  BY <1>1, <1>4 DEF PingSent
<1>5. ASSUME NEW c \in Conns,
             \/ Receive(c) \/ unsubscribe(c) \/ TakeRequest(c)
             \/ PingFailed(c) \/ Reconnect(c)
      PROVE  ProtocolInv'
  BY <1>5, ProtocolReceive, ProtocolUnsubscribe, ProtocolTake, ProtocolConnection
<1>6. CASE Next
  BY <1>2, <1>3, <1>4, <1>5, <1>6, ProtocolHandlers DEF Next
<1>7. QED
  BY <1>1, <1>6

\* The invariant holds in every state of the connections and their handlers.
LEMMA ProtocolAlways == Spec => []ProtocolInv
<1>1. Spec => []TypeInv
  BY TypeInit, TypeNext, PTL DEF Spec
<1>2. QED
  BY <1>1, ProtocolInit, ProtocolNext, PTL DEF Spec

\* For any number of connections, handlers, losses and refused attempts: a
\* handler gets a confirmation only when it holds no handle, nothing follows a
\* Disconnected before it has asked again, and it is registered at most once.
\* So the handles that AccountSubscriptionHandler::run overwrites or gives up
\* are never those of another live subscription.
THEOREM MailboxesKeepProtocol == Spec => []MailboxProtocol
<1>1. TypeInv /\ ProtocolInv => MailboxProtocol
  <2> SUFFICES ASSUME TypeInv, ProtocolInv, NEW k \in Clients
               PROVE  MailboxProtocol!(k)
    BY DEF MailboxProtocol
  <2>1. ClientInv(k)
    BY DEF ProtocolInv
  <2>2. QED
    BY <2>1 DEF ClientInv, MailKnown, OneRegistration
<1>2. Spec => []TypeInv
  BY TypeInit, TypeNext, PTL DEF Spec
<1>3. QED
  BY <1>1, <1>2, ProtocolAlways, PTL

\* For any number of connections, handlers, losses and refused attempts: a
\* handler that holds a handle is in the table of the connection behind it, or
\* the Disconnected is in its mailbox.  The table that reestablish drains while
\* handlers close, resubscribe and unsubscribe forgets nobody silently.
THEOREM NoLossUnreported == Spec => []NoSilentLoss
<1>1. ProtocolInv => NoSilentLoss
  BY DEF ProtocolInv, ClientInv, MailKnown, NoSilentLoss
<1>2. QED
  BY <1>1, ProtocolAlways, PTL

=============================================================================
